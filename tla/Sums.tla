-------------------------------- MODULE Sums --------------------------------
(***************************************************************************)
(* Facts about SumFunctionOnSet for finite sets: it is a fold over the     *)
(* elements in an order that CHOOSE decides, and the facts say that the    *)
(* order does not matter.  Inductions over finite sets are by WFMin: a set *)
(* of counterexamples has a smallest one.                                  *)
(***************************************************************************)
EXTENDS Integers, Functions, FiniteSetTheorems, TLAPS

Pick(S) == CHOOSE x \in S : TRUE
StepOf(f, g, s) == IF s = {} THEN 0 ELSE f[Pick(s)] + g[s \ {Pick(s)}]
Sums(f, g, S) == g = [s \in SUBSET S |-> StepOf(f, g, s)]

LEMMA PickIn ==
  ASSUME NEW S, S # {}
  PROVE  Pick(S) \in S
  BY DEF Pick

LEMMA SumIsChosen ==
  ASSUME NEW f, NEW S
  PROVE  SumFunctionOnSet(f, S) = (CHOOSE g : Sums(f, g, S))[S]
  BY DEF SumFunctionOnSet, FoldFunctionOnSet, MapThenFoldSet, Sums, StepOf, Pick

(* A set of subsets of a finite set has a smallest one.                    *)
LEMMA SmallestSubset ==
  ASSUME NEW S, IsFiniteSet(S), NEW C \in SUBSET SUBSET S, C # {}
  PROVE  \E s \in C : \A r \in C : r \subseteq s => r = s
  <1>1. IsWellFoundedOn(StrictSubsetOrdering(S), SUBSET S)
    BY FS_StrictSubsetOrderingWellFounded, FS_FiniteSubsetsOfFinite
  <1>2. \E s \in C : \A r \in C : ~(<<r, s>> \in StrictSubsetOrdering(S))
    BY <1>1, WFMin
  <1>3. QED
    BY <1>2 DEF StrictSubsetOrdering

LEMMA SumsUnique ==
  ASSUME NEW f, NEW S, IsFiniteSet(S), NEW T \in SUBSET S, NEW g, NEW h,
         Sums(f, g, T), Sums(f, h, S)
  PROVE  \A s \in SUBSET T : g[s] = h[s]
  <1> DEFINE C == {s \in SUBSET T : g[s] # h[s]}
  <1> SUFFICES ASSUME C # {} PROVE FALSE
    OBVIOUS
  <1>1. PICK s \in C : \A r \in C : r \subseteq s => r = s
    <2>1. IsFiniteSet(T) /\ C \in SUBSET SUBSET T
      BY FS_Subset
    <2> HIDE DEF C
    <2>2. QED
      BY <2>1, SmallestSubset
  <1>2. g[s] = StepOf(f, g, s) /\ h[s] = StepOf(f, h, s)
    BY DEF Sums
  <1>3. CASE s = {}
    BY <1>2, <1>3 DEF StepOf
  <1>4. CASE s # {}
    <2> DEFINE r == s \ {Pick(s)}
    <2>1. r \in SUBSET T /\ r \subseteq s /\ r # s
      BY <1>4, PickIn
    <2>2. g[r] = h[r]
      BY <1>1, <2>1
    <2>3. QED
      BY <1>2, <1>4, <2>2 DEF StepOf
  <1>5. QED
    BY <1>3, <1>4

LEMMA SumsExist ==
  ASSUME NEW f, NEW S, IsFiniteSet(S)
  PROVE  \E g : Sums(f, g, S)
  <1> DEFINE C == {T \in SUBSET S : ~\E g : Sums(f, g, T)}
  <1>1. C = {}
    <2> SUFFICES ASSUME C # {} PROVE FALSE
      OBVIOUS
    <2>1. PICK T \in C : \A r \in C : r \subseteq T => r = T
      <3>1. C \in SUBSET SUBSET S
        OBVIOUS
      <3> HIDE DEF C
      <3>2. QED
        BY <3>1, SmallestSubset
    <2> DEFINE G(s) == CHOOSE g : Sums(f, g, s)
               v == [s \in SUBSET T |-> G(s)[s]]
               h == [s \in SUBSET T |-> StepOf(f, v, s)]
    <2>2. ASSUME NEW s \in SUBSET T, s # T PROVE Sums(f, G(s), s)
      BY <2>1, <2>2
    <2> HIDE DEF G
    <2>3. ASSUME NEW s \in SUBSET T, s # T PROVE v[s] = h[s]
      <3>1. v[s] = StepOf(f, G(s), s) /\ h[s] = StepOf(f, v, s)
        BY <2>2, <2>3 DEF Sums
      <3>2. CASE s = {}
        BY <3>1, <3>2 DEF StepOf
      <3>3. CASE s # {}
        <4> DEFINE r == s \ {Pick(s)}
        <4>1. r \in SUBSET s /\ r \in SUBSET T /\ r # T
          BY <3>3, PickIn
        <4>2. Sums(f, G(r), r) /\ Sums(f, G(s), s) /\ IsFiniteSet(s)
          BY <2>2, <2>3, <4>1, FS_Subset
        <4>3. G(r)[r] = G(s)[r]
          BY <4>1, <4>2, SumsUnique
        <4>4. v[r] = G(s)[r]
          BY <4>1, <4>3
        <4>5. QED
          BY <3>1, <3>3, <4>4 DEF StepOf
      <3>4. QED
        BY <3>2, <3>3
    <2> HIDE DEF v
    <2>4. ASSUME NEW s \in SUBSET T PROVE StepOf(f, v, s) = StepOf(f, h, s)
      <3>1. CASE s = {}
        BY <3>1 DEF StepOf
      <3>2. CASE s # {}
        <4>1. s \ {Pick(s)} \in SUBSET T /\ s \ {Pick(s)} # T
          BY <3>2, PickIn
        <4>2. QED
          BY <2>3, <3>2, <4>1 DEF StepOf
      <3>3. QED
        BY <3>1, <3>2
    <2>5. Sums(f, h, T)
      BY <2>4 DEF Sums
    <2>6. QED
      BY <2>1, <2>5
  <1>2. QED
    BY <1>1

(* What the fold is, step by step.                                         *)
LEMMA SumUnfolds ==
  ASSUME NEW f, NEW S, IsFiniteSet(S)
  PROVE  /\ S = {} => SumFunctionOnSet(f, S) = 0
         /\ S # {} => SumFunctionOnSet(f, S) = f[Pick(S)] + SumFunctionOnSet(f, S \ {Pick(S)})
  <1> DEFINE G(T) == CHOOSE g : Sums(f, g, T)
  <1>1. ASSUME NEW T, IsFiniteSet(T) PROVE Sums(f, G(T), T)
    BY <1>1, SumsExist
  <1>2. ASSUME NEW T PROVE SumFunctionOnSet(f, T) = G(T)[T]
    BY SumIsChosen
  <1> HIDE DEF G
  <1>3. G(S)[S] = StepOf(f, G(S), S)
    BY <1>1 DEF Sums
  <1>4. CASE S = {}
    BY <1>2, <1>3, <1>4 DEF StepOf
  <1>5. CASE S # {}
    <2> DEFINE r == S \ {Pick(S)}
    <2>1. IsFiniteSet(r) /\ r \in SUBSET S
      BY FS_Subset
    <2>2. G(S)[r] = G(r)[r]
      <3>1. Sums(f, G(r), r) /\ Sums(f, G(S), S)
        BY <1>1, <2>1
      <3> HIDE DEF r
      <3>2. \A s \in SUBSET r : G(r)[s] = G(S)[s]
        BY <2>1, <3>1, SumsUnique
      <3>3. QED
        BY <3>2
    <2>3. SumFunctionOnSet(f, r) = G(S)[r] /\ SumFunctionOnSet(f, S) = G(S)[S]
      BY <1>2, <2>2
    <2>4. G(S)[S] = f[Pick(S)] + G(S)[r]
      BY <1>3, <1>5 DEF StepOf
    <2> HIDE DEF r
    <2>5. SumFunctionOnSet(f, S) = f[Pick(S)] + SumFunctionOnSet(f, r)
      BY <2>3, <2>4
    <2>6. QED
      BY <1>5, <2>5, Zenon DEF r
  <1>6. QED
    BY <1>4, <1>5
-----------------------------------------------------------------------------
(* Induction over the subsets of a finite set, for a set G of them.        *)
LEMMA SubsetInduction ==
  ASSUME NEW S, IsFiniteSet(S), NEW G \in SUBSET SUBSET S, {} \in G,
         \A T \in SUBSET S : \A x \in T : T \ {x} \in G => T \in G
  PROVE  S \in G
  <1> DEFINE C == (SUBSET S) \ G
  <1> SUFFICES ASSUME C # {} PROVE FALSE
    OBVIOUS
  <1>1. PICK T \in C : \A r \in C : r \subseteq T => r = T
    <2>1. C \in SUBSET SUBSET S
      OBVIOUS
    <2> HIDE DEF C
    <2>2. QED
      BY <2>1, SmallestSubset
  <1>2. PICK x : x \in T
    <2>1. T # {}
      BY <1>1
    <2>2. QED
      BY <2>1
  <1>3. T \ {x} \in G
    BY <1>1, <1>2
  <1>4. QED
    BY <1>1, <1>2, <1>3

LEMMA SumEmpty ==
  ASSUME NEW f
  PROVE  SumFunctionOnSet(f, {}) = 0
  BY SumUnfolds, FS_EmptySet

LEMMA SumPick ==
  ASSUME NEW f, NEW S, IsFiniteSet(S), S # {}
  PROVE  SumFunctionOnSet(f, S) = f[Pick(S)] + SumFunctionOnSet(f, S \ {Pick(S)})
  BY SumUnfolds

LEMMA SumRemoves ==
  ASSUME NEW S, IsFiniteSet(S), NEW f, \A x \in S : f[x] \in Int
  PROVE  /\ SumFunctionOnSet(f, S) \in Int
         /\ \A x \in S : SumFunctionOnSet(f, S) = f[x] + SumFunctionOnSet(f, S \ {x})
  <1> DEFINE Good(T) ==
        /\ SumFunctionOnSet(f, T) \in Int
        /\ \A x \in T : SumFunctionOnSet(f, T) = f[x] + SumFunctionOnSet(f, T \ {x})
             C == {T \in SUBSET S : ~Good(T)}
  <1> SUFFICES ASSUME C # {} PROVE FALSE
    OBVIOUS
  <1>1. PICK T \in C : \A r \in C : r \subseteq T => r = T
    <2>1. C \in SUBSET SUBSET S
      OBVIOUS
    <2> HIDE DEF C
    <2>2. QED
      BY <2>1, SmallestSubset
  <1>2. T \in SUBSET S /\ ~Good(T) /\ \A r \in SUBSET T : r # T => Good(r)
    BY <1>1
  <1>3. T # {}
    <2>1. Good({})
      BY SumEmpty
    <2>2. QED
      BY <1>2, <2>1
  <1> DEFINE y == Pick(T)
  <1>4. y \in T /\ f[y] \in Int
    BY <1>2, <1>3, PickIn
  <1>5. SumFunctionOnSet(f, T) = f[y] + SumFunctionOnSet(f, T \ {y})
    BY <1>2, <1>3, SumPick, FS_Subset
  <1> HIDE DEF y
  <1>6. SumFunctionOnSet(f, T \ {y}) \in Int
    BY <1>2, <1>4
  <1>7. SumFunctionOnSet(f, T) \in Int
    BY <1>4, <1>5, <1>6
  <1>8. ASSUME NEW x \in T PROVE SumFunctionOnSet(f, T) = f[x] + SumFunctionOnSet(f, T \ {x})
    <2>1. CASE x = y
      BY <1>5, <2>1
    <2>2. CASE x # y
      <3>1. SumFunctionOnSet(f, T \ {y}) = f[x] + SumFunctionOnSet(f, (T \ {y}) \ {x})
        BY <1>2, <1>4, <2>2
      <3>2. SumFunctionOnSet(f, T \ {x}) = f[y] + SumFunctionOnSet(f, (T \ {x}) \ {y})
        BY <1>2, <1>4, <2>2
      <3>3. (T \ {x}) \ {y} = (T \ {y}) \ {x}
        OBVIOUS
      <3> DEFINE rest == SumFunctionOnSet(f, (T \ {y}) \ {x})
      <3>4. rest \in Int /\ f[x] \in Int
        <4>1. T \ {y} \in SUBSET T /\ T \ {y} # T /\ (T \ {y}) \ {x} \in SUBSET T /\ (T \ {y}) \ {x} # T
          BY <1>4
        <4>2. QED
          BY <1>2, <4>1
      <3>5. SumFunctionOnSet(f, T \ {x}) = f[y] + rest /\ SumFunctionOnSet(f, T \ {y}) = f[x] + rest
        BY <3>1, <3>2, <3>3
      <3> HIDE DEF rest
      <3>6. QED
        BY <1>4, <1>5, <3>4, <3>5
    <2>3. QED
      BY <2>1, <2>2
  <1>9. QED
    BY <1>2, <1>7, <1>8

(* Any element may be taken out first ...                                  *)
LEMMA SumRemove ==
  ASSUME NEW S, IsFiniteSet(S), NEW f, \A x \in S : f[x] \in Int, NEW x \in S
  PROVE  /\ SumFunctionOnSet(f, S) \in Int /\ SumFunctionOnSet(f, S \ {x}) \in Int
         /\ SumFunctionOnSet(f, S) = f[x] + SumFunctionOnSet(f, S \ {x})
  BY SumRemoves, FS_Subset

(* ... or put in.                                                          *)
LEMMA SumAdd ==
  ASSUME NEW S, IsFiniteSet(S), NEW x, x \notin S, NEW f, \A y \in S \cup {x} : f[y] \in Int
  PROVE  SumFunctionOnSet(f, S \cup {x}) = f[x] + SumFunctionOnSet(f, S)
  <1>1. IsFiniteSet(S \cup {x}) /\ (S \cup {x}) \ {x} = S
    BY FS_AddElement
  <1>2. QED
    BY <1>1, SumRemove

LEMMA SumSame ==
  ASSUME NEW S, IsFiniteSet(S), NEW f, NEW g,
         \A x \in S : f[x] \in Int, \A x \in S : g[x] = f[x]
  PROVE  SumFunctionOnSet(g, S) = SumFunctionOnSet(f, S)
  <1> DEFINE G == {T \in SUBSET S : SumFunctionOnSet(g, T) = SumFunctionOnSet(f, T)}
  <1>1. {} \in G
    BY SumEmpty
  <1>2. ASSUME NEW T \in SUBSET S, NEW x \in T, T \ {x} \in G PROVE T \in G
    <2>1. IsFiniteSet(T) /\ \A y \in T : f[y] \in Int /\ g[y] \in Int
      BY FS_Subset
    <2>2. /\ SumFunctionOnSet(g, T) = g[x] + SumFunctionOnSet(g, T \ {x})
          /\ SumFunctionOnSet(f, T) = f[x] + SumFunctionOnSet(f, T \ {x})
      BY <2>1, SumRemove
    <2>3. QED
      BY <1>2, <2>2
  <1> HIDE DEF G
  <1>3. S \in G
    <2>1. G \in SUBSET SUBSET S
      BY DEF G
    <2>2. QED
      BY <1>1, <1>2, <2>1, SubsetInduction
  <1>4. QED
    BY <1>3 DEF G

(* One term changes.                                                       *)
LEMMA SumChange ==
  ASSUME NEW S, IsFiniteSet(S), NEW f, NEW g, NEW x \in S,
         \A y \in S : f[y] \in Int /\ g[y] \in Int, \A y \in S : y # x => g[y] = f[y]
  PROVE  SumFunctionOnSet(g, S) = SumFunctionOnSet(f, S) + g[x] - f[x]
  <1>1. /\ SumFunctionOnSet(g, S) = g[x] + SumFunctionOnSet(g, S \ {x})
        /\ SumFunctionOnSet(f, S) = f[x] + SumFunctionOnSet(f, S \ {x})
        /\ SumFunctionOnSet(f, S \ {x}) \in Int
    BY SumRemove
  <1>2. SumFunctionOnSet(g, S \ {x}) = SumFunctionOnSet(f, S \ {x})
    BY SumSame, FS_Subset
  <1>3. QED
    BY <1>1, <1>2

(* Terms that are added one by one.                                        *)
LEMMA SumPlus ==
  ASSUME NEW S, IsFiniteSet(S), NEW f, NEW g, NEW h,
         \A x \in S : f[x] \in Int /\ g[x] \in Int /\ h[x] = f[x] + g[x]
  PROVE  SumFunctionOnSet(h, S) = SumFunctionOnSet(f, S) + SumFunctionOnSet(g, S)
  <1> DEFINE G == {T \in SUBSET S :
                     SumFunctionOnSet(h, T) = SumFunctionOnSet(f, T) + SumFunctionOnSet(g, T)}
  <1>1. {} \in G
    BY SumEmpty
  <1>2. ASSUME NEW T \in SUBSET S, NEW x \in T, T \ {x} \in G PROVE T \in G
    <2>1. IsFiniteSet(T) /\ \A y \in T : f[y] \in Int /\ g[y] \in Int /\ h[y] \in Int
      BY FS_Subset
    <2>2. /\ SumFunctionOnSet(h, T) = h[x] + SumFunctionOnSet(h, T \ {x})
          /\ SumFunctionOnSet(f, T) = f[x] + SumFunctionOnSet(f, T \ {x})
          /\ SumFunctionOnSet(f, T \ {x}) \in Int
          /\ SumFunctionOnSet(g, T) = g[x] + SumFunctionOnSet(g, T \ {x})
          /\ SumFunctionOnSet(g, T \ {x}) \in Int
      BY <2>1, SumRemove
    <2>3. QED
      BY <1>2, <2>2
  <1> HIDE DEF G
  <1>3. S \in G
    <2>1. G \in SUBSET SUBSET S
      BY DEF G
    <2>2. QED
      BY <1>1, <1>2, <2>1, SubsetInduction
  <1>4. QED
    BY <1>3 DEF G

LEMMA SumNat ==
  ASSUME NEW S, IsFiniteSet(S), NEW f, \A x \in S : f[x] \in Nat
  PROVE  SumFunctionOnSet(f, S) \in Nat
  <1> DEFINE G == {T \in SUBSET S : SumFunctionOnSet(f, T) \in Nat}
  <1>1. {} \in G
    BY SumEmpty
  <1>2. ASSUME NEW T \in SUBSET S, NEW x \in T, T \ {x} \in G PROVE T \in G
    <2>1. IsFiniteSet(T) /\ \A y \in T : f[y] \in Int
      BY FS_Subset
    <2>2. SumFunctionOnSet(f, T) = f[x] + SumFunctionOnSet(f, T \ {x})
      BY <2>1, SumRemove
    <2>3. QED
      BY <1>2, <2>2
  <1> HIDE DEF G
  <1>3. S \in G
    <2>1. G \in SUBSET SUBSET S
      BY DEF G
    <2>2. QED
      BY <1>1, <1>2, <2>1, SubsetInduction
  <1>4. QED
    BY <1>3 DEF G

LEMMA SumZero ==
  ASSUME NEW S, IsFiniteSet(S), NEW f, \A x \in S : f[x] = 0
  PROVE  SumFunctionOnSet(f, S) = 0
  <1>1. /\ SumFunctionOnSet(f, S) = SumFunctionOnSet(f, S) + SumFunctionOnSet(f, S)
        /\ SumFunctionOnSet(f, S) \in Nat
    <2>1. \A x \in S : f[x] \in Int /\ f[x] \in Nat /\ f[x] = f[x] + f[x]
      OBVIOUS
    <2>2. QED
      BY <2>1, SumPlus, SumNat
  <1>2. \A n \in Nat : n = n + n => n = 0
    OBVIOUS
  <1>3. QED
    BY <1>1, <1>2, Zenon

(* The sum of a function that changes at one point.                        *)
LEMMA SumExcept ==
  ASSUME NEW S, IsFiniteSet(S), NEW f \in [S -> Int], NEW x \in S, NEW v \in Int
  PROVE  /\ SumFunctionOnSet([f EXCEPT ![x] = v], S) = SumFunctionOnSet(f, S) + v - f[x]
         /\ SumFunctionOnSet(f, S) \in Int
  <1> DEFINE g == [f EXCEPT ![x] = v]
  <1>1. /\ \A y \in S : f[y] \in Int /\ g[y] \in Int
        /\ \A y \in S : y # x => g[y] = f[y]
        /\ g[x] = v
    OBVIOUS
  <1> HIDE DEF g
  <1>2. SumFunctionOnSet(f, S) \in Int
    BY <1>1, SumRemove
  <1>3. SumFunctionOnSet(g, S) = SumFunctionOnSet(f, S) + g[x] - f[x]
    BY <1>1, SumChange
  <1>4. QED
    BY <1>1, <1>2, <1>3 DEF g

(* No term exceeds a sum of natural numbers.                               *)
LEMMA SumCovers ==
  ASSUME NEW S, IsFiniteSet(S), NEW f, \A y \in S : f[y] \in Nat, NEW x \in S
  PROVE  f[x] <= SumFunctionOnSet(f, S)
  <1>1. IsFiniteSet(S \ {x}) /\ \A y \in S \ {x} : f[y] \in Nat
    BY FS_Subset
  <1>2. SumFunctionOnSet(f, S \ {x}) \in Nat
    BY <1>1, SumNat
  <1>3. SumFunctionOnSet(f, S) = f[x] + SumFunctionOnSet(f, S \ {x})
    BY SumRemove
  <1>4. QED
    BY <1>2, <1>3

(* Term by term no more, all in all no more.                               *)
LEMMA SumAtMost ==
  ASSUME NEW S, IsFiniteSet(S), NEW f, NEW g,
         \A x \in S : f[x] \in Int /\ g[x] \in Int, \A x \in S : f[x] <= g[x]
  PROVE  /\ SumFunctionOnSet(f, S) <= SumFunctionOnSet(g, S)
         /\ SumFunctionOnSet(f, S) \in Int /\ SumFunctionOnSet(g, S) \in Int
  <1> DEFINE h == [x \in S |-> g[x] - f[x]]
  <1>1. \A x \in S : f[x] \in Int /\ h[x] \in Nat /\ h[x] \in Int /\ g[x] = f[x] + h[x]
    OBVIOUS
  <1>2. \A x \in S : f[x] \in Int /\ h[x] \in Int /\ g[x] = f[x] + h[x]
    BY <1>1
  <1> HIDE DEF h
  <1>3. SumFunctionOnSet(g, S) = SumFunctionOnSet(f, S) + SumFunctionOnSet(h, S)
    BY <1>2, SumPlus
  <1>4. SumFunctionOnSet(h, S) \in Nat /\ SumFunctionOnSet(f, S) \in Int
    BY <1>1, SumNat, SumRemoves
  <1>5. QED
    BY <1>3, <1>4
=============================================================================
