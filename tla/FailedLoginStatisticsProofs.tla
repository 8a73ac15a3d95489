------------------------------ MODULE FailedLoginStatisticsProofs ------------------------------
(***************************************************************************)
(* Failed-login statistics: no interleaving of login handlers, the ticker, *)
(* failed writes and shutdown loses a counted failure, and only a commit   *)
(* that lands and reports an error counts a batch again (Conserved); when  *)
(* closeAndFlush has returned nothing is on its way back to memory         *)
(* (NothingLeftBehind); minutes only go back once the service is closed    *)
(* (OlderOnlyAfterClose); and TypeOK.                                      *)
(*                                                                         *)
(* Conserved alone is not inductive: a step that takes a batch may         *)
(* overwrite another.  That no batch is in hand then is HandsInv; that     *)
(* nobody puts one back behind closeAndFlush is CloseInv.  BoundInv bounds *)
(* the failures counted by those that still may be, for TypeOK.            *)
(*                                                                         *)
(* The first half are facts about the sums Conserved speaks of: the folds  *)
(* of the community modules are recursions through CHOOSE, whose solution  *)
(* is shown to exist, to be unique and to be independent of the order, by  *)
(* least counterexamples over the finite subsets of the domain.            *)
(***************************************************************************)
EXTENDS FailedLoginStatistics, FiniteSetTheorems, TLAPS

----------------------------------------------------------------------------
(* Sums over finite sets                                                   *)

\* A set of numbers has a least one.
LEMMA LeastElement ==
    ASSUME NEW S \in SUBSET Nat, S # {}
    PROVE  \E d \in S : \A e \in S : d <= e
  <1>1. IsWellFoundedOn(OpToRel(<, Nat), Nat)  BY NatLessThanWellFounded
  <1>2. PICK d \in S : \A e \in S : ~ (<<e, d>> \in OpToRel(<, Nat))
    BY <1>1, WFMin
  <1>3. \A e \in S : ~ (e < d)  BY <1>2 DEF OpToRel
  <1> QED  BY <1>3

\* A property of some subset of a finite set holds of one that no strict subset
\* of it shares.
LEMMA MinimalSubset ==
    ASSUME NEW S, IsFiniteSet(S), NEW C \in SUBSET (SUBSET S), C # {}
    PROVE  \E T \in C : \A x \in T : T \ {x} \notin C
  <1> DEFINE Sizes == {Cardinality(T) : T \in C}
  <1>1. \A T \in SUBSET S : IsFiniteSet(T) /\ Cardinality(T) \in Nat
    BY FS_Subset, FS_CardinalityType
  <1>2. Sizes \in SUBSET Nat /\ Sizes # {}  BY <1>1
  <1>3. PICK d \in Sizes : \A e \in Sizes : d <= e
    <2> HIDE DEF Sizes
    <2> QED  BY <1>2, LeastElement
  <1>4. PICK T \in C : d = Cardinality(T)  OBVIOUS
  <1>5. ASSUME NEW x \in T PROVE T \ {x} \notin C
    <2>1. Cardinality(T \ {x}) = Cardinality(T) - 1 /\ Cardinality(T) \in Nat
      BY <1>1, FS_RemoveElement
    <2>2. T \ {x} \in C => Cardinality(T \ {x}) \in Sizes  OBVIOUS
    <2> HIDE DEF Sizes
    <2> QED  BY <1>3, <1>4, <2>1, <2>2
  <1> QED  BY <1>4, <1>5

\* The element a fold takes first.
FirstOf(s) == CHOOSE x \in s : TRUE

\* The sum over s of f, if g has the sums over its subsets.
SumStep(f, g, s) == IF s = {} THEN 0 ELSE f[FirstOf(s)] + g[s \ {FirstOf(s)}]

\* g has the sums over all subsets of S.
IsSum(f, g, S) == g = [s \in SUBSET S |-> SumStep(f, g, s)]

\* Those sums exist: by the size of the subsets.
LEMMA RecursionHasSolution ==
    ASSUME NEW S, IsFiniteSet(S), NEW f
    PROVE  \E g : IsSum(f, g, S)
  <1> DEFINE Small(n) == {s \in SUBSET S : Cardinality(s) < n}
             Solves(g, n) == g = [s \in Small(n) |-> SumStep(f, g, s)]
             Unsolved == {n \in Nat : ~ \E g : Solves(g, n)}
  <1>1. \A s \in SUBSET S : /\ IsFiniteSet(s) /\ Cardinality(s) \in Nat /\ Cardinality(S) \in Nat
                            /\ Cardinality(s) <= Cardinality(S)
    BY FS_Subset, FS_CardinalityType
  <1>2. \A s \in SUBSET S : s # {} => FirstOf(s) \in s /\ Cardinality(s \ {FirstOf(s)}) = Cardinality(s) - 1
    <2> TAKE s \in SUBSET S
    <2> HAVE s # {}
    <2>1. FirstOf(s) \in s  BY DEF FirstOf
    <2> QED  BY <1>1, <2>1, FS_RemoveElement
  <1>3. Unsolved = {}
    <2> SUFFICES ASSUME Unsolved # {} PROVE FALSE  OBVIOUS
    <2>1. PICK n \in Unsolved : \A m \in Unsolved : n <= m
      <3> HIDE DEF Solves
      <3>1. Unsolved \in SUBSET Nat  OBVIOUS
      <3> HIDE DEF Unsolved
      <3> QED  BY <3>1, LeastElement
    <2>2. CASE n = 0
      <3>1. Small(n) = {}  BY <1>1, <2>2
      <3>2. Solves([s \in {} |-> 0], n)
        <4> HIDE DEF Small
        <4> QED  BY <3>1
      <3> HIDE DEF Solves
      <3> QED  BY <3>2
    <2>3. CASE n # 0
      <3>1. n - 1 \in Nat /\ n \in Nat /\ n - 1 \notin Unsolved
        <4> HIDE DEF Solves
        <4>1. n \in Nat  OBVIOUS
        <4> HIDE DEF Unsolved
        <4> QED  BY <4>1, <2>1, <2>3
      <3>2. PICK g : Solves(g, n - 1)
        <4> HIDE DEF Solves
        <4> QED  BY <3>1
      <3> DEFINE h == [s \in Small(n) |-> SumStep(f, g, s)]
      <3>3. ASSUME NEW s \in Small(n) PROVE SumStep(f, g, s) = SumStep(f, h, s)
        <4>1. CASE s = {}  BY <4>1 DEF SumStep
        <4>2. CASE s # {}
          <5> DEFINE r == s \ {FirstOf(s)}
          <5>1. r \in Small(n - 1) /\ r \in Small(n)  BY <1>1, <1>2, <3>1, <4>2
          <5>2. g[r] = SumStep(f, g, r)
            <6> HIDE DEF Small, r
            <6> QED  BY <3>2, <5>1
          <5>3. h[r] = SumStep(f, g, r)
            <6> HIDE DEF Small, r
            <6> QED  BY <5>1
          <5> HIDE DEF h
          <5> QED  BY <4>2, <5>2, <5>3 DEF SumStep
        <4> QED  BY <4>1, <4>2
      <3>4. Solves(h, n)
        <4> HIDE DEF Small
        <4>1. h = [s \in Small(n) |-> SumStep(f, g, s)]  OBVIOUS
        <4> HIDE DEF h
        <4> QED  BY <3>3, <4>1
      <3>5. n \in Unsolved  BY <2>1
      <3> HIDE DEF Solves
      <3> QED  BY <3>4, <3>5
    <2> QED  BY <2>2, <2>3
  <1>4. Cardinality(S) \in Nat /\ Cardinality(S) + 1 \notin Unsolved
    <2> HIDE DEF Unsolved
    <2> QED  BY <1>3, FS_CardinalityType
  <1>5. Small(Cardinality(S) + 1) = SUBSET S  BY <1>1, <1>4
  <1>6. PICK g : Solves(g, Cardinality(S) + 1)
    <2> HIDE DEF Solves
    <2> QED  BY <1>4
  <1> QED
    <2> HIDE DEF Small
    <2> QED  BY <1>5, <1>6 DEF IsSum

\* The fold of the community modules is such a sum.
LEMMA SumSolves ==
    ASSUME NEW S, IsFiniteSet(S), NEW f
    PROVE  \E g : IsSum(f, g, S) /\ SumFunctionOnSet(f, S) = g[S]
  <1> DEFINE iter == CHOOSE g : g = [s \in SUBSET S |-> SumStep(f, g, s)]
  <1>1. iter = [s \in SUBSET S |-> SumStep(f, iter, s)]
    BY RecursionHasSolution DEF IsSum
  <1>2. SumFunctionOnSet(f, S) = iter[S]
    BY DEF SumFunctionOnSet, FoldFunctionOnSet, MapThenFoldSet, SumStep, FirstOf
  <1> HIDE DEF iter
  <1> QED  BY <1>1, <1>2 DEF IsSum

\* Solutions for two functions agree wherever the functions do.
LEMMA SolutionsAgree ==
    ASSUME NEW S, IsFiniteSet(S), NEW R, NEW f, NEW e, NEW g, NEW h,
           IsSum(f, g, S), IsSum(e, h, R), NEW T, T \subseteq S, T \subseteq R,
           \A x \in T : f[x] = e[x]
    PROVE  g[T] = h[T]
  <1> DEFINE Differ == {s \in SUBSET T : g[s] # h[s]}
  <1> SUFFICES ASSUME Differ # {} PROVE FALSE
    OBVIOUS
  <1>1. IsFiniteSet(T)  BY FS_Subset
  <1>2. PICK s \in Differ : \A x \in s : s \ {x} \notin Differ
    <2>1. Differ \in SUBSET (SUBSET T)  OBVIOUS
    <2> HIDE DEF Differ
    <2> QED  BY <1>1, <2>1, MinimalSubset
  <1>3. s \subseteq T /\ s \in SUBSET S /\ s \in SUBSET R /\ g[s] # h[s]  OBVIOUS
  <1>4. g[s] = SumStep(f, g, s) /\ h[s] = SumStep(e, h, s)  BY <1>3 DEF IsSum
  <1>5. CASE s = {}  BY <1>3, <1>4, <1>5 DEF SumStep
  <1>6. CASE s # {}
    <2>1. FirstOf(s) \in s  BY <1>6 DEF FirstOf
    <2>2. g[s \ {FirstOf(s)}] = h[s \ {FirstOf(s)}]  BY <1>2, <1>3, <2>1
    <2>3. f[FirstOf(s)] = e[FirstOf(s)]  BY <1>3, <2>1
    <2> QED  BY <1>3, <1>4, <1>6, <2>2, <2>3 DEF SumStep
  <1> QED  BY <1>5, <1>6

\* A sum depends on the values it adds alone.
LEMMA SumCongruent ==
    ASSUME NEW S, IsFiniteSet(S), NEW f, NEW e, \A x \in S : f[x] = e[x]
    PROVE  SumFunctionOnSet(f, S) = SumFunctionOnSet(e, S)
  <1>1. PICK g : IsSum(f, g, S) /\ SumFunctionOnSet(f, S) = g[S]  BY SumSolves
  <1>2. PICK h : IsSum(e, h, S) /\ SumFunctionOnSet(e, S) = h[S]  BY SumSolves
  <1> QED  BY <1>1, <1>2, SolutionsAgree

\* One step of the fold.
LEMMA SumUnfolds ==
    ASSUME NEW S, IsFiniteSet(S), NEW f
    PROVE  SumFunctionOnSet(f, S) =
             IF S = {} THEN 0 ELSE f[FirstOf(S)] + SumFunctionOnSet(f, S \ {FirstOf(S)})
  <1> DEFINE R == S \ {FirstOf(S)}
  <1>1. IsFiniteSet(R)  BY FS_RemoveElement
  <1>2. PICK g : IsSum(f, g, S) /\ SumFunctionOnSet(f, S) = g[S]  BY SumSolves
  <1>3. PICK h : IsSum(f, h, R) /\ SumFunctionOnSet(f, R) = h[R]  BY <1>1, SumSolves
  <1>4. R \subseteq S  OBVIOUS
  <1>5. g[R] = h[R]
    <2> HIDE DEF R
    <2> QED  BY <1>1, <1>2, <1>3, <1>4, SolutionsAgree
  <1>6. g[S] = SumStep(f, g, S)  BY <1>2 DEF IsSum
  <1> QED  BY <1>2, <1>3, <1>5, <1>6 DEF SumStep

\* A sum of numbers is a number.
LEMMA SumType ==
    ASSUME NEW S, IsFiniteSet(S), NEW f, \A x \in S : f[x] \in Nat
    PROVE  SumFunctionOnSet(f, S) \in Nat
  <1> DEFINE Wrong == {s \in SUBSET S : SumFunctionOnSet(f, s) \notin Nat}
  <1> SUFFICES ASSUME Wrong # {} PROVE FALSE
    OBVIOUS
  <1>1. PICK s \in Wrong : \A x \in s : s \ {x} \notin Wrong
    <2>1. Wrong \in SUBSET (SUBSET S)  OBVIOUS
    <2> HIDE DEF Wrong
    <2> QED  BY <2>1, MinimalSubset
  <1>2. s \in SUBSET S /\ IsFiniteSet(s) /\ SumFunctionOnSet(f, s) \notin Nat  BY FS_Subset
  <1>3. s # {}
    <2> SUFFICES ASSUME s = {} PROVE FALSE  OBVIOUS
    <2>1. SumFunctionOnSet(f, s) = 0  BY <1>2, SumUnfolds
    <2> QED  BY <1>2, <2>1
  <1>4. FirstOf(s) \in s  BY <1>3 DEF FirstOf
  <1>5. SumFunctionOnSet(f, s \ {FirstOf(s)}) \in Nat  BY <1>1, <1>2, <1>4
  <1>6. SumFunctionOnSet(f, s) = f[FirstOf(s)] + SumFunctionOnSet(f, s \ {FirstOf(s)})
    BY <1>2, <1>3, SumUnfolds
  <1> QED  BY <1>2, <1>4, <1>5, <1>6

\* Arithmetic of SumTakesOut.
LEMMA Exchange ==
    ASSUME NEW a \in Nat, NEW b \in Nat, NEW c \in Nat, NEW u \in Nat, NEW v \in Nat,
           u = b + c, v = a + c
    PROVE  a + u = b + v
  OBVIOUS

\* Arithmetic of SumSplits.
LEMMA Shift ==
    ASSUME NEW a \in Nat, NEW u \in Nat, NEW v \in Nat, NEW p \in Nat, u + p = v
    PROVE  (a + u) + p = a + v
  OBVIOUS

\* Whichever element is taken out, the sum is its value and the rest.
LEMMA SumTakesOut ==
    ASSUME NEW S, IsFiniteSet(S), NEW f, \A x \in S : f[x] \in Nat, NEW a \in S
    PROVE  SumFunctionOnSet(f, S) = f[a] + SumFunctionOnSet(f, S \ {a})
  <1> DEFINE Total(s) == SumFunctionOnSet(f, s)
             Wrong == {s \in SUBSET S : \E x \in s : Total(s) # f[x] + Total(s \ {x})}
  <1> SUFFICES ASSUME Wrong # {} PROVE FALSE
    OBVIOUS
  <1>1. PICK s \in Wrong : \A x \in s : s \ {x} \notin Wrong
    <2>1. Wrong \in SUBSET (SUBSET S)  OBVIOUS
    <2> HIDE DEF Wrong
    <2> QED  BY <2>1, MinimalSubset
  <1>2. \A r \in SUBSET S : IsFiniteSet(r) /\ Total(r) \in Nat
    BY FS_Subset, SumType
  <1>3. PICK x \in s : Total(s) # f[x] + Total(s \ {x})  OBVIOUS
  <1> DEFINE y == FirstOf(s)
  <1>4. y \in s /\ s \in SUBSET S  BY DEF FirstOf
  <1>5. Total(s) = f[y] + Total(s \ {y})
    BY <1>2, <1>3, SumUnfolds
  <1>6. x # y  BY <1>3, <1>5
  <1>7. s \ {x} \notin Wrong /\ s \ {y} \notin Wrong  BY <1>1, <1>4
  <1> HIDE DEF y, Total
  <1>8. Total(s \ {x}) = f[y] + Total((s \ {x}) \ {y})  BY <1>4, <1>6, <1>7
  <1>9. Total(s \ {y}) = f[x] + Total((s \ {y}) \ {x})  BY <1>3, <1>4, <1>6, <1>7
  <1>10. (s \ {x}) \ {y} = (s \ {y}) \ {x}  OBVIOUS
  <1>11. /\ f[x] \in Nat /\ f[y] \in Nat /\ Total((s \ {x}) \ {y}) \in Nat
         /\ Total(s \ {x}) \in Nat /\ Total(s \ {y}) \in Nat
    BY <1>2, <1>3, <1>4
  <1>12. f[x] + Total(s \ {x}) = f[y] + Total(s \ {y})
    BY <1>8, <1>9, <1>10, <1>11, Exchange
  <1> QED  BY <1>3, <1>5, <1>12

\* One value is changed.
LEMMA SumUpdate ==
    ASSUME NEW S, IsFiniteSet(S), NEW f \in [S -> Nat], NEW a \in S, NEW e \in [S -> Nat],
           \A x \in S \ {a} : e[x] = f[x]
    PROVE  SumFunctionOnSet(e, S) + f[a] = SumFunctionOnSet(f, S) + e[a]
  <1>1. IsFiniteSet(S \ {a})  BY FS_RemoveElement
  <1>2. SumFunctionOnSet(e, S \ {a}) = SumFunctionOnSet(f, S \ {a})  BY <1>1, SumCongruent
  <1>3. SumFunctionOnSet(f, S) = f[a] + SumFunctionOnSet(f, S \ {a})  BY SumTakesOut
  <1>4. SumFunctionOnSet(e, S) = e[a] + SumFunctionOnSet(e, S \ {a})  BY SumTakesOut
  <1>5. SumFunctionOnSet(f, S \ {a}) \in Nat
    <2>1. \A x \in S \ {a} : f[x] \in Nat  OBVIOUS
    <2> QED  BY <1>1, <2>1, SumType
  <1> QED  BY <1>2, <1>3, <1>4, <1>5

\* No value exceeds the sum.
LEMMA SumBounds ==
    ASSUME NEW S, IsFiniteSet(S), NEW f \in [S -> Nat], NEW a \in S
    PROVE  f[a] <= SumFunctionOnSet(f, S)
  <1>1. IsFiniteSet(S \ {a})  BY FS_RemoveElement
  <1>2. SumFunctionOnSet(f, S) = f[a] + SumFunctionOnSet(f, S \ {a})  BY SumTakesOut
  <1>3. SumFunctionOnSet(f, S \ {a}) \in Nat
    <2>1. \A x \in S \ {a} : f[x] \in Nat  OBVIOUS
    <2> QED  BY <1>1, <2>1, SumType
  <1> QED  BY <1>2, <1>3

\* Nothing but zeros.
LEMMA SumZero ==
    ASSUME NEW S, IsFiniteSet(S), NEW f, \A x \in S : f[x] = 0
    PROVE  SumFunctionOnSet(f, S) = 0
  <1> DEFINE Wrong == {s \in SUBSET S : SumFunctionOnSet(f, s) # 0}
  <1> SUFFICES ASSUME Wrong # {} PROVE FALSE
    OBVIOUS
  <1>1. PICK s \in Wrong : \A x \in s : s \ {x} \notin Wrong
    <2>1. Wrong \in SUBSET (SUBSET S)  OBVIOUS
    <2> HIDE DEF Wrong
    <2> QED  BY <2>1, MinimalSubset
  <1>2. s \in SUBSET S /\ IsFiniteSet(s) /\ SumFunctionOnSet(f, s) # 0  BY FS_Subset
  <1>3. s # {}
    <2> SUFFICES ASSUME s = {} PROVE FALSE  OBVIOUS
    <2>1. SumFunctionOnSet(f, s) = 0  BY <1>2, SumUnfolds
    <2> QED  BY <1>2, <2>1
  <1>4. FirstOf(s) \in s  BY <1>3 DEF FirstOf
  <1>5. SumFunctionOnSet(f, s \ {FirstOf(s)}) = 0  BY <1>1, <1>2, <1>4
  <1>6. SumFunctionOnSet(f, s) = f[FirstOf(s)] + SumFunctionOnSet(f, s \ {FirstOf(s)})
    BY <1>2, <1>3, SumUnfolds
  <1> QED  BY <1>2, <1>4, <1>5, <1>6

\* What is set to zero in one sum is the other.
LEMMA SumSplits ==
    ASSUME NEW S, IsFiniteSet(S), NEW f \in [S -> Nat], NEW T \in SUBSET S,
           NEW e \in [S -> Nat], \A x \in S : e[x] = IF x \in T THEN 0 ELSE f[x]
    PROVE  SumFunctionOnSet(e, S) + SumFunctionOnSet(f, T) = SumFunctionOnSet(f, S)
  <1> DEFINE Wrong == {s \in SUBSET S :
                         SumFunctionOnSet(e, s) + SumFunctionOnSet(f, s \cap T) # SumFunctionOnSet(f, s)}
  <1>1. Wrong = {}
    <2> SUFFICES ASSUME Wrong # {} PROVE FALSE
      OBVIOUS
    <2>1. PICK s \in Wrong : \A x \in s : s \ {x} \notin Wrong
      <3>1. Wrong \in SUBSET (SUBSET S)  OBVIOUS
      <3> HIDE DEF Wrong
      <3> QED  BY <3>1, MinimalSubset
    <2>2. /\ s \in SUBSET S
          /\ SumFunctionOnSet(e, s) + SumFunctionOnSet(f, s \cap T) # SumFunctionOnSet(f, s)
      OBVIOUS
    <2>3. \A r \in SUBSET S : /\ IsFiniteSet(r) /\ SumFunctionOnSet(f, r) \in Nat
                              /\ SumFunctionOnSet(e, r) \in Nat
      <3> TAKE r \in SUBSET S
      <3>1. IsFiniteSet(r) /\ \A x \in r : f[x] \in Nat /\ e[x] \in Nat  BY FS_Subset
      <3> QED  BY <3>1, SumType
    <2>4. s # {}
      <3> SUFFICES ASSUME s = {} PROVE FALSE  OBVIOUS
      <3>1. s \cap T = s  OBVIOUS
      <3>2. SumFunctionOnSet(f, s) = 0 /\ SumFunctionOnSet(e, s) = 0  BY <2>3, SumUnfolds
      <3> QED  BY <2>2, <3>1, <3>2
    <2>5. PICK a : a \in s  BY <2>4
    <2> DEFINE r == s \ {a}
    <2>6. SumFunctionOnSet(e, r) + SumFunctionOnSet(f, r \cap T) = SumFunctionOnSet(f, r)
      BY <2>1, <2>2, <2>5
    <2>7. /\ SumFunctionOnSet(e, s) = e[a] + SumFunctionOnSet(e, r)
          /\ SumFunctionOnSet(f, s) = f[a] + SumFunctionOnSet(f, r)
      <3>1. \A x \in s : f[x] \in Nat /\ e[x] \in Nat  BY <2>2
      <3> QED  BY <2>3, <2>5, <3>1, SumTakesOut
    <2>8. /\ SumFunctionOnSet(e, r) \in Nat /\ SumFunctionOnSet(f, r) \in Nat
          /\ SumFunctionOnSet(f, r \cap T) \in Nat /\ f[a] \in Nat
      BY <2>2, <2>3, <2>5
    <2>9. CASE a \in T
      <3>1. (s \cap T) \ {a} = r \cap T  OBVIOUS
      <3>2. SumFunctionOnSet(f, s \cap T) = f[a] + SumFunctionOnSet(f, r \cap T)
        <4>1. s \cap T \in SUBSET S /\ a \in s \cap T /\ \A x \in s \cap T : f[x] \in Nat  BY <2>5, <2>9
        <4> QED  BY <2>3, <3>1, <4>1, SumTakesOut
      <3>3. e[a] = 0  BY <2>2, <2>5, <2>9
      <3> QED  BY <2>2, <2>6, <2>7, <2>8, <3>2, <3>3
    <2>10. CASE a \notin T
      <3>1. s \cap T = r \cap T  BY <2>10
      <3>2. e[a] = f[a]  BY <2>2, <2>5, <2>10
      <3> HIDE DEF r
      <3>3. (f[a] + SumFunctionOnSet(e, r)) + SumFunctionOnSet(f, r \cap T) = f[a] + SumFunctionOnSet(f, r)
        BY <2>6, <2>8, Shift
      <3> QED  BY <2>2, <2>7, <3>1, <3>2, <3>3
    <2> QED  BY <2>9, <2>10
  <1>2. S \cap T = T  OBVIOUS
  <1>3. S \notin Wrong
    <2> HIDE DEF Wrong
    <2> QED  BY <1>1
  <1> QED  BY <1>2, <1>3

----------------------------------------------------------------------------
(* Failed-login statistics: the invariant                                  *)

\* What a goroutine may have in hand.
Batch == [minute : 0..MaxMinute, count : Nat]

Process ==
    [pc : {"idle", "login", "read", "active", "flushing", "requeueing", "leaving", "late"},
     minute : 0..MaxMinute, batch : Batch]

\* Types, apart from the exact bounds of TypeOK; those of the Booleans are apart
\* because provers of arithmetic take them badly.
ScalarType ==
    /\ now \in Minute /\ minute \in 0..MaxMinute /\ counts \in Nat
    /\ recorded \in Nat /\ repeated \in 0..MaxRepeats /\ dropped \in Nat
    /\ newest \in 0..MaxMinute /\ last \in 0..MaxMinute

ProcessType ==
    /\ handler \in [Handler -> Process]
    /\ ticker \in [pc : {"waiting", "flushing", "last", "done"}, batch : Batch]
    /\ closer \in [pc : {"none", "started", "waiting", "stopping", "flushing", "returned"}, batch : Batch]

FlagType == closed \in BOOLEAN /\ stop \in BOOLEAN /\ main \in {"serving", "stopping", "exited", "timed out"}

StatisticsType == ScalarType /\ FlagType /\ ProcessType /\ bucket \in [0..MaxMinute -> Nat]

\* A batch is in hand exactly while it is being written or put back, and whoever
\* may put one back has counted in a minute.
HandsInv ==
    /\ \A h \in Handler :
         /\ handler[h].pc \in {"flushing", "requeueing"} => handler[h].batch.count > 0
         /\ handler[h].pc = "late" => handler[h].batch.count = 1
         /\ handler[h].pc \notin {"flushing", "requeueing", "late"} => handler[h].batch = None
         /\ handler[h].pc \in {"read", "active"} => handler[h].minute > 0
         /\ handler[h].pc \in {"flushing", "requeueing"} => minute > 0
    /\ ticker.pc \in {"waiting", "done"} => ticker.batch = None
    /\ closer.pc # "flushing" => closer.batch = None
    /\ counts > 0 \/ ticker.batch.count > 0 => minute > 0

\* How far closeAndFlush has got says what has stopped.
CloseInv ==
    /\ main = "serving" => closer.pc = "none"
    /\ closed <=> closer.pc \in {"waiting", "stopping", "flushing", "returned"}
    /\ stop <=> closer.pc \in {"stopping", "flushing", "returned"}
    /\ stop => Active = {}
    /\ closer.pc \in {"flushing", "returned"} => ticker.pc = "done" /\ counts = 0

\* Until then the last minute counted in is the newest, and that of the counts.
MinuteInv == ~closed => minute = newest /\ last = newest

\* Handlers that have read the clock for a failure not yet counted.
Counting == {h \in Handler : handler[h].pc \in {"read", "active"}}

\* The clock is read for no more failures than are counted.
BoundInv == recorded + Cardinality(Counting) <= MaxFailures

\* The inductive invariant.
StatisticsInv == StatisticsType /\ HandsInv /\ CloseInv /\ MinuteInv /\ BoundInv /\ Conserved

\* The sums of Conserved.
InHands   == SumFunction([h \in Handler |-> handler[h].batch.count])
InBuckets == SumFunction(bucket)

\* What the assumption says of the bounds.
LEMMA Numbers ==
    MaxFailures \in Nat /\ MaxRepeats \in Nat /\ MaxMinute \in Nat \ {0} /\ Retention \in Nat
  BY FailedLoginStatisticsAssumption DEF FailedLoginStatisticsAssumption

\* Both sums are finite.
LEMMA FiniteSums == IsFiniteSet(Handler) /\ IsFiniteSet(0..MaxMinute)
  BY FailedLoginStatisticsAssumption, Numbers, FS_Interval DEF FailedLoginStatisticsAssumption

\* Where the counted failures are, and those that were written again.
Balance == counts + closer.batch.count + ticker.batch.count + InHands + InBuckets + dropped

\* Conserved is that balance, before and after a step.
LEMMA ConservedMeans ==
    (Conserved <=> recorded + repeated = Balance) /\ (Conserved' <=> recorded' + repeated' = Balance')
  BY DEF Conserved, Held, InHands, InBuckets, Balance

\* The sums over handlers and buckets are numbers ...
LEMMA SumsAreNumbers == StatisticsType => InHands \in Nat /\ InBuckets \in Nat
  <1> SUFFICES ASSUME StatisticsType PROVE InHands \in Nat /\ InBuckets \in Nat
    OBVIOUS
  <1>1. [h \in Handler |-> handler[h].batch.count] \in [Handler -> Nat]
    BY DEF StatisticsType, ProcessType, Process, Batch
  <1>2. bucket \in [0..MaxMinute -> Nat]  BY DEF StatisticsType
  <1> QED  BY <1>1, <1>2, SumType, FiniteSums DEF InHands, InBuckets, SumFunction

\* Only one handler's batch changes.
LEMMA OneHand ==
    ASSUME StatisticsType, StatisticsType', NEW h \in Handler,
           \A g \in Handler \ {h} : handler'[g].batch = handler[g].batch
    PROVE  InHands' + handler[h].batch.count = InHands + handler'[h].batch.count
  <1> DEFINE f == [g \in Handler |-> handler[g].batch.count]
             e == [g \in Handler |-> handler'[g].batch.count]
  <1>1. f \in [Handler -> Nat] /\ e \in [Handler -> Nat]
    BY DEF StatisticsType, ProcessType, Process, Batch
  <1>2. \A g \in Handler \ {h} : e[g] = f[g]  OBVIOUS
  <1>3. DOMAIN f = Handler /\ DOMAIN e = Handler  OBVIOUS
  <1>4. InHands = SumFunctionOnSet(f, Handler) /\ InHands' = SumFunctionOnSet(e, Handler)
    BY <1>3 DEF InHands, SumFunction
  <1>5. f[h] = handler[h].batch.count /\ e[h] = handler'[h].batch.count  OBVIOUS
  <1> HIDE DEF f, e
  <1>6. SumFunctionOnSet(e, Handler) + f[h] = SumFunctionOnSet(f, Handler) + e[h]
    BY <1>1, <1>2, FiniteSums, SumUpdate
  <1> QED  BY <1>4, <1>5, <1>6

\* No handler's batch changes.
LEMMA SameHands ==
    ASSUME \A g \in Handler : handler'[g].batch = handler[g].batch
    PROVE  InHands' = InHands
  <1>1. [g \in Handler |-> handler'[g].batch.count] = [g \in Handler |-> handler[g].batch.count]  OBVIOUS
  <1> QED  BY <1>1 DEF InHands

\* Arithmetic of PersistFacts: what a transaction adds is in a bucket or pruned.
LEMMA Transfer ==
    ASSUME NEW all \in Nat, NEW before \in Nat, NEW after \in Nat, NEW pruned \in Nat,
           NEW value \in Nat, NEW n \in Nat, NEW given \in Nat,
           all + value = before + (value + n), after + pruned = all
    PROVE  after + (given + pruned) = before + given + n
  OBVIOUS

\* A transaction moves its batch to the buckets, and what is old out of them.
LEMMA PersistFacts ==
    ASSUME StatisticsType, NEW b \in Batch, NEW at, Persist(b, at)
    PROVE  /\ bucket' \in [0..MaxMinute -> Nat] /\ dropped' \in Nat
           /\ InBuckets' + dropped' = InBuckets + dropped + b.count
  <1> DEFINE filled == [bucket EXCEPT ![b.minute] = @ + b.count]
             old == {m \in 0..MaxMinute : Old(m, at)}
  <1>1. /\ bucket \in [0..MaxMinute -> Nat] /\ b.minute \in 0..MaxMinute
        /\ b.count \in Nat /\ dropped \in Nat
    BY DEF StatisticsType, ScalarType, Batch
  <1>2. filled \in [0..MaxMinute -> Nat]  BY <1>1
  <1>3. bucket' = [m \in 0..MaxMinute |-> IF Old(m, at) THEN 0 ELSE filled[m]]  BY DEF Persist
  <1>4. dropped' = dropped + SumFunctionOnSet(filled, old)  BY DEF Persist
  <1>5. /\ filled[b.minute] = bucket[b.minute] + b.count
        /\ \A m \in (0..MaxMinute) \ {b.minute} : filled[m] = bucket[m]
    BY <1>1
  <1>6. old \in SUBSET (0..MaxMinute) /\ IsFiniteSet(old)  BY FiniteSums, FS_Subset
  <1>7. \A m \in 0..MaxMinute : m \in old <=> Old(m, at)  OBVIOUS
  <1> HIDE DEF filled, old
  <1>8. bucket' \in [0..MaxMinute -> Nat]  BY <1>2, <1>3
  <1>9. SumFunctionOnSet(filled, old) \in Nat
    <2>1. \A m \in old : filled[m] \in Nat  BY <1>2, <1>6
    <2> QED  BY <1>6, <2>1, SumType
  <1>10. SumFunctionOnSet(filled, 0..MaxMinute) + bucket[b.minute] = SumFunctionOnSet(bucket, 0..MaxMinute) + filled[b.minute]
    <2>1. PICK k \in 0..MaxMinute : k = b.minute  BY <1>1
    <2>2. \A m \in (0..MaxMinute) \ {k} : filled[m] = bucket[m]  BY <1>5, <2>1
    <2>3. SumFunctionOnSet(filled, 0..MaxMinute) + bucket[k] = SumFunctionOnSet(bucket, 0..MaxMinute) + filled[k]
      BY <1>1, <1>2, <2>2, FiniteSums, SumUpdate
    <2> QED  BY <2>1, <2>3
  <1>11. PICK c : c = bucket'  OBVIOUS
  <1>12. c \in [0..MaxMinute -> Nat] /\ \A m \in 0..MaxMinute : c[m] = IF m \in old THEN 0 ELSE filled[m]
    BY <1>3, <1>7, <1>8, <1>11
  <1>13. SumFunctionOnSet(c, 0..MaxMinute) + SumFunctionOnSet(filled, old) = SumFunctionOnSet(filled, 0..MaxMinute)
    BY <1>2, <1>6, <1>12, FiniteSums, SumSplits
  <1>14. /\ InBuckets = SumFunctionOnSet(bucket, 0..MaxMinute)
         /\ InBuckets' = SumFunctionOnSet(c, 0..MaxMinute)
    BY <1>1, <1>8, <1>11 DEF InBuckets, SumFunction
  <1>15. InBuckets \in Nat  BY SumsAreNumbers
  <1>16. SumFunctionOnSet(c, 0..MaxMinute) \in Nat
    BY <1>12, FiniteSums, SumType
  <1>17. SumFunctionOnSet(filled, 0..MaxMinute) \in Nat
    BY <1>2, FiniteSums, SumType
  <1>18. bucket[b.minute] \in Nat  BY <1>1
  <1>19. dropped' \in Nat  BY <1>1, <1>4, <1>9
  <1>20. InBuckets' + dropped' = InBuckets + dropped + b.count
    <2>1. SumFunctionOnSet(filled, 0..MaxMinute) + bucket[b.minute] = InBuckets + (bucket[b.minute] + b.count)
      BY <1>5, <1>10, <1>14
    <2>2. PICK all \in Nat, before \in Nat, after \in Nat, pruned \in Nat, value \in Nat, n \in Nat, given \in Nat :
              /\ all = SumFunctionOnSet(filled, 0..MaxMinute) /\ before = InBuckets
              /\ after = SumFunctionOnSet(c, 0..MaxMinute) /\ pruned = SumFunctionOnSet(filled, old)
              /\ value = bucket[b.minute] /\ n = b.count /\ given = dropped
      BY <1>1, <1>9, <1>15, <1>16, <1>17, <1>18
    <2>3. all + value = before + (value + n) /\ after + pruned = all  BY <1>13, <2>1, <2>2
    <2>4. after + (given + pruned) = before + given + n  BY <2>3, Transfer
    <2>5. SumFunctionOnSet(c, 0..MaxMinute) + (dropped + SumFunctionOnSet(filled, old)) = InBuckets + dropped + b.count
      BY <2>2, <2>4
    <2> QED  BY <1>4, <1>14, <2>5
  <1> QED  BY <1>8, <1>19, <1>20

----------------------------------------------------------------------------
(* Failed-login statistics: the invariant holds                            *)

\* A new service has counted nothing.
LEMMA StatisticsInit == Init => StatisticsInv
  <1> SUFFICES ASSUME Init PROVE StatisticsInv
    OBVIOUS
  <1> USE Numbers
  <1>1. StatisticsType
    <2>1. None \in Batch  BY DEF None, Batch
    <2>2. ProcessType
      <3>1. handler \in [Handler -> Process]  BY <2>1 DEF Init, Process
      <3>2. ticker \in [pc : {"waiting", "flushing", "last", "done"}, batch : Batch]  BY <2>1 DEF Init
      <3>3. closer \in [pc : {"none", "started", "waiting", "stopping", "flushing", "returned"}, batch : Batch]
        BY <2>1 DEF Init
      <3> QED  BY <3>1, <3>2, <3>3 DEF ProcessType
    <2>3. ScalarType  BY DEF Init, ScalarType, Minute
    <2>5. FlagType  BY DEF Init, FlagType
    <2>4. bucket \in [0..MaxMinute -> Nat]  BY DEF Init
    <2> QED  BY <2>2, <2>3, <2>4, <2>5 DEF StatisticsType
  <1>2. HandsInv  BY DEF Init, HandsInv, None
  <1>3. CloseInv  BY DEF Init, CloseInv
  <1>4. MinuteInv  BY DEF Init, MinuteInv
  <1>5. BoundInv
    <2>1. Counting = {}  BY DEF Init, Counting
    <2> QED  BY <2>1, FS_EmptySet DEF Init, BoundInv
  <1>6. Conserved
    <2>1. InHands = 0
      <3> DEFINE f == [h \in Handler |-> handler[h].batch.count]
      <3>1. DOMAIN f = Handler /\ \A h \in Handler : f[h] = 0  BY DEF Init, None
      <3>2. InHands = SumFunctionOnSet(f, Handler)  BY <3>1 DEF InHands, SumFunction
      <3> HIDE DEF f
      <3> QED  BY <3>1, <3>2, SumZero, FiniteSums
    <2>2. InBuckets = 0
      <3>1. DOMAIN bucket = 0..MaxMinute /\ \A m \in 0..MaxMinute : bucket[m] = 0  BY DEF Init
      <3> QED  BY <3>1, SumZero, FiniteSums DEF InBuckets, SumFunction
    <2> QED  BY <2>1, <2>2, ConservedMeans DEF Init, None, Balance
  <1> QED  BY <1>1, <1>2, <1>3, <1>4, <1>5, <1>6 DEF StatisticsInv

\* Whatever batch is in a process, or is about to be, is one.
LEMMA BatchTypes ==
    ASSUME StatisticsType
    PROVE  /\ None \in Batch /\ [minute |-> minute, count |-> counts] \in Batch
           /\ \A h \in Handler : handler[h] \in Process /\ handler[h].batch \in Batch
                /\ handler[h].minute \in 0..MaxMinute
                /\ [minute |-> handler[h].minute, count |-> 1] \in Batch
           /\ ticker.batch \in Batch /\ closer.batch \in Batch
           /\ now \in 0..MaxMinute
  <1>1. /\ None \in Batch /\ [minute |-> minute, count |-> counts] \in Batch
        /\ now \in 0..MaxMinute
    BY Numbers DEF StatisticsType, ScalarType, Batch, None, Minute
  <1>2. ticker.batch \in Batch /\ closer.batch \in Batch  BY DEF StatisticsType, ProcessType
  <1>3. ASSUME NEW h \in Handler
        PROVE  /\ handler[h] \in Process /\ handler[h].batch \in Batch
               /\ handler[h].minute \in 0..MaxMinute
               /\ [minute |-> handler[h].minute, count |-> 1] \in Batch
    <2>1. handler[h] \in Process  BY DEF StatisticsType, ProcessType
    <2>2. handler[h].batch \in Batch /\ handler[h].minute \in 0..MaxMinute  BY <2>1 DEF Process
    <2> QED  BY <2>1, <2>2 DEF Batch
  <1> QED  BY <1>1, <1>2, <1>3

\* The steps keep the types of the processes ...
LEMMA ProcessTypeStep ==
    ASSUME StatisticsType, [Next]_vars
    PROVE  ProcessType'
  <1>1. ASSUME NEW h \in Handler, StartLogin(h) PROVE ProcessType'
    BY <1>1, BatchTypes DEF StartLogin, StatisticsType, ProcessType, Process, Goto, memory, life, count
  <1>2. ASSUME NEW h \in Handler, Succeed(h) PROVE ProcessType'
    BY <1>2, BatchTypes DEF Succeed, StatisticsType, ProcessType, Process, Goto, memory, life, count
  <1>3. ASSUME NEW h \in Handler, ReadClock(h) PROVE ProcessType'
    BY <1>3, BatchTypes DEF ReadClock, StatisticsType, ProcessType, Process, Become, memory, life, count
  <1>4. ASSUME NEW h \in Handler, Enter(h) PROVE ProcessType'
    BY <1>4, BatchTypes DEF Enter, StatisticsType, ProcessType, Process, Goto, memory, life, count
  <1>5. ASSUME NEW h \in Handler, Late(h) PROVE ProcessType'
    BY <1>5, BatchTypes DEF Late, StatisticsType, ProcessType, Process, Become, memory, life, count
  <1>6. ASSUME NEW h \in Handler, Count(h) PROVE ProcessType'
    <2>1. MinuteOf(handler[h].minute) \in 0..MaxMinute
      BY BatchTypes DEF MinuteOf, StatisticsType, ScalarType
    <2>2. PICK pc \in {"flushing", "leaving"}, b \in Batch : Become(h, pc, MinuteOf(handler[h].minute), b)
      BY <1>6, BatchTypes DEF Count
    <2>3. handler' \in [Handler -> Process]
      BY <2>1, <2>2 DEF Become, StatisticsType, ProcessType, Process
    <2> QED  BY <1>6, <2>3 DEF Count, StatisticsType, ProcessType
  <1>7. ASSUME NEW h \in Handler, Flush(h) PROVE ProcessType'
    BY <1>7, BatchTypes DEF Flush, StatisticsType, ProcessType, Process, Become, memory, life, count
  <1>8. ASSUME NEW h \in Handler, NEW w \in BOOLEAN, FlushFails(h, w) PROVE ProcessType'
    BY <1>8, BatchTypes DEF FlushFails, StatisticsType, ProcessType, Process, Goto, memory, life, count
  <1>9. ASSUME NEW h \in Handler, Requeue(h) PROVE ProcessType'
    BY <1>9, BatchTypes DEF Requeue, StatisticsType, ProcessType, Process, Become, life, count
  <1>10. ASSUME NEW h \in Handler, Leave(h) PROVE ProcessType'
    BY <1>10, BatchTypes DEF Leave, StatisticsType, ProcessType, Process, Goto, memory, life, count
  <1>11. ASSUME NEW h \in Handler, NEW w \in BOOLEAN, LateFlush(h, w) PROVE ProcessType'
    BY <1>11, BatchTypes DEF LateFlush, StatisticsType, ProcessType, Process, Become, memory, life, count
  <1>12. ASSUME Tick PROVE ProcessType'
    BY <1>12, BatchTypes DEF Tick, StatisticsType, ProcessType, Process, life, count
  <1>13. ASSUME TickFlush PROVE ProcessType'
    BY <1>13, BatchTypes DEF TickFlush, StatisticsType, ProcessType, Process, memory, life, count
  <1>14. ASSUME NEW w \in BOOLEAN, TickFails(w) PROVE ProcessType'
    BY <1>14, BatchTypes DEF TickFails, StatisticsType, ProcessType, Process, life, count
  <1>15. ASSUME SetClosed PROVE ProcessType'
    BY <1>15, BatchTypes DEF SetClosed, StatisticsType, ProcessType, Process, memory, count
  <1>16. ASSUME CloseStop PROVE ProcessType'
    BY <1>16, BatchTypes DEF CloseStop, StatisticsType, ProcessType, Process, memory, count
  <1>17. ASSUME TakeRest PROVE ProcessType'
    BY <1>17, BatchTypes DEF TakeRest, StatisticsType, ProcessType, Process, life, count
  <1>18. ASSUME NEW w \in BOOLEAN, FinalFlush(w) PROVE ProcessType'
    BY <1>18, BatchTypes DEF FinalFlush, StatisticsType, ProcessType, Process, memory, life, count
  <1>19. ASSUME Shutdown PROVE ProcessType'
    BY <1>19, BatchTypes DEF Shutdown, StatisticsType, ProcessType, Process, memory, count
  <1>20. ASSUME Exit PROVE ProcessType'
    BY <1>20, BatchTypes DEF Exit, StatisticsType, ProcessType, Process, memory, count
  <1>21. ASSUME NEW m \in Minute, SetClock(m) PROVE ProcessType'
    BY <1>21, BatchTypes DEF SetClock, StatisticsType, ProcessType, Process, memory, life, count
  <1>22. CASE UNCHANGED vars
    BY <1>22, BatchTypes DEF vars, memory, life, count, StatisticsType, ProcessType, Process
  <1> QED
    BY <1>1, <1>2, <1>3, <1>4, <1>5, <1>6, <1>7, <1>8, <1>9, <1>10, <1>11, <1>12, <1>13, <1>14, <1>15,
       <1>16, <1>17, <1>18, <1>19, <1>20, <1>21, <1>22 DEF Next, Record, Run, closeAndFlush

\* ... of the flags ...
LEMMA FlagTypeStep ==
    ASSUME StatisticsType, [Next]_vars
    PROVE  FlagType'
  <1>1. ASSUME NEW h \in Handler, StartLogin(h) PROVE FlagType'
    BY <1>1 DEF StartLogin, StatisticsType, FlagType, memory, life, count
  <1>2. ASSUME NEW h \in Handler, Succeed(h) PROVE FlagType'
    BY <1>2 DEF Succeed, StatisticsType, FlagType, memory, life, count
  <1>3. ASSUME NEW h \in Handler, ReadClock(h) PROVE FlagType'
    BY <1>3 DEF ReadClock, StatisticsType, FlagType, memory, life, count
  <1>4. ASSUME NEW h \in Handler, Enter(h) PROVE FlagType'
    BY <1>4 DEF Enter, StatisticsType, FlagType, memory, life, count
  <1>5. ASSUME NEW h \in Handler, Late(h) PROVE FlagType'
    BY <1>5 DEF Late, StatisticsType, FlagType, memory, life, count
  <1>6. ASSUME NEW h \in Handler, Count(h) PROVE FlagType'
    BY <1>6 DEF Count, StatisticsType, FlagType, life, count
  <1>7. ASSUME NEW h \in Handler, Flush(h) PROVE FlagType'
    BY <1>7 DEF Flush, StatisticsType, FlagType, memory, life, count
  <1>8. ASSUME NEW h \in Handler, NEW w \in BOOLEAN, FlushFails(h, w) PROVE FlagType'
    BY <1>8 DEF FlushFails, StatisticsType, FlagType, memory, life, count
  <1>9. ASSUME NEW h \in Handler, Requeue(h) PROVE FlagType'
    BY <1>9 DEF Requeue, StatisticsType, FlagType, life, count
  <1>10. ASSUME NEW h \in Handler, Leave(h) PROVE FlagType'
    BY <1>10 DEF Leave, StatisticsType, FlagType, memory, life, count
  <1>11. ASSUME NEW h \in Handler, NEW w \in BOOLEAN, LateFlush(h, w) PROVE FlagType'
    BY <1>11 DEF LateFlush, StatisticsType, FlagType, memory, life, count
  <1>12. ASSUME Tick PROVE FlagType'
    BY <1>12 DEF Tick, StatisticsType, FlagType, life, count, Swap
  <1>13. ASSUME TickFlush PROVE FlagType'
    BY <1>13 DEF TickFlush, StatisticsType, FlagType, memory, life, count
  <1>14. ASSUME NEW w \in BOOLEAN, TickFails(w) PROVE FlagType'
    BY <1>14 DEF TickFails, StatisticsType, FlagType, life, count
  <1>15. ASSUME SetClosed PROVE FlagType'
    BY <1>15 DEF SetClosed, StatisticsType, FlagType, memory, count
  <1>16. ASSUME CloseStop PROVE FlagType'
    BY <1>16 DEF CloseStop, StatisticsType, FlagType, memory, count
  <1>17. ASSUME TakeRest PROVE FlagType'
    BY <1>17 DEF TakeRest, StatisticsType, FlagType, life, count, Swap
  <1>18. ASSUME NEW w \in BOOLEAN, FinalFlush(w) PROVE FlagType'
    BY <1>18 DEF FinalFlush, StatisticsType, FlagType, memory, life, count
  <1>19. ASSUME Shutdown PROVE FlagType'
    BY <1>19 DEF Shutdown, StatisticsType, FlagType, memory, count
  <1>20. ASSUME Exit PROVE FlagType'
    BY <1>20 DEF Exit, StatisticsType, FlagType, memory, count
  <1>21. ASSUME NEW m \in Minute, SetClock(m) PROVE FlagType'
    BY <1>21 DEF SetClock, StatisticsType, FlagType, memory, life, count
  <1>22. CASE UNCHANGED vars
    BY <1>22 DEF vars, memory, life, count, StatisticsType, FlagType
  <1> QED
    BY <1>1, <1>2, <1>3, <1>4, <1>5, <1>6, <1>7, <1>8, <1>9, <1>10, <1>11, <1>12, <1>13, <1>14, <1>15,
       <1>16, <1>17, <1>18, <1>19, <1>20, <1>21, <1>22 DEF Next, Record, Run, closeAndFlush

\* A batch has reached the buckets, or was given up.
Settled(n) ==
    /\ bucket' \in [0..MaxMinute -> Nat] /\ dropped' \in Nat
    /\ InBuckets' + dropped' = InBuckets + dropped + n

\* A batch whose last attempt failed.
LEMMA GivenUp ==
    ASSUME StatisticsType, NEW n \in Nat, dropped' = dropped + n, UNCHANGED bucket
    PROVE  Settled(n)
  <1>1. dropped \in Nat /\ bucket \in [0..MaxMinute -> Nat] /\ InBuckets \in Nat
    BY SumsAreNumbers DEF StatisticsType, ScalarType
  <1>2. InBuckets' = InBuckets  BY DEF InBuckets
  <1> QED  BY <1>1, <1>2 DEF Settled

\* A handler's flush settles the batch it took.
LEMMA FlushSettles ==
    ASSUME StatisticsType, NEW h \in Handler, Flush(h)
    PROVE  Settled(handler[h].batch.count)
  <1>1. PICK b \in Batch : b = handler[h].batch  BY BatchTypes
  <1>2. Persist(b, handler[h].minute)  BY <1>1 DEF Flush
  <1>3. PICK at : at = handler[h].minute  OBVIOUS
  <1>4. Persist(b, at)  BY <1>2, <1>3
  <1> QED  BY <1>1, <1>4, PersistFacts DEF Settled

\* A failure after close is written alone, or given up with its error.
LEMMA LateFlushSettles ==
    ASSUME StatisticsType, HandsInv, NEW h \in Handler, NEW w \in BOOLEAN, LateFlush(h, w)
    PROVE  Settled(handler[h].batch.count)
  <1>1. PICK b \in Batch : b = handler[h].batch  BY BatchTypes
  <1>2. PICK at : at = handler[h].minute  OBVIOUS
  <1>3. CASE w
    <2>1. Persist(b, at)  BY <1>1, <1>2, <1>3 DEF LateFlush
    <2> QED  BY <1>1, <2>1, PersistFacts DEF Settled
  <1>4. CASE ~w
    <2>1. dropped' = dropped + 1 /\ UNCHANGED bucket  BY <1>4 DEF LateFlush
    <2>2. b.count = 1  BY <1>1 DEF HandsInv, LateFlush
    <2> QED  BY <1>1, <2>1, <2>2, GivenUp
  <1> QED  BY <1>3, <1>4

\* The ticker's flush settles the counts it took, none included.
LEMMA TickFlushSettles ==
    ASSUME StatisticsType, TickFlush
    PROVE  Settled(ticker.batch.count)
  <1>1. PICK b \in Batch : b = ticker.batch  BY BatchTypes
  <1>2. PICK at : at = now  OBVIOUS
  <1>3. CASE b.count = 0 /\ Retention = 0
    <2>1. UNCHANGED <<bucket, dropped>>  BY <1>1, <1>3 DEF TickFlush
    <2>2. dropped' = dropped + 0  BY <2>1 DEF StatisticsType, ScalarType
    <2> QED  BY <1>1, <1>3, <2>1, <2>2, GivenUp
  <1>4. CASE ~(b.count = 0 /\ Retention = 0)
    <2>1. Persist(b, at)  BY <1>1, <1>2, <1>4 DEF TickFlush
    <2> QED  BY <1>1, <2>1, PersistFacts DEF Settled
  <1> QED  BY <1>3, <1>4

\* The flush of closeAndFlush is the last attempt.
LEMMA FinalFlushSettles ==
    ASSUME StatisticsType, NEW w \in BOOLEAN, FinalFlush(w)
    PROVE  Settled(closer.batch.count)
  <1>1. PICK b \in Batch : b = closer.batch  BY BatchTypes
  <1>2. PICK at : at = now  OBVIOUS
  <1>3. CASE b.count = 0
    <2>1. UNCHANGED <<bucket, dropped>>  BY <1>1, <1>3 DEF FinalFlush
    <2>2. dropped' = dropped + 0  BY <2>1 DEF StatisticsType, ScalarType
    <2> QED  BY <1>1, <1>3, <2>1, <2>2, GivenUp
  <1>4. CASE b.count # 0 /\ w
    <2>1. Persist(b, at)  BY <1>1, <1>2, <1>4 DEF FinalFlush
    <2> QED  BY <1>1, <2>1, PersistFacts DEF Settled
  <1>5. CASE b.count # 0 /\ ~w
    <2>1. dropped' = dropped + b.count /\ UNCHANGED bucket  BY <1>1, <1>5 DEF FinalFlush
    <2> QED  BY <1>1, <2>1, GivenUp DEF Batch
  <1> QED  BY <1>3, <1>4, <1>5

\* A commit that reported an error may have settled its batch all the same.
SettledAgain(n) == Settled(n) /\ repeated' = repeated + n /\ repeated' \in 0..MaxRepeats

LEMMA UncertainSettles ==
    ASSUME StatisticsType, NEW b \in Batch, NEW at, NEW w \in BOOLEAN, Uncertain(b, at, w)
    PROVE  \E n \in Nat : SettledAgain(n)
  <1>1. b.count \in Nat /\ repeated \in 0..MaxRepeats /\ dropped \in Nat
    BY DEF StatisticsType, ScalarType, Batch
  <1>2. CASE w
    <2>1. Persist(b, at) /\ repeated + b.count <= MaxRepeats /\ repeated' = repeated + b.count
      BY <1>2 DEF Uncertain
    <2>2. Settled(b.count)  BY <2>1, PersistFacts DEF Settled
    <2>3. repeated' \in 0..MaxRepeats  BY <1>1, <2>1, Numbers
    <2> QED  BY <1>1, <2>1, <2>2, <2>3 DEF SettledAgain
  <1>3. CASE ~w
    <2>1. UNCHANGED <<bucket, dropped, repeated>>  BY <1>3 DEF Uncertain
    <2>2. Settled(0)  BY <1>1, <2>1, GivenUp
    <2>3. repeated' = repeated + 0  BY <1>1, <2>1
    <2> QED  BY <1>1, <2>1, <2>2, <2>3 DEF SettledAgain
  <1> QED  BY <1>2, <1>3

\* ... and of the numbers.
LEMMA ScalarTypeStep ==
    ASSUME StatisticsType, HandsInv, [Next]_vars
    PROVE  ScalarType' /\ bucket' \in [0..MaxMinute -> Nat]
  <1>1. ASSUME NEW h \in Handler, StartLogin(h) PROVE ScalarType' /\ bucket' \in [0..MaxMinute -> Nat]
    BY <1>1, Numbers, BatchTypes DEF StartLogin, StatisticsType, ScalarType, Minute, memory, life, count
  <1>2. ASSUME NEW h \in Handler, Succeed(h) PROVE ScalarType' /\ bucket' \in [0..MaxMinute -> Nat]
    BY <1>2, Numbers, BatchTypes DEF Succeed, StatisticsType, ScalarType, Minute, memory, life, count
  <1>3. ASSUME NEW h \in Handler, ReadClock(h) PROVE ScalarType' /\ bucket' \in [0..MaxMinute -> Nat]
    BY <1>3, Numbers, BatchTypes DEF ReadClock, StatisticsType, ScalarType, Minute, memory, life, count
  <1>4. ASSUME NEW h \in Handler, Enter(h) PROVE ScalarType' /\ bucket' \in [0..MaxMinute -> Nat]
    BY <1>4, Numbers, BatchTypes DEF Enter, StatisticsType, ScalarType, Minute, memory, life, count
  <1>5. ASSUME NEW h \in Handler, Late(h) PROVE ScalarType' /\ bucket' \in [0..MaxMinute -> Nat]
    <2>1. Counted(handler[h].minute) /\ UNCHANGED <<now, memory, bucket, dropped>>  BY <1>5 DEF Late
    <2>2. handler[h].minute \in 0..MaxMinute  BY BatchTypes
    <2> QED  BY <2>1, <2>2 DEF Counted, StatisticsType, ScalarType, memory
  <1>6. ASSUME NEW h \in Handler, Count(h) PROVE ScalarType' /\ bucket' \in [0..MaxMinute -> Nat]
    <2>1. PICK m \in 0..MaxMinute : m = MinuteOf(handler[h].minute)
      BY BatchTypes DEF MinuteOf, StatisticsType, ScalarType
    <2>2. /\ minute' = m /\ Counted(m) /\ UNCHANGED <<now, bucket, dropped>>
          /\ (counts' = 1 \/ counts' = counts + 1)
      BY <1>6, <2>1 DEF Count
    <2> QED  BY <2>1, <2>2 DEF Counted, StatisticsType, ScalarType
  <1>7. ASSUME NEW h \in Handler, Flush(h) PROVE ScalarType' /\ bucket' \in [0..MaxMinute -> Nat]
    <2>1. dropped' \in Nat /\ bucket' \in [0..MaxMinute -> Nat]  BY <1>7, FlushSettles DEF Settled
    <2>2. UNCHANGED <<now, memory, count>>  BY <1>7 DEF Flush
    <2> QED  BY <2>1, <2>2 DEF StatisticsType, ScalarType, memory, count
  <1>8. ASSUME NEW h \in Handler, NEW w \in BOOLEAN, FlushFails(h, w)
        PROVE ScalarType' /\ bucket' \in [0..MaxMinute -> Nat]
    <2>1. PICK n \in Nat : SettledAgain(n)  BY <1>8, BatchTypes, UncertainSettles DEF FlushFails
    <2>2. UNCHANGED <<now, memory, recorded, newest, last>>  BY <1>8 DEF FlushFails
    <2> QED  BY <2>1, <2>2 DEF SettledAgain, Settled, StatisticsType, ScalarType, memory
  <1>9. ASSUME NEW h \in Handler, Requeue(h) PROVE ScalarType' /\ bucket' \in [0..MaxMinute -> Nat]
    <2>1. counts' = counts + handler[h].batch.count /\ UNCHANGED <<now, minute, bucket, dropped, count>>
      BY <1>9 DEF Requeue, requeue
    <2>2. handler[h].batch.count \in Nat  BY BatchTypes DEF Batch
    <2> QED  BY <2>1, <2>2 DEF StatisticsType, ScalarType, count
  <1>10. ASSUME NEW h \in Handler, Leave(h) PROVE ScalarType' /\ bucket' \in [0..MaxMinute -> Nat]
    BY <1>10, Numbers, BatchTypes DEF Leave, StatisticsType, ScalarType, Minute, memory, life, count
  <1>11. ASSUME NEW h \in Handler, NEW w \in BOOLEAN, LateFlush(h, w)
        PROVE ScalarType' /\ bucket' \in [0..MaxMinute -> Nat]
    <2>1. dropped' \in Nat /\ bucket' \in [0..MaxMinute -> Nat]  BY <1>11, LateFlushSettles DEF Settled
    <2>2. UNCHANGED <<now, memory, count>>  BY <1>11 DEF LateFlush
    <2> QED  BY <2>1, <2>2 DEF StatisticsType, ScalarType, memory, count
  <1>12. ASSUME Tick PROVE ScalarType' /\ bucket' \in [0..MaxMinute -> Nat]
    BY <1>12, Numbers, BatchTypes DEF Tick, StatisticsType, ScalarType, Minute, life, count, Swap
  <1>13. ASSUME TickFlush PROVE ScalarType' /\ bucket' \in [0..MaxMinute -> Nat]
    <2>1. dropped' \in Nat /\ bucket' \in [0..MaxMinute -> Nat]  BY <1>13, TickFlushSettles DEF Settled
    <2>2. UNCHANGED <<now, memory, count>>  BY <1>13 DEF TickFlush
    <2> QED  BY <2>1, <2>2 DEF StatisticsType, ScalarType, memory, count
  <1>14. ASSUME NEW w \in BOOLEAN, TickFails(w) PROVE ScalarType' /\ bucket' \in [0..MaxMinute -> Nat]
    <2>1. counts' = counts + ticker.batch.count /\ UNCHANGED <<now, minute, recorded, newest, last>>
      BY <1>14 DEF TickFails, requeue
    <2>2. ticker.batch.count \in Nat  BY BatchTypes DEF Batch
    <2>3. PICK n \in Nat : SettledAgain(n)  BY <1>14, BatchTypes, UncertainSettles DEF TickFails
    <2> QED  BY <2>1, <2>2, <2>3 DEF SettledAgain, Settled, StatisticsType, ScalarType
  <1>15. ASSUME SetClosed PROVE ScalarType' /\ bucket' \in [0..MaxMinute -> Nat]
    BY <1>15, Numbers, BatchTypes DEF SetClosed, StatisticsType, ScalarType, Minute, memory, count
  <1>16. ASSUME CloseStop PROVE ScalarType' /\ bucket' \in [0..MaxMinute -> Nat]
    BY <1>16, Numbers, BatchTypes DEF CloseStop, StatisticsType, ScalarType, Minute, memory, count
  <1>17. ASSUME TakeRest PROVE ScalarType' /\ bucket' \in [0..MaxMinute -> Nat]
    BY <1>17, Numbers, BatchTypes DEF TakeRest, StatisticsType, ScalarType, Minute, life, count, Swap
  <1>18. ASSUME NEW w \in BOOLEAN, FinalFlush(w) PROVE ScalarType' /\ bucket' \in [0..MaxMinute -> Nat]
    <2>1. dropped' \in Nat /\ bucket' \in [0..MaxMinute -> Nat]  BY <1>18, FinalFlushSettles DEF Settled
    <2>2. UNCHANGED <<now, memory, count>>  BY <1>18 DEF FinalFlush
    <2> QED  BY <2>1, <2>2 DEF StatisticsType, ScalarType, memory, count
  <1>19. ASSUME Shutdown PROVE ScalarType' /\ bucket' \in [0..MaxMinute -> Nat]
    BY <1>19, Numbers, BatchTypes DEF Shutdown, StatisticsType, ScalarType, Minute, memory, count
  <1>20. ASSUME Exit PROVE ScalarType' /\ bucket' \in [0..MaxMinute -> Nat]
    BY <1>20, Numbers, BatchTypes DEF Exit, StatisticsType, ScalarType, Minute, memory, count
  <1>21. ASSUME NEW m \in Minute, SetClock(m) PROVE ScalarType' /\ bucket' \in [0..MaxMinute -> Nat]
    BY <1>21, Numbers, BatchTypes DEF SetClock, StatisticsType, ScalarType, Minute, memory, life, count
  <1>22. CASE UNCHANGED vars
    BY <1>22, Numbers, BatchTypes DEF vars, memory, life, count, StatisticsType, ScalarType, Minute
  <1> QED
    BY <1>1, <1>2, <1>3, <1>4, <1>5, <1>6, <1>7, <1>8, <1>9, <1>10, <1>11, <1>12, <1>13, <1>14, <1>15,
       <1>16, <1>17, <1>18, <1>19, <1>20, <1>21, <1>22 DEF Next, Record, Run, closeAndFlush

\* No step leaves a batch behind, or overwrites one.
LEMMA HandsStep ==
    ASSUME StatisticsType, HandsInv, CloseInv, [Next]_vars
    PROVE  HandsInv'
  <1>1. ASSUME NEW h \in Handler, StartLogin(h) PROVE HandsInv'
    BY <1>1, BatchTypes DEF StartLogin, HandsInv, StatisticsType, ScalarType, ProcessType, Process,
       Batch, None, Minute, Goto, memory, life, count
  <1>2. ASSUME NEW h \in Handler, Succeed(h) PROVE HandsInv'
    BY <1>2, BatchTypes DEF Succeed, HandsInv, StatisticsType, ScalarType, ProcessType, Process, Batch,
       None, Minute, Goto, memory, life, count
  <1>3. ASSUME NEW h \in Handler, ReadClock(h) PROVE HandsInv'
    BY <1>3, BatchTypes DEF ReadClock, HandsInv, StatisticsType, ScalarType, ProcessType, Process,
       Batch, None, Minute, Become, memory, life, count
  <1>4. ASSUME NEW h \in Handler, Enter(h) PROVE HandsInv'
    BY <1>4, BatchTypes DEF Enter, HandsInv, StatisticsType, ScalarType, ProcessType, Process, Batch,
       None, Minute, Goto, memory, life, count
  <1>5. ASSUME NEW h \in Handler, Late(h) PROVE HandsInv'
    BY <1>5, BatchTypes DEF Late, HandsInv, StatisticsType, ScalarType, ProcessType, Process, Batch,
       None, Minute, Become, memory, life, count
  <1>6. ASSUME NEW h \in Handler, Count(h) PROVE HandsInv'
    <2>1. PICK m \in 1..MaxMinute : m = MinuteOf(handler[h].minute)
      <3>1. handler[h].minute \in 0..MaxMinute /\ handler[h].minute > 0
        BY <1>6, BatchTypes DEF Count, HandsInv
      <3>2. minute \in 0..MaxMinute  BY DEF StatisticsType, ScalarType
      <3>3. MinuteOf(handler[h].minute) \in 1..MaxMinute  BY <3>1, <3>2, Numbers DEF MinuteOf
      <3> QED  BY <3>3
    <2>2. minute' > 0 /\ UNCHANGED <<ticker, closer>>  BY <1>6, <2>1, Numbers DEF Count
    <2>3. \/ Become(h, "flushing", m, [minute |-> minute, count |-> counts]) /\ counts > 0
          \/ Become(h, "leaving", m, None)
      BY <1>6, <2>1 DEF Count
    <2> QED  BY <2>2, <2>3, BatchTypes DEF Become, HandsInv, StatisticsType, ProcessType
  <1>7. ASSUME NEW h \in Handler, Flush(h) PROVE HandsInv'
    BY <1>7, BatchTypes DEF Flush, HandsInv, StatisticsType, ScalarType, ProcessType, Process, Batch,
       None, Minute, Become, memory, life, count
  <1>8. ASSUME NEW h \in Handler, NEW w \in BOOLEAN, FlushFails(h, w) PROVE HandsInv'
    BY <1>8, BatchTypes DEF FlushFails, HandsInv, StatisticsType, ScalarType, ProcessType, Process,
       Batch, None, Minute, Goto, memory, life, count
  <1>9. ASSUME NEW h \in Handler, Requeue(h) PROVE HandsInv'
    BY <1>9, BatchTypes DEF Requeue, HandsInv, StatisticsType, ScalarType, ProcessType, Process, Batch,
       None, Minute, Become, life, count, requeue
  <1>10. ASSUME NEW h \in Handler, Leave(h) PROVE HandsInv'
    BY <1>10, BatchTypes DEF Leave, HandsInv, StatisticsType, ScalarType, ProcessType, Process, Batch,
       None, Minute, Goto, memory, life, count
  <1>11. ASSUME NEW h \in Handler, NEW w \in BOOLEAN, LateFlush(h, w) PROVE HandsInv'
    BY <1>11, BatchTypes DEF LateFlush, HandsInv, StatisticsType, ScalarType, ProcessType, Process,
       Batch, None, Minute, Become, memory, life, count
  <1>12. ASSUME Tick PROVE HandsInv'
    BY <1>12, BatchTypes DEF Tick, HandsInv, StatisticsType, ScalarType, ProcessType, Process, Batch,
       None, Minute, life, count, Swap
  <1>13. ASSUME TickFlush PROVE HandsInv'
    BY <1>13, BatchTypes DEF TickFlush, HandsInv, StatisticsType, ScalarType, ProcessType, Process,
       Batch, None, Minute, memory, life, count
  <1>14. ASSUME NEW w \in BOOLEAN, TickFails(w) PROVE HandsInv'
    BY <1>14, BatchTypes DEF TickFails, HandsInv, StatisticsType, ScalarType, ProcessType, Process,
       Batch, None, Minute, life, count, requeue
  <1>15. ASSUME SetClosed PROVE HandsInv'
    BY <1>15, BatchTypes DEF SetClosed, HandsInv, StatisticsType, ScalarType, ProcessType, Process,
       Batch, None, Minute, memory, count
  <1>16. ASSUME CloseStop PROVE HandsInv'
    BY <1>16, BatchTypes DEF CloseStop, HandsInv, StatisticsType, ScalarType, ProcessType, Process,
       Batch, None, Minute, memory, count
  <1>17. ASSUME TakeRest PROVE HandsInv'
    BY <1>17, BatchTypes DEF TakeRest, HandsInv, StatisticsType, ScalarType, ProcessType, Process,
       Batch, None, Minute, life, count, Swap
  <1>18. ASSUME NEW w \in BOOLEAN, FinalFlush(w) PROVE HandsInv'
    BY <1>18, BatchTypes DEF FinalFlush, HandsInv, StatisticsType, ScalarType, ProcessType, Process,
       Batch, None, Minute, memory, life, count
  <1>19. ASSUME Shutdown PROVE HandsInv'
    <2>1. closer.pc = "none" /\ closer.batch = None  BY <1>19 DEF Shutdown, CloseInv, HandsInv
    <2>2. closer'.pc = "started" /\ closer'.batch = closer.batch
      BY <1>19 DEF Shutdown, StatisticsType, ProcessType
    <2>3. UNCHANGED <<memory, handler, ticker>>  BY <1>19 DEF Shutdown
    <2> QED  BY <2>1, <2>2, <2>3 DEF HandsInv, memory
  <1>20. ASSUME Exit PROVE HandsInv'
    BY <1>20, BatchTypes DEF Exit, HandsInv, StatisticsType, ScalarType, ProcessType, Process, Batch,
       None, Minute, memory, count
  <1>21. ASSUME NEW m \in Minute, SetClock(m) PROVE HandsInv'
    BY <1>21, BatchTypes DEF SetClock, HandsInv, StatisticsType, ScalarType, ProcessType, Process,
       Batch, None, Minute, memory, life, count
  <1>22. CASE UNCHANGED vars
    BY <1>22, BatchTypes DEF vars, memory, life, count, HandsInv, StatisticsType, ScalarType,
       ProcessType, Process, Batch, None, Minute
  <1> QED
    BY <1>1, <1>2, <1>3, <1>4, <1>5, <1>6, <1>7, <1>8, <1>9, <1>10, <1>11, <1>12, <1>13, <1>14, <1>15,
       <1>16, <1>17, <1>18, <1>19, <1>20, <1>21, <1>22 DEF Next, Record, Run, closeAndFlush

\* closeAndFlush goes on only when those it waits for have stopped, and they stay so.
LEMMA CloseStep ==
    ASSUME StatisticsType, CloseInv, [Next]_vars
    PROVE  CloseInv'
  <1>1. ASSUME NEW h \in Handler, StartLogin(h) PROVE CloseInv'
    BY <1>1, BatchTypes DEF StartLogin, CloseInv, StatisticsType, ProcessType, Process, Active, Goto,
       memory, life, count
  <1>2. ASSUME NEW h \in Handler, Succeed(h) PROVE CloseInv'
    BY <1>2, BatchTypes DEF Succeed, CloseInv, StatisticsType, ProcessType, Process, Active, Goto,
       memory, life, count, Running
  <1>3. ASSUME NEW h \in Handler, ReadClock(h) PROVE CloseInv'
    BY <1>3, BatchTypes DEF ReadClock, CloseInv, StatisticsType, ProcessType, Process, Active, Become,
       memory, life, count, Running
  <1>4. ASSUME NEW h \in Handler, Enter(h) PROVE CloseInv'
    BY <1>4, BatchTypes DEF Enter, CloseInv, StatisticsType, ProcessType, Process, Active, Goto,
       memory, life, count, Running
  <1>5. ASSUME NEW h \in Handler, Late(h) PROVE CloseInv'
    BY <1>5, BatchTypes DEF Late, CloseInv, StatisticsType, ProcessType, Process, Active, Become,
       memory, life, count, Running
  <1>6. ASSUME NEW h \in Handler, Count(h) PROVE CloseInv'
    BY <1>6, BatchTypes DEF Count, CloseInv, StatisticsType, ProcessType, Process, Active, Become,
       life, count, Running
  <1>7. ASSUME NEW h \in Handler, Flush(h) PROVE CloseInv'
    BY <1>7, BatchTypes DEF Flush, CloseInv, StatisticsType, ProcessType, Process, Active, Become,
       memory, life, count, Running
  <1>8. ASSUME NEW h \in Handler, NEW w \in BOOLEAN, FlushFails(h, w) PROVE CloseInv'
    BY <1>8, BatchTypes DEF FlushFails, CloseInv, StatisticsType, ProcessType, Process, Active, Goto,
       memory, life, count, Running
  <1>9. ASSUME NEW h \in Handler, Requeue(h) PROVE CloseInv'
    BY <1>9, BatchTypes DEF Requeue, CloseInv, StatisticsType, ProcessType, Process, Active, Become,
       life, count, requeue, Running
  <1>10. ASSUME NEW h \in Handler, Leave(h) PROVE CloseInv'
    BY <1>10, BatchTypes DEF Leave, CloseInv, StatisticsType, ProcessType, Process, Active, Goto,
       memory, life, count, Running
  <1>11. ASSUME NEW h \in Handler, NEW w \in BOOLEAN, LateFlush(h, w) PROVE CloseInv'
    BY <1>11, BatchTypes DEF LateFlush, CloseInv, StatisticsType, ProcessType, Process, Active, Become,
       memory, life, count, Running
  <1>12. ASSUME Tick PROVE CloseInv'
    BY <1>12, BatchTypes DEF Tick, CloseInv, StatisticsType, ProcessType, Process, Active, life, count,
       Swap, Running
  <1>13. ASSUME TickFlush PROVE CloseInv'
    BY <1>13, BatchTypes DEF TickFlush, CloseInv, StatisticsType, ProcessType, Process, Active, memory,
       life, count, Running
  <1>14. ASSUME NEW w \in BOOLEAN, TickFails(w) PROVE CloseInv'
    BY <1>14, BatchTypes DEF TickFails, CloseInv, StatisticsType, ProcessType, Process, Active, life,
       count, requeue, Running
  <1>15. ASSUME SetClosed PROVE CloseInv'
    BY <1>15, BatchTypes DEF SetClosed, CloseInv, StatisticsType, ProcessType, Process, Active, memory,
       count, Running
  <1>16. ASSUME CloseStop PROVE CloseInv'
    BY <1>16, BatchTypes DEF CloseStop, CloseInv, StatisticsType, ProcessType, Process, Active, memory,
       count, Running
  <1>17. ASSUME TakeRest PROVE CloseInv'
    BY <1>17, BatchTypes DEF TakeRest, CloseInv, StatisticsType, ProcessType, Process, Active, life,
       count, Swap, Running
  <1>18. ASSUME NEW w \in BOOLEAN, FinalFlush(w) PROVE CloseInv'
    BY <1>18, BatchTypes DEF FinalFlush, CloseInv, StatisticsType, ProcessType, Process, Active,
       memory, life, count, Running
  <1>19. ASSUME Shutdown PROVE CloseInv'
    BY <1>19, BatchTypes DEF Shutdown, CloseInv, StatisticsType, ProcessType, Process, Active, memory,
       count
  <1>20. ASSUME Exit PROVE CloseInv'
    BY <1>20, BatchTypes DEF Exit, CloseInv, StatisticsType, ProcessType, Process, Active, memory, count
  <1>21. ASSUME NEW m \in Minute, SetClock(m) PROVE CloseInv'
    BY <1>21, BatchTypes DEF SetClock, CloseInv, StatisticsType, ProcessType, Process, Active, memory,
       life, count, Running
  <1>22. CASE UNCHANGED vars
    BY <1>22, BatchTypes DEF vars, memory, life, count, CloseInv, StatisticsType, ProcessType, Process,
       Active
  <1> QED
    BY <1>1, <1>2, <1>3, <1>4, <1>5, <1>6, <1>7, <1>8, <1>9, <1>10, <1>11, <1>12, <1>13, <1>14, <1>15,
       <1>16, <1>17, <1>18, <1>19, <1>20, <1>21, <1>22 DEF Next, Record, Run, closeAndFlush

\* Until it is closed, minutes only move forward.
LEMMA MinuteStep ==
    ASSUME StatisticsType, CloseInv, MinuteInv, [Next]_vars
    PROVE  MinuteInv'
  <1>1. ASSUME NEW h \in Handler, StartLogin(h) PROVE MinuteInv'
    BY <1>1, BatchTypes DEF StartLogin, MinuteInv, StatisticsType, ScalarType, memory, life, count
  <1>2. ASSUME NEW h \in Handler, Succeed(h) PROVE MinuteInv'
    BY <1>2, BatchTypes DEF Succeed, MinuteInv, StatisticsType, ScalarType, memory, life, count
  <1>3. ASSUME NEW h \in Handler, ReadClock(h) PROVE MinuteInv'
    BY <1>3, BatchTypes DEF ReadClock, MinuteInv, StatisticsType, ScalarType, memory, life, count
  <1>4. ASSUME NEW h \in Handler, Enter(h) PROVE MinuteInv'
    BY <1>4, BatchTypes DEF Enter, MinuteInv, StatisticsType, ScalarType, memory, life, count
  <1>5. ASSUME NEW h \in Handler, Late(h) PROVE MinuteInv'
    BY <1>5, BatchTypes DEF Late, MinuteInv, StatisticsType, ScalarType, memory, life, count, Counted
  <1>6. ASSUME NEW h \in Handler, Count(h) PROVE MinuteInv'
    BY <1>6, BatchTypes DEF Count, MinuteInv, StatisticsType, ScalarType, life, count, MinuteOf, Counted
  <1>7. ASSUME NEW h \in Handler, Flush(h) PROVE MinuteInv'
    BY <1>7, BatchTypes DEF Flush, MinuteInv, StatisticsType, ScalarType, memory, life, count
  <1>8. ASSUME NEW h \in Handler, NEW w \in BOOLEAN, FlushFails(h, w) PROVE MinuteInv'
    BY <1>8, BatchTypes DEF FlushFails, MinuteInv, StatisticsType, ScalarType, memory, life, count
  <1>9. ASSUME NEW h \in Handler, Requeue(h) PROVE MinuteInv'
    BY <1>9, BatchTypes DEF Requeue, MinuteInv, StatisticsType, ScalarType, life, count, requeue
  <1>10. ASSUME NEW h \in Handler, Leave(h) PROVE MinuteInv'
    BY <1>10, BatchTypes DEF Leave, MinuteInv, StatisticsType, ScalarType, memory, life, count
  <1>11. ASSUME NEW h \in Handler, NEW w \in BOOLEAN, LateFlush(h, w) PROVE MinuteInv'
    BY <1>11, BatchTypes DEF LateFlush, MinuteInv, StatisticsType, ScalarType, memory, life, count
  <1>12. ASSUME Tick PROVE MinuteInv'
    BY <1>12, BatchTypes DEF Tick, MinuteInv, StatisticsType, ScalarType, life, count, Swap
  <1>13. ASSUME TickFlush PROVE MinuteInv'
    BY <1>13, BatchTypes DEF TickFlush, MinuteInv, StatisticsType, ScalarType, memory, life, count
  <1>14. ASSUME NEW w \in BOOLEAN, TickFails(w) PROVE MinuteInv'
    BY <1>14, BatchTypes DEF TickFails, MinuteInv, StatisticsType, ScalarType, life, count, requeue
  <1>15. ASSUME SetClosed PROVE MinuteInv'
    BY <1>15, BatchTypes DEF SetClosed, MinuteInv, StatisticsType, ScalarType, memory, count
  <1>16. ASSUME CloseStop PROVE MinuteInv'
    BY <1>16, BatchTypes DEF CloseStop, MinuteInv, StatisticsType, ScalarType, memory, count
  <1>17. ASSUME TakeRest PROVE MinuteInv'
    BY <1>17, BatchTypes DEF TakeRest, MinuteInv, StatisticsType, ScalarType, life, count, Swap
  <1>18. ASSUME NEW w \in BOOLEAN, FinalFlush(w) PROVE MinuteInv'
    BY <1>18, BatchTypes DEF FinalFlush, MinuteInv, StatisticsType, ScalarType, memory, life, count
  <1>19. ASSUME Shutdown PROVE MinuteInv'
    BY <1>19, BatchTypes DEF Shutdown, MinuteInv, StatisticsType, ScalarType, memory, count
  <1>20. ASSUME Exit PROVE MinuteInv'
    BY <1>20, BatchTypes DEF Exit, MinuteInv, StatisticsType, ScalarType, memory, count
  <1>21. ASSUME NEW m \in Minute, SetClock(m) PROVE MinuteInv'
    BY <1>21, BatchTypes DEF SetClock, MinuteInv, StatisticsType, ScalarType, memory, life, count
  <1>22. CASE UNCHANGED vars
    BY <1>22, BatchTypes DEF vars, memory, life, count, MinuteInv, StatisticsType, ScalarType
  <1> QED
    BY <1>1, <1>2, <1>3, <1>4, <1>5, <1>6, <1>7, <1>8, <1>9, <1>10, <1>11, <1>12, <1>13, <1>14, <1>15,
       <1>16, <1>17, <1>18, <1>19, <1>20, <1>21, <1>22 DEF Next, Record, Run, closeAndFlush

\* The handlers between their clock reading and their count, counted.
LEMMA CountingFinite ==
    /\ IsFiniteSet(Counting) /\ Cardinality(Counting) \in Nat
    /\ \A h \in Handler : /\ h \in Counting => Cardinality(Counting \ {h}) = Cardinality(Counting) - 1
                          /\ h \notin Counting => Cardinality(Counting \cup {h}) = Cardinality(Counting) + 1
  <1>1. Counting \subseteq Handler  BY DEF Counting
  <1>2. IsFiniteSet(Counting)  BY <1>1, FiniteSums, FS_Subset
  <1> QED  BY <1>2, FS_CardinalityType, FS_AddElement, FS_RemoveElement

\* Nobody starts or ends counting.
Uncounted ==
    /\ \A g \in Handler : handler'[g].pc \in {"read", "active"} <=> handler[g].pc \in {"read", "active"}
    /\ recorded' = recorded

\* Such a step keeps the bound.
LEMMA QuietBound ==
    ASSUME Uncounted, BoundInv
    PROVE  BoundInv'
  <1>1. Counting' = Counting  BY DEF Uncounted, Counting
  <1> QED  BY <1>1 DEF Uncounted, BoundInv

\* Counting moves one from those that may be counted to those that are.
LEMMA BoundStep ==
    ASSUME StatisticsType, BoundInv, [Next]_vars
    PROVE  BoundInv'
  <1>1. ASSUME NEW h \in Handler, StartLogin(h) PROVE BoundInv'
    BY <1>1, QuietBound DEF StartLogin, Goto, Uncounted, StatisticsType, ProcessType, Process, count
  <1>2. ASSUME NEW h \in Handler, Succeed(h) PROVE BoundInv'
    BY <1>2, QuietBound DEF Succeed, Goto, Uncounted, StatisticsType, ProcessType, Process, count
  <1>3. ASSUME NEW h \in Handler, ReadClock(h) PROVE BoundInv'
    <2>1. /\ handler[h].pc = "login" /\ handler'[h].pc = "read"
          /\ \A g \in Handler \ {h} : handler'[g].pc = handler[g].pc
      BY <1>3 DEF ReadClock, Become, StatisticsType, ProcessType, Process
    <2>2. Counting' = Counting \cup {h} /\ h \notin Counting  BY <2>1 DEF Counting
    <2>3. recorded' = recorded /\ recorded + Cardinality(Counting) < MaxFailures
      BY <1>3 DEF ReadClock, count, Counting
    <2>4. Cardinality(Counting') = Cardinality(Counting) + 1 /\ Cardinality(Counting) \in Nat
      BY <2>2, CountingFinite
    <2> QED  BY <2>3, <2>4, Numbers DEF BoundInv, StatisticsType, ScalarType
  <1>4. ASSUME NEW h \in Handler, Enter(h) PROVE BoundInv'
    BY <1>4, QuietBound DEF Enter, Goto, Uncounted, StatisticsType, ProcessType, Process, count
  <1>5. ASSUME NEW h \in Handler, Late(h) PROVE BoundInv'
    <2>1. /\ handler[h].pc = "read" /\ handler'[h].pc = "late"
          /\ \A g \in Handler \ {h} : handler'[g].pc = handler[g].pc
      BY <1>5 DEF Late, Become, StatisticsType, ProcessType, Process
    <2>2. Counting' = Counting \ {h} /\ h \in Counting  BY <2>1 DEF Counting
    <2>3. recorded' = recorded + 1  BY <1>5 DEF Late, Counted
    <2>4. Cardinality(Counting') = Cardinality(Counting) - 1 /\ Cardinality(Counting) \in Nat
      BY <2>2, CountingFinite
    <2> QED  BY <2>3, <2>4, Numbers DEF BoundInv, StatisticsType, ScalarType
  <1>6. ASSUME NEW h \in Handler, Count(h) PROVE BoundInv'
    <2>1. /\ handler[h].pc = "active" /\ handler'[h].pc \in {"flushing", "leaving"}
          /\ \A g \in Handler \ {h} : handler'[g].pc = handler[g].pc
      BY <1>6 DEF Count, Become, StatisticsType, ProcessType, Process
    <2>2. Counting' = Counting \ {h} /\ h \in Counting  BY <2>1 DEF Counting
    <2>3. recorded' = recorded + 1  BY <1>6 DEF Count, Counted
    <2>4. Cardinality(Counting') = Cardinality(Counting) - 1 /\ Cardinality(Counting) \in Nat
      BY <2>2, CountingFinite
    <2> QED  BY <2>3, <2>4, Numbers DEF BoundInv, StatisticsType, ScalarType
  <1>7. ASSUME NEW h \in Handler, Flush(h) PROVE BoundInv'
    BY <1>7, QuietBound DEF Flush, Become, Uncounted, StatisticsType, ProcessType, Process, count
  <1>8. ASSUME NEW h \in Handler, NEW w \in BOOLEAN, FlushFails(h, w) PROVE BoundInv'
    BY <1>8, QuietBound DEF FlushFails, Goto, Uncounted, StatisticsType, ProcessType, Process, count
  <1>9. ASSUME NEW h \in Handler, Requeue(h) PROVE BoundInv'
    BY <1>9, QuietBound DEF Requeue, Become, Uncounted, StatisticsType, ProcessType, Process, count
  <1>10. ASSUME NEW h \in Handler, Leave(h) PROVE BoundInv'
    BY <1>10, QuietBound DEF Leave, Goto, Uncounted, StatisticsType, ProcessType, Process, count
  <1>11. ASSUME NEW h \in Handler, NEW w \in BOOLEAN, LateFlush(h, w) PROVE BoundInv'
    BY <1>11, QuietBound DEF LateFlush, Become, Uncounted, StatisticsType, ProcessType, Process, count
  <1>12. ASSUME Tick PROVE BoundInv'
    BY <1>12, QuietBound DEF Tick, Uncounted, StatisticsType, ProcessType, Process, count
  <1>13. ASSUME TickFlush PROVE BoundInv'
    BY <1>13, QuietBound DEF TickFlush, Uncounted, StatisticsType, ProcessType, Process, count
  <1>14. ASSUME NEW w \in BOOLEAN, TickFails(w) PROVE BoundInv'
    BY <1>14, QuietBound DEF TickFails, Uncounted, StatisticsType, ProcessType, Process, count
  <1>15. ASSUME SetClosed PROVE BoundInv'
    BY <1>15, QuietBound DEF SetClosed, Uncounted, StatisticsType, ProcessType, Process, count
  <1>16. ASSUME CloseStop PROVE BoundInv'
    BY <1>16, QuietBound DEF CloseStop, Uncounted, StatisticsType, ProcessType, Process, count
  <1>17. ASSUME TakeRest PROVE BoundInv'
    BY <1>17, QuietBound DEF TakeRest, Uncounted, StatisticsType, ProcessType, Process, count
  <1>18. ASSUME NEW w \in BOOLEAN, FinalFlush(w) PROVE BoundInv'
    BY <1>18, QuietBound DEF FinalFlush, Uncounted, StatisticsType, ProcessType, Process, count
  <1>19. ASSUME Shutdown PROVE BoundInv'
    BY <1>19, QuietBound DEF Shutdown, Uncounted, StatisticsType, ProcessType, Process, count
  <1>20. ASSUME Exit PROVE BoundInv'
    BY <1>20, QuietBound DEF Exit, Uncounted, StatisticsType, ProcessType, Process, count
  <1>21. ASSUME NEW m \in Minute, SetClock(m) PROVE BoundInv'
    BY <1>21, QuietBound DEF SetClock, Uncounted, StatisticsType, ProcessType, Process, count
  <1>22. CASE UNCHANGED vars
    BY <1>22 DEF vars, memory, life, count, BoundInv, Counting
  <1> QED
    BY <1>1, <1>2, <1>3, <1>4, <1>5, <1>6, <1>7, <1>8, <1>9, <1>10, <1>11, <1>12, <1>13, <1>14, <1>15,
       <1>16, <1>17, <1>18, <1>19, <1>20, <1>21, <1>22 DEF Next, Record, Run, closeAndFlush

\* ... after a step, too.
LEMMA NextNumbers ==
    ASSUME StatisticsType'
    PROVE  InHands' \in Nat /\ InBuckets' \in Nat
  <1>1. \A h \in Handler : handler'[h].batch.count \in Nat
    BY DEF StatisticsType, ProcessType, Process, Batch
  <1>2. PICK f : f = [h \in Handler |-> handler'[h].batch.count]  OBVIOUS
  <1>3. DOMAIN f = Handler /\ (\A h \in Handler : f[h] \in Nat) /\ InHands' = SumFunction(f)
    BY <1>1, <1>2 DEF InHands
  <1>4. PICK b : b = bucket'  OBVIOUS
  <1>5. DOMAIN b = 0..MaxMinute /\ (\A m \in 0..MaxMinute : b[m] \in Nat) /\ InBuckets' = SumFunction(b)
    BY <1>4 DEF StatisticsType, InBuckets
  <1> QED  BY <1>3, <1>5, SumType, FiniteSums DEF SumFunction

\* The terms of the balance are numbers.
LEMMA BalanceNumbers ==
    ASSUME StatisticsType, StatisticsType'
    PROVE  /\ {recorded, repeated, recorded', repeated'} \subseteq Nat
           /\ {counts, closer.batch.count, ticker.batch.count, InHands, InBuckets, dropped} \subseteq Nat
           /\ {counts', closer'.batch.count, ticker'.batch.count, InHands', InBuckets', dropped'} \subseteq Nat
  <1>1. {recorded, repeated, counts, closer.batch.count, ticker.batch.count, dropped} \subseteq Nat
    BY DEF StatisticsType, ScalarType, ProcessType, Batch
  <1>2. {recorded', repeated', counts', closer'.batch.count, ticker'.batch.count, dropped'} \subseteq Nat
    BY DEF StatisticsType, ScalarType, ProcessType, Batch
  <1> QED  BY <1>1, <1>2, SumsAreNumbers, NextNumbers

\* No failure changes its place.
Untouched ==
    /\ \A g \in Handler : handler'[g].batch = handler[g].batch
    /\ ticker'.batch = ticker.batch /\ closer'.batch = closer.batch
    /\ UNCHANGED <<recorded, repeated, counts, bucket, dropped>>

\* Such a step conserves.
LEMMA QuietBatches ==
    ASSUME StatisticsType, StatisticsType', Conserved, Untouched
    PROVE  Conserved'
  <1>1. InHands' = InHands  BY SameHands DEF Untouched
  <1>2. InBuckets' = InBuckets  BY DEF Untouched, InBuckets
  <1> QED  BY <1>1, <1>2, BalanceNumbers, ConservedMeans DEF Untouched, Balance

\* A handler's batch is settled.
LEMMA HandSettled ==
    ASSUME StatisticsType, StatisticsType', Conserved, NEW h \in Handler,
           \A g \in Handler \ {h} : handler'[g].batch = handler[g].batch,
           handler'[h].batch.count = 0, Settled(handler[h].batch.count),
           UNCHANGED <<recorded, repeated, counts, ticker, closer>>
    PROVE  Conserved'
  <1>1. PICK n \in Nat : n = handler[h].batch.count  BY BatchTypes DEF Batch
  <1>2. PICK rest \in Nat : rest = counts + closer.batch.count + ticker.batch.count  BY BalanceNumbers
  <1>3. PICK b \in Nat, d \in Nat, k \in Nat : b = InBuckets /\ d = dropped /\ k = InHands
    BY BalanceNumbers
  <1>4. PICK b1 \in Nat, d1 \in Nat, k1 \in Nat : b1 = InBuckets' /\ d1 = dropped' /\ k1 = InHands'
    BY BalanceNumbers
  <1>5. k1 + n = k
    <2>1. InHands' + handler[h].batch.count = InHands + handler'[h].batch.count  BY OneHand
    <2> QED  BY <1>1, <1>3, <1>4, <2>1
  <1>6. b1 + d1 = b + d + n  BY <1>1, <1>3, <1>4 DEF Settled
  <1>7. rest + k1 + b1 + d1 = rest + k + b + d  BY <1>5, <1>6
  <1>8. Balance' = rest + k1 + b1 + d1 /\ Balance = rest + k + b + d
    BY <1>2, <1>3, <1>4 DEF Balance
  <1> QED  BY <1>7, <1>8, ConservedMeans

\* A failure is counted.
LEMMA OneMore ==
    ASSUME StatisticsType, StatisticsType', Conserved, Balance' = Balance + 1,
           recorded' = recorded + 1, repeated' = repeated
    PROVE  Conserved'
  <1>1. PICK r \in Nat, s \in Nat : r = recorded /\ s = repeated  BY BalanceNumbers
  <1>2. r + s = Balance  BY <1>1, ConservedMeans
  <1>3. (r + 1) + s = (r + s) + 1  BY <1>1
  <1>4. (r + 1) + s = Balance'  BY <1>2, <1>3
  <1> QED  BY <1>1, <1>4, ConservedMeans

\* A batch that stays in hand is in the buckets as well.
LEMMA RepeatSettled ==
    ASSUME StatisticsType, StatisticsType', Conserved, InHands' = InHands,
           NEW n \in Nat, SettledAgain(n), recorded' = recorded,
           counts' + closer'.batch.count + ticker'.batch.count = counts + closer.batch.count + ticker.batch.count
    PROVE  Conserved'
  <1>1. PICK rest \in Nat, k \in Nat :
           rest = counts + closer.batch.count + ticker.batch.count /\ k = InHands
    BY BalanceNumbers
  <1>2. PICK b \in Nat, d \in Nat : b = InBuckets /\ d = dropped  BY BalanceNumbers
  <1>3. PICK b1 \in Nat, d1 \in Nat : b1 = InBuckets' /\ d1 = dropped'  BY BalanceNumbers
  <1>4. PICK r \in Nat, s \in Nat : r = recorded /\ s = repeated  BY BalanceNumbers
  <1>5. b1 + d1 = b + d + n /\ repeated' = s + n
    BY <1>2, <1>3, <1>4 DEF SettledAgain, Settled
  <1>6. Balance = rest + k + b + d /\ Balance' = rest + k + b1 + d1
    BY <1>1, <1>2, <1>3 DEF Balance
  <1>7. r + s = rest + k + b + d  BY <1>4, <1>6, ConservedMeans
  <1>8. r + (s + n) = rest + k + b1 + d1  BY <1>5, <1>7
  <1>9. recorded' + repeated' = Balance'  BY <1>4, <1>5, <1>6, <1>8
  <1> QED  BY <1>9, ConservedMeans

\* Every step moves failures from one place of the balance to another, counts one, or
\* counts a batch again.
LEMMA ConservedStep ==
    ASSUME StatisticsType, StatisticsType', HandsInv, Conserved, [Next]_vars
    PROVE  Conserved'
  <1>1. ASSUME NEW h \in Handler, StartLogin(h) PROVE Conserved'
    BY <1>1, QuietBatches DEF StartLogin, Goto, Untouched, StatisticsType, ProcessType, Process, memory,
       life, count
  <1>2. ASSUME NEW h \in Handler, Succeed(h) PROVE Conserved'
    BY <1>2, QuietBatches DEF Succeed, Goto, Untouched, StatisticsType, ProcessType, Process, memory,
       life, count
  <1>3. ASSUME NEW h \in Handler, ReadClock(h) PROVE Conserved'
    BY <1>3, QuietBatches DEF ReadClock, Become, Untouched, HandsInv, StatisticsType, ProcessType,
       Process, memory, life, count
  <1>4. ASSUME NEW h \in Handler, Enter(h) PROVE Conserved'
    BY <1>4, QuietBatches DEF Enter, Goto, Untouched, StatisticsType, ProcessType, Process, memory,
       life, count
  <1>5. ASSUME NEW h \in Handler, Late(h) PROVE Conserved'
    <2>1. /\ \A g \in Handler \ {h} : handler'[g].batch = handler[g].batch
          /\ handler[h].batch.count = 0 /\ handler'[h].batch.count = 1
      BY <1>5 DEF Late, Become, StatisticsType, ProcessType, Process, HandsInv, None
    <2>2. InHands' + handler[h].batch.count = InHands + handler'[h].batch.count  BY <2>1, OneHand
    <2>3. recorded' = recorded + 1 /\ UNCHANGED <<repeated, counts, ticker, closer, InBuckets, dropped>>
      BY <1>5 DEF Late, Counted, InBuckets, memory
    <2>4. InHands' = InHands + 1  BY <2>1, <2>2, BalanceNumbers
    <2>5. Balance' = Balance + 1  BY <2>3, <2>4, BalanceNumbers DEF Balance
    <2> QED  BY <2>3, <2>5, OneMore
  <1>6. ASSUME NEW h \in Handler, Count(h) PROVE Conserved'
    <2>1. /\ \A g \in Handler \ {h} : handler'[g].batch = handler[g].batch
          /\ handler[h].batch.count = 0
          /\ handler'[h].batch.count + counts' = counts + 1
      <3> DEFINE m == MinuteOf(handler[h].minute)
      <3>1. CASE (minute # 0 /\ m > minute) /\ counts > 0
        <4>1. Become(h, "flushing", m, [minute |-> minute, count |-> counts]) /\ counts' = 1
          BY <1>6, <3>1 DEF Count
        <4> QED  BY <1>6, <4>1 DEF Count, Become, StatisticsType, ProcessType, ScalarType, HandsInv, None
      <3>2. CASE ~((minute # 0 /\ m > minute) /\ counts > 0)
        <4>1. Become(h, "leaving", m, None) /\ counts' = counts + 1
          BY <1>6, <3>2 DEF Count, StatisticsType, ScalarType
        <4> QED  BY <1>6, <4>1 DEF Count, Become, StatisticsType, ProcessType, ScalarType, HandsInv, None
      <3> QED  BY <3>1, <3>2
    <2>2. InHands' + handler[h].batch.count = InHands + handler'[h].batch.count  BY <2>1, OneHand
    <2>3. recorded' = recorded + 1 /\ UNCHANGED <<repeated, ticker, closer, InBuckets, dropped>>
      BY <1>6 DEF Count, Counted, InBuckets
    <2>4. handler'[h].batch.count \in Nat  BY DEF StatisticsType, ProcessType, Process, Batch
    <2>5. Balance' = Balance + 1  BY <2>1, <2>2, <2>3, <2>4, BalanceNumbers DEF Balance
    <2> QED  BY <2>3, <2>5, OneMore
  <1>7. ASSUME NEW h \in Handler, Flush(h) PROVE Conserved'
    <2>1. /\ \A g \in Handler \ {h} : handler'[g].batch = handler[g].batch
          /\ handler'[h].batch.count = 0
      BY <1>7 DEF Flush, Become, StatisticsType, ProcessType, Process, None
    <2>2. UNCHANGED <<recorded, repeated, counts, ticker, closer>>
      BY <1>7 DEF Flush, memory, count
    <2> QED  BY <1>7, <2>1, <2>2, FlushSettles, HandSettled
  <1>8. ASSUME NEW h \in Handler, NEW w \in BOOLEAN, FlushFails(h, w) PROVE Conserved'
    <2>1. \A g \in Handler : handler'[g].batch = handler[g].batch
      BY <1>8 DEF FlushFails, Goto, StatisticsType, ProcessType, Process
    <2>2. InHands' = InHands  BY <2>1, SameHands
    <2>3. PICK n \in Nat : SettledAgain(n)  BY <1>8, BatchTypes, UncertainSettles DEF FlushFails
    <2>4. UNCHANGED <<recorded, counts, ticker, closer>>  BY <1>8 DEF FlushFails, memory
    <2>5. counts' + closer'.batch.count + ticker'.batch.count = counts + closer.batch.count + ticker.batch.count
      BY <2>4, BalanceNumbers
    <2> QED  BY <2>2, <2>3, <2>4, <2>5, RepeatSettled
  <1>9. ASSUME NEW h \in Handler, Requeue(h) PROVE Conserved'
    <2>1. /\ \A g \in Handler \ {h} : handler'[g].batch = handler[g].batch
          /\ handler'[h].batch.count = 0
      BY <1>9 DEF Requeue, Become, StatisticsType, ProcessType, Process, HandsInv, None
    <2>2. InHands' + handler[h].batch.count = InHands + handler'[h].batch.count  BY <2>1, OneHand
    <2>3. /\ counts' = counts + handler[h].batch.count
          /\ UNCHANGED <<recorded, repeated, ticker, closer, InBuckets, dropped>>
      BY <1>9 DEF Requeue, requeue, InBuckets, count
    <2>4. InHands = InHands' + handler[h].batch.count /\ handler[h].batch.count \in Nat
      BY <2>1, <2>2, BalanceNumbers, BatchTypes DEF Batch
    <2>5. Balance' = Balance  BY <2>3, <2>4, BalanceNumbers DEF Balance
    <2> QED  BY <2>3, <2>5, ConservedMeans
  <1>10. ASSUME NEW h \in Handler, Leave(h) PROVE Conserved'
    BY <1>10, QuietBatches DEF Leave, Goto, Untouched, StatisticsType, ProcessType, Process, memory,
       life, count
  <1>11. ASSUME NEW h \in Handler, NEW w \in BOOLEAN, LateFlush(h, w) PROVE Conserved'
    <2>1. /\ \A g \in Handler \ {h} : handler'[g].batch = handler[g].batch
          /\ handler'[h].batch.count = 0
      BY <1>11 DEF LateFlush, Become, StatisticsType, ProcessType, Process, None
    <2>2. UNCHANGED <<recorded, repeated, counts, ticker, closer>>
      BY <1>11 DEF LateFlush, memory, count
    <2> QED  BY <1>11, <2>1, <2>2, LateFlushSettles, HandSettled
  <1>12. ASSUME Tick PROVE Conserved'
    <2>1. \A g \in Handler : handler'[g].batch = handler[g].batch
      BY <1>12 DEF Tick, StatisticsType, ProcessType, Process, HandsInv
    <2>2. InHands' = InHands  BY <2>1, SameHands
    <2>3. /\ UNCHANGED <<recorded, repeated, closer, InBuckets, dropped>>
          /\ counts' = 0 /\ ticker'.batch.count = counts /\ ticker.batch.count = 0
      BY <1>12 DEF Tick, Swap, InBuckets, count, HandsInv, None
    <2> QED  BY <2>2, <2>3, BalanceNumbers, ConservedMeans DEF Balance
  <1>13. ASSUME TickFlush PROVE Conserved'
    <2>1. \A g \in Handler : handler'[g].batch = handler[g].batch
      BY <1>13 DEF TickFlush, StatisticsType, ProcessType, Process, HandsInv
    <2>2. InHands' = InHands  BY <2>1, SameHands
    <2>3. /\ UNCHANGED <<recorded, repeated, closer, counts>> /\ ticker'.batch.count = 0
          /\ InBuckets' + dropped' = InBuckets + dropped + ticker.batch.count
      BY <1>13, TickFlushSettles DEF TickFlush, Settled, memory, count, None
    <2> QED  BY <2>2, <2>3, BalanceNumbers, ConservedMeans DEF Balance
  <1>14. ASSUME NEW w \in BOOLEAN, TickFails(w) PROVE Conserved'
    <2>1. \A g \in Handler : handler'[g].batch = handler[g].batch
      BY <1>14 DEF TickFails, StatisticsType, ProcessType, Process, HandsInv
    <2>2. InHands' = InHands  BY <2>1, SameHands
    <2>3. PICK n \in Nat : SettledAgain(n)  BY <1>14, BatchTypes, UncertainSettles DEF TickFails
    <2>4. /\ UNCHANGED <<recorded, closer>>
          /\ counts' = counts + ticker.batch.count /\ ticker'.batch.count = 0
      BY <1>14 DEF TickFails, requeue, None
    <2>5. counts' + closer'.batch.count + ticker'.batch.count = counts + closer.batch.count + ticker.batch.count
      BY <2>4, BalanceNumbers
    <2> QED  BY <2>2, <2>3, <2>4, <2>5, RepeatSettled
  <1>15. ASSUME SetClosed PROVE Conserved'
    BY <1>15, QuietBatches DEF SetClosed, Untouched, StatisticsType, ProcessType, Process, memory, count
  <1>16. ASSUME CloseStop PROVE Conserved'
    BY <1>16, QuietBatches DEF CloseStop, Untouched, StatisticsType, ProcessType, Process, memory, count
  <1>17. ASSUME TakeRest PROVE Conserved'
    <2>1. \A g \in Handler : handler'[g].batch = handler[g].batch
      BY <1>17 DEF TakeRest, StatisticsType, ProcessType, Process, HandsInv
    <2>2. InHands' = InHands  BY <2>1, SameHands
    <2>3. /\ UNCHANGED <<recorded, repeated, ticker, InBuckets, dropped>>
          /\ counts' = 0 /\ closer'.batch.count = counts /\ closer.batch.count = 0
      BY <1>17 DEF TakeRest, Swap, InBuckets, count, HandsInv, None
    <2> QED  BY <2>2, <2>3, BalanceNumbers, ConservedMeans DEF Balance
  <1>18. ASSUME NEW w \in BOOLEAN, FinalFlush(w) PROVE Conserved'
    <2>1. \A g \in Handler : handler'[g].batch = handler[g].batch
      BY <1>18 DEF FinalFlush, StatisticsType, ProcessType, Process, HandsInv
    <2>2. InHands' = InHands  BY <2>1, SameHands
    <2>3. /\ UNCHANGED <<recorded, repeated, ticker, counts>> /\ closer'.batch.count = 0
          /\ InBuckets' + dropped' = InBuckets + dropped + closer.batch.count
      BY <1>18, FinalFlushSettles DEF FinalFlush, Settled, memory, count, None
    <2> QED  BY <2>2, <2>3, BalanceNumbers, ConservedMeans DEF Balance
  <1>19. ASSUME Shutdown PROVE Conserved'
    BY <1>19, QuietBatches DEF Shutdown, Untouched, StatisticsType, ProcessType, Process, memory, count
  <1>20. ASSUME Exit PROVE Conserved'
    BY <1>20, QuietBatches DEF Exit, Untouched, StatisticsType, ProcessType, Process, memory, count
  <1>21. ASSUME NEW m \in Minute, SetClock(m) PROVE Conserved'
    BY <1>21, QuietBatches DEF SetClock, Untouched, StatisticsType, ProcessType, Process, memory, life,
       count
  <1>22. CASE UNCHANGED vars
    BY <1>22 DEF vars, memory, life, count, Conserved, Held
  <1> QED
    BY <1>1, <1>2, <1>3, <1>4, <1>5, <1>6, <1>7, <1>8, <1>9, <1>10, <1>11, <1>12, <1>13, <1>14, <1>15,
       <1>16, <1>17, <1>18, <1>19, <1>20, <1>21, <1>22 DEF Next, Record, Run, closeAndFlush

\* Every step keeps the invariant.
LEMMA StatisticsStep == StatisticsInv /\ [Next]_vars => StatisticsInv'
  <1> SUFFICES ASSUME StatisticsInv, [Next]_vars PROVE StatisticsInv'
    OBVIOUS
  <1>1. StatisticsType /\ HandsInv /\ CloseInv /\ MinuteInv /\ BoundInv /\ Conserved
    BY DEF StatisticsInv
  <1>2. StatisticsType'  BY <1>1, ProcessTypeStep, FlagTypeStep, ScalarTypeStep DEF StatisticsType
  <1> QED  BY <1>1, <1>2, HandsStep, CloseStep, MinuteStep, BoundStep, ConservedStep DEF StatisticsInv

----------------------------------------------------------------------------
(* Failed-login statistics: the theorems                                   *)

\* Whatever the handlers, the ticker and closeAndFlush do, batches are in hand only
\* while they are written, and the close waits for everyone who has one.
THEOREM StatisticsInvariance == Spec => []StatisticsInv
  BY StatisticsInit, StatisticsStep, PTL DEF Spec

\* record, flush, flushCurrent, requeue and closeAndFlush between them lose no counted
\* failure: it is in memory, in a batch in hand, in a bucket, or was given up.  They
\* count it again only when the commit that wrote its batch reported an error, once
\* for each such commit.
THEOREM StatisticsConserve == Spec => []Conserved
  <1>1. StatisticsInv => Conserved  BY DEF StatisticsInv
  <1> QED  BY <1>1, StatisticsInvariance, PTL

\* Once closeAndFlush has returned, no failed write or late handler has put a batch
\* back where nobody would write it.
THEOREM ClosedServiceIsEmpty == Spec => []NothingLeftBehind
  <1>1. StatisticsInv => NothingLeftBehind
    BY DEF StatisticsInv, HandsInv, CloseInv, NothingLeftBehind, Active, None
  <1> QED  BY <1>1, StatisticsInvariance, PTL

\* Though record reads the clock before its lock and the clock may be set back, no
\* failure is counted in an earlier minute than another before the service is closed.
THEOREM MinutesInOrder == Spec => []OlderOnlyAfterClose
  <1>1. StatisticsInv => OlderOnlyAfterClose
    BY DEF StatisticsInv, StatisticsType, ScalarType, MinuteInv, OlderOnlyAfterClose
  <1> QED  BY <1>1, StatisticsInvariance, PTL

\* Fields and processes are well formed, and no counter exceeds the failures counted
\* and those written again.
THEOREM StatisticsTypeCorrect == Spec => []TypeOK
  <1>1. StatisticsInv => TypeOK
    <2> SUFFICES ASSUME StatisticsInv PROVE TypeOK
      OBVIOUS
    <2>1. StatisticsType /\ HandsInv /\ CloseInv /\ BoundInv /\ Conserved  BY DEF StatisticsInv
    <2>2. recorded <= MaxFailures /\ recorded \in Nat
      BY <2>1, CountingFinite, Numbers DEF BoundInv, StatisticsType, ScalarType
    <2>3. {counts, InBuckets, dropped, InHands, closer.batch.count, ticker.batch.count} \subseteq Nat
      BY <2>1, SumsAreNumbers, BatchTypes DEF StatisticsType, ScalarType, Batch
    <2>4. PICK all \in 0..(MaxFailures + MaxRepeats) : all = recorded + repeated
      BY <2>1, <2>2, Numbers DEF StatisticsType, ScalarType
    <2>5. /\ minute \in 0..MaxMinute /\ repeated \in 0..MaxRepeats
          /\ counts \in 0..(MaxFailures + MaxRepeats) /\ dropped \in 0..(MaxFailures + MaxRepeats)
          /\ InBuckets <= all
      <3>1. all = Balance  BY <2>1, <2>4, ConservedMeans
      <3>2. counts <= all /\ dropped <= all /\ InBuckets <= all  BY <2>3, <3>1 DEF Balance
      <3>3. minute \in 0..MaxMinute /\ repeated \in 0..MaxRepeats
        BY <2>1 DEF StatisticsType, ScalarType
      <3> QED  BY <2>3, <2>4, <3>2, <3>3, Numbers
    <2>6. bucket \in [0..MaxMinute -> 0..(MaxFailures + MaxRepeats)]
      <3>1. bucket \in [0..MaxMinute -> Nat]  BY <2>1 DEF StatisticsType
      <3>2. InBuckets = SumFunctionOnSet(bucket, 0..MaxMinute)  BY <3>1 DEF InBuckets, SumFunction
      <3>3. ASSUME NEW m \in 0..MaxMinute PROVE bucket[m] \in 0..(MaxFailures + MaxRepeats)
        <4>1. bucket[m] <= InBuckets  BY <3>1, <3>2, FiniteSums, SumBounds
        <4> QED  BY <2>3, <2>4, <2>5, <3>1, <4>1, Numbers
      <3> QED  BY <3>1, <3>3
    <2>7. \A h \in Handler : handler[h].batch # None <=> handler[h].pc \in {"flushing", "requeueing", "late"}
      BY <2>1, BatchTypes DEF HandsInv, None
    <2>8. (counts > 0 => minute > 0) /\ (closer.pc = "returned" => ticker.pc = "done" /\ Active = {})
      BY <2>1 DEF HandsInv, CloseInv
    <2> QED  BY <2>5, <2>6, <2>7, <2>8 DEF TypeOK
  <1> QED  BY <1>1, StatisticsInvariance, PTL
=============================================================================
