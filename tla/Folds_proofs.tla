---------------------------- MODULE Folds_proofs ----------------------------
(***************************************************************************)
(* Folds over finite sets, as MapThenFoldSet of the community modules      *)
(* defines them: one element after another is taken out and combined with  *)
(* what the fold makes of the rest.  The combination Op is a parameter, so *)
(* that what is proved here holds for every operator a module folds with.  *)
(***************************************************************************)
EXTENDS Integers, FiniteSetTheorems, TLAPS

CONSTANTS
    Op(_, _, _),       \* a context, an element, and the result so far
    Good(_, _)         \* a context, and a result

\* The element a fold takes out next, and what remains.
First(s) == CHOOSE x \in s : TRUE
Rest(s)  == s \ {First(s)}

\* iter is the function the fold over S is computed with.
Defines(iter, c, base, S) ==
    iter = [s \in SUBSET S |-> IF s = {} THEN base ELSE Op(c, First(s), iter[s \ {First(s)}])]

Fold(c, base, S) == (CHOOSE iter : Defines(iter, c, base, S))[S]

(* Induction over the subsets of a finite set: if some are bad, some bad   *)
(* one has no bad strict subset.                                           *)
LEMMA SmallestBadSubset ==
    ASSUME NEW S, IsFiniteSet(S), NEW Bad, Bad \subseteq SUBSET S, Bad # {}
    PROVE  \E T \in Bad : IsFiniteSet(T) /\ \A U \in Bad : U \subseteq T => U = T
<1>1. Bad \subseteq FiniteSubsetsOf(S)
  BY FS_Subset DEF FiniteSubsetsOf
<1>2. \E T \in Bad : \A U \in Bad : ~(<<U, T>> \in StrictSubsetOrdering(S))
  BY <1>1, FS_StrictSubsetOrderingWellFounded, WFMin
<1> QED
  BY <1>1, <1>2, FS_Subset DEF StrictSubsetOrdering, FiniteSubsetsOf

LEMMA RestIsSmaller ==
    ASSUME NEW S, S # {}
    PROVE  First(S) \in S /\ Rest(S) \subseteq S /\ Rest(S) # S
BY DEF First, Rest

(* There is one way to compute a fold: over whatever larger set it is      *)
(* computed, the result is the same.                                       *)
LEMMA FoldsAgree ==
    ASSUME NEW c, NEW base, NEW S, IsFiniteSet(S),
           NEW A, S \subseteq A,
           NEW g, Defines(g, c, base, A), NEW h, Defines(h, c, base, S)
    PROVE  g[S] = h[S]
<1> DEFINE Bad == {T \in SUBSET S : g[T] # h[T]}
<1> SUFFICES ASSUME Bad # {} PROVE FALSE
  OBVIOUS
<1>1. PICK T \in Bad : \A U \in Bad : U \subseteq T => U = T
  <2>1. Bad \subseteq SUBSET S
    OBVIOUS
  <2> HIDE DEF Bad
  <2> QED
    BY <2>1, SmallestBadSubset
<1>2. T \in SUBSET A /\ T \in SUBSET S /\ Rest(T) \in SUBSET S
  BY DEF Rest
<1>3. g[T] = IF T = {} THEN base ELSE Op(c, First(T), g[Rest(T)])
  BY <1>2 DEF Defines, Rest
<1>4. h[T] = IF T = {} THEN base ELSE Op(c, First(T), h[Rest(T)])
  BY <1>2 DEF Defines, Rest
<1>5. T # {} => g[Rest(T)] = h[Rest(T)]
  BY <1>1, <1>2, RestIsSmaller
<1> QED
  BY <1>1, <1>3, <1>4, <1>5

LEMMA TheFold ==
    ASSUME NEW c, NEW base, NEW S, IsFiniteSet(S), NEW A, S \subseteq A,
           NEW g, Defines(g, c, base, A),
           \E h : Defines(h, c, base, S)
    PROVE  Fold(c, base, S) = g[S]
<1> DEFINE h == CHOOSE iter : Defines(iter, c, base, S)
<1>1. Defines(h, c, base, S)
  OBVIOUS
<1> HIDE DEF h
<1>2. h[S] = g[S]
  BY <1>1, FoldsAgree
<1> QED
  BY <1>2 DEF h, Fold

(* The fold over a finite set is defined.                                  *)
LEMMA FoldExists ==
    ASSUME NEW c, NEW base, NEW S, IsFiniteSet(S)
    PROVE  \E g : Defines(g, c, base, S)
<1> DEFINE Bad == {T \in SUBSET S : ~ \E g : Defines(g, c, base, T)}
<1> SUFFICES ASSUME Bad # {} PROVE FALSE
  OBVIOUS
<1>1. PICK T \in Bad : IsFiniteSet(T) /\ \A U \in Bad : U \subseteq T => U = T
  <2>1. Bad \subseteq SUBSET S
    OBVIOUS
  <2> HIDE DEF Bad
  <2> QED
    BY <2>1, SmallestBadSubset
<1>2. ASSUME NEW U \in SUBSET T, U # T PROVE IsFiniteSet(U) /\ \E g : Defines(g, c, base, U)
  BY <1>1, <1>2, FS_Subset
<1> DEFINE g == [s \in SUBSET T |-> IF s = {} THEN base ELSE Op(c, First(s), Fold(c, base, Rest(s)))]
<1>3. ASSUME NEW s \in SUBSET T, s # {} PROVE g[Rest(s)] = Fold(c, base, Rest(s))
  <2> DEFINE t == Rest(s)
  <2>1. t \in SUBSET T /\ t # T
    BY <1>3, RestIsSmaller
  <2>2. PICK h : Defines(h, c, base, t)
    BY <2>1, <1>2
  <2>3. IsFiniteSet(t) /\ Fold(c, base, t) = h[t]
    BY <2>1, <2>2, <1>2, TheFold
  <2>4. h[t] = IF t = {} THEN base ELSE Op(c, First(t), h[Rest(t)])
    BY <2>2 DEF Defines, Rest
  <2>5. t # {} => h[Rest(t)] = Fold(c, base, Rest(t))
    <3> SUFFICES ASSUME t # {} PROVE h[Rest(t)] = Fold(c, base, Rest(t))
      OBVIOUS
    <3>1. Rest(t) \in SUBSET T /\ Rest(t) # T /\ Rest(t) \subseteq t
      BY <2>1, RestIsSmaller
    <3>2. IsFiniteSet(Rest(t)) /\ \E k : Defines(k, c, base, Rest(t))
      BY <3>1, <1>2
    <3> HIDE DEF t
    <3> QED
      BY <3>1, <3>2, <2>2, TheFold
  <2> QED
    BY <2>1, <2>3, <2>4, <2>5
<1>4. Defines(g, c, base, T)
  BY <1>3 DEF Defines, Rest
<1> QED
  BY <1>1, <1>4

-----------------------------------------------------------------------------
(* The equations of a fold: nothing leaves its base, and what is taken out *)
(* first is combined last.                                                 *)
THEOREM FoldOfNothing ==
    ASSUME NEW c, NEW base
    PROVE  Fold(c, base, {}) = base
<1>1. IsFiniteSet({})
  BY FS_EmptySet
<1>2. PICK g : Defines(g, c, base, {})
  BY <1>1, FoldExists
<1>3. Fold(c, base, {}) = g[{}]
  BY <1>1, <1>2, TheFold
<1> QED
  BY <1>2, <1>3 DEF Defines

THEOREM FoldTakesOut ==
    ASSUME NEW c, NEW base, NEW S, IsFiniteSet(S), S # {}
    PROVE  Fold(c, base, S) = Op(c, First(S), Fold(c, base, Rest(S)))
<1>1. PICK g : Defines(g, c, base, S)
  BY FoldExists
<1>2. Fold(c, base, S) = g[S]
  BY <1>1, TheFold
<1>3. IsFiniteSet(Rest(S)) /\ Rest(S) \subseteq S
  BY FS_Subset, RestIsSmaller
<1>4. Fold(c, base, Rest(S)) = g[Rest(S)]
  <2>1. \E h : Defines(h, c, base, Rest(S))
    BY <1>3, FoldExists
  <2> QED
    BY <1>1, <1>3, <2>1, TheFold, Zenon
<1>5. g[S] = Op(c, First(S), g[Rest(S)])
  BY <1>1 DEF Defines, Rest
<1> QED
  BY <1>2, <1>4, <1>5

(* What every combination keeps is true of the fold: the invariant of a    *)
(* loop over a set.                                                        *)
THEOREM FoldKeeps ==
    ASSUME NEW c, NEW base, NEW S, IsFiniteSet(S),
           Good(c, base),
           \A x \in S : \A y : Good(c, y) => Good(c, Op(c, x, y))
    PROVE  Good(c, Fold(c, base, S))
<1> DEFINE Bad == {T \in SUBSET S : ~Good(c, Fold(c, base, T))}
<1>1. ASSUME Bad # {} PROVE FALSE
  <2>1. PICK T \in Bad : IsFiniteSet(T) /\ \A U \in Bad : U \subseteq T => U = T
    <3>1. Bad \subseteq SUBSET S
      OBVIOUS
    <3> HIDE DEF Bad
    <3> QED
      BY <1>1, <3>1, SmallestBadSubset
  <2>2. T # {}
    BY <2>1, FoldOfNothing
  <2>3. First(T) \in S /\ Rest(T) \in SUBSET S /\ Good(c, Fold(c, base, Rest(T)))
    BY <2>1, <2>2, RestIsSmaller
  <2>4. Fold(c, base, T) = Op(c, First(T), Fold(c, base, Rest(T)))
    BY <2>1, <2>2, FoldTakesOut
  <2> QED
    BY <2>1, <2>3, <2>4
<1> QED
  BY <1>1
-----------------------------------------------------------------------------
(* Sums: folds that add a value of the context for each element.           *)
Adds        == \A f, x, y : Op(f, x, y) = f[x] + y
Total(f, S) == Fold(f, 0, S)
Natural(f, S) == \A x \in S : f[x] \in Nat

LEMMA TotalOfNothing == \A f : Total(f, {}) = 0
BY FoldOfNothing DEF Total

(* Any element can be taken out as well as the first.                      *)
LEMMA TotalTakesOut ==
    ASSUME Adds, NEW f, NEW S, IsFiniteSet(S), Natural(f, S)
    PROVE  /\ Total(f, S) \in Nat
           /\ \A a \in S : Total(f, S) = f[a] + Total(f, S \ {a})
<1> DEFINE Fine(T) == /\ Total(f, T) \in Nat
                      /\ \A a \in T : Total(f, T) = f[a] + Total(f, T \ {a})
           Bad == {T \in SUBSET S : ~Fine(T)}
<1> SUFFICES ASSUME Bad # {} PROVE FALSE
  OBVIOUS
<1>1. PICK T \in Bad : IsFiniteSet(T) /\ \A U \in Bad : U \subseteq T => U = T
  <2>1. Bad \subseteq SUBSET S
    OBVIOUS
  <2> HIDE DEF Bad
  <2> QED
    BY <2>1, SmallestBadSubset
<1>2. \A U \in SUBSET T : U # T => Fine(U)
  BY <1>1
<1>3. T # {}
  <2> SUFFICES ASSUME T = {} PROVE Fine({})
    BY <1>1
  <2> QED
    BY TotalOfNothing
<1> DEFINE c == First(T)
<1>4. c \in T /\ Rest(T) = T \ {c}
  BY <1>3, RestIsSmaller DEF Rest
<1>5. Total(f, T) = f[c] + Total(f, T \ {c})
  <2>1. Fold(f, 0, T) = Op(f, c, Fold(f, 0, T \ {c}))
    <3>1. Fold(f, 0, T) = Op(f, c, Fold(f, 0, Rest(T)))
      BY <1>1, <1>3, FoldTakesOut
    <3> QED
      BY <3>1 DEF Rest
  <2> QED
    BY <2>1 DEF Adds, Total
<1> HIDE DEF c
<1>6. Total(f, T \ {c}) \in Nat /\ f[c] \in Nat
  BY <1>2, <1>4 DEF Natural
<1>7. ASSUME NEW a \in T, a # c PROVE Total(f, T) = f[a] + Total(f, T \ {a})
  <2>1. Fine(T \ {c}) /\ Fine(T \ {a}) /\ Fine((T \ {a}) \ {c})
    BY <1>2, <1>4, <1>7
  <2>2. Total(f, T \ {c}) = f[a] + Total(f, (T \ {c}) \ {a})
    BY <2>1, <1>7
  <2>3. Total(f, T \ {a}) = f[c] + Total(f, (T \ {a}) \ {c})
    BY <2>1, <1>4, <1>7
  <2>4. Total(f, (T \ {c}) \ {a}) = Total(f, (T \ {a}) \ {c})
    <3>1. (T \ {c}) \ {a} = (T \ {a}) \ {c}
      OBVIOUS
    <3> QED
      BY <3>1
  <2>5. f[a] \in Nat /\ Total(f, (T \ {a}) \ {c}) \in Nat
    BY <2>1, <1>1 DEF Natural
  <2>6. ASSUME NEW t, NEW tc, NEW ta, NEW tac \in Nat, NEW fa \in Nat, NEW fc \in Nat,
               t = fc + tc, tc = fa + tac, ta = fc + tac
        PROVE  t = fa + ta
    BY <2>6
  <2> QED
    BY <1>5, <1>6, <2>2, <2>3, <2>4, <2>5, <2>6
<1>8. Fine(T)
  BY <1>4, <1>5, <1>6, <1>7
<1> QED
  BY <1>1, <1>8

(* A sum of nowhere greater values is not greater.                         *)
LEMMA TotalsCompare ==
    ASSUME Adds, NEW f, NEW g, NEW S, IsFiniteSet(S), Natural(f, S), Natural(g, S),
           \A x \in S : g[x] <= f[x]
    PROVE  Total(g, S) <= Total(f, S)
<1> DEFINE Bad == {T \in SUBSET S : ~(Total(g, T) <= Total(f, T))}
<1> SUFFICES ASSUME Bad # {} PROVE FALSE
  OBVIOUS
<1>1. PICK T \in Bad : IsFiniteSet(T) /\ \A U \in Bad : U \subseteq T => U = T
  <2>1. Bad \subseteq SUBSET S
    OBVIOUS
  <2> HIDE DEF Bad
  <2> QED
    BY <2>1, SmallestBadSubset
<1>2. T # {}
  <2>1. ASSUME T = {} PROVE Total(g, T) = 0 /\ Total(f, T) = 0
    BY <2>1, TotalOfNothing
  <2> QED
    BY <1>1, <2>1
<1>3. PICK a \in T : TRUE
  BY <1>2
<1>4. Natural(f, T) /\ Natural(g, T) /\ a \in S
  BY DEF Natural
<1>5. /\ Total(f, T) = f[a] + Total(f, T \ {a})
      /\ Total(g, T) = g[a] + Total(g, T \ {a})
  BY <1>1, <1>3, <1>4, TotalTakesOut
<1>6. Total(g, T \ {a}) <= Total(f, T \ {a})
  BY <1>1, <1>3
<1>7. Total(f, T \ {a}) \in Nat /\ Total(g, T \ {a}) \in Nat
  <2>1. IsFiniteSet(T \ {a}) /\ Natural(f, T \ {a}) /\ Natural(g, T \ {a})
    BY <1>1, <1>4, FS_Subset DEF Natural
  <2> QED
    BY <2>1, TotalTakesOut
<1>8. f[a] \in Nat /\ g[a] \in Nat /\ g[a] <= f[a]
  BY <1>4 DEF Natural
<1>9. Total(g, T) <= Total(f, T)
  BY <1>5, <1>6, <1>7, <1>8
<1> QED
  BY <1>1, <1>9

(* Values that changed in one element only change the sum as much.         *)
THEOREM TotalsDiffer ==
    ASSUME Adds, NEW f, NEW g, NEW S, IsFiniteSet(S), Natural(f, S), Natural(g, S),
           NEW a \in S, \A x \in S \ {a} : g[x] <= f[x]
    PROVE  /\ Total(f, S) \in Nat /\ Total(g, S) \in Nat /\ f[a] <= Total(f, S)
           /\ Total(g, S) <= Total(f, S) - f[a] + g[a]
<1>1. IsFiniteSet(S \ {a}) /\ Natural(f, S \ {a}) /\ Natural(g, S \ {a})
  BY FS_Subset DEF Natural
<1>2. /\ Total(f, S \ {a}) \in Nat /\ Total(g, S \ {a}) \in Nat
      /\ Total(g, S \ {a}) <= Total(f, S \ {a})
  BY <1>1, TotalTakesOut, TotalsCompare
<1>3. /\ Total(f, S) \in Nat /\ Total(f, S) = f[a] + Total(f, S \ {a})
      /\ Total(g, S) \in Nat /\ Total(g, S) = g[a] + Total(g, S \ {a})
  BY TotalTakesOut
<1>4. f[a] \in Nat /\ g[a] \in Nat
  BY DEF Natural
<1> QED
  BY <1>2, <1>3, <1>4

(* A sum of bounded values.                                                *)
LEMMA Multiples == \A k \in Nat, n \in Nat : k * (n + 1) = k * n + k
OBVIOUS

THEOREM TotalIsBounded ==
    ASSUME Adds, NEW f, NEW S, IsFiniteSet(S), Natural(f, S),
           NEW k \in Nat, \A x \in S : f[x] <= k
    PROVE  Total(f, S) <= k * Cardinality(S)
<1> DEFINE Bad == {T \in SUBSET S : ~(Total(f, T) <= k * Cardinality(T))}
<1> SUFFICES ASSUME Bad # {} PROVE FALSE
  OBVIOUS
<1>1. PICK T \in Bad : IsFiniteSet(T) /\ \A U \in Bad : U \subseteq T => U = T
  <2>1. Bad \subseteq SUBSET S
    OBVIOUS
  <2> HIDE DEF Bad
  <2> QED
    BY <2>1, SmallestBadSubset
<1>2. T # {}
  <2>1. ASSUME T = {} PROVE Total(f, T) = 0 /\ Cardinality(T) = 0
    BY <2>1, TotalOfNothing, FS_EmptySet
  <2>2. k * 0 = 0
    OBVIOUS
  <2> QED
    BY <1>1, <2>1, <2>2
<1>3. PICK a \in T : TRUE
  BY <1>2
<1>4. Natural(f, T) /\ f[a] \in Nat /\ f[a] <= k
  BY DEF Natural
<1>5. Total(f, T) = f[a] + Total(f, T \ {a})
  BY <1>1, <1>3, <1>4, TotalTakesOut
<1>6. /\ IsFiniteSet(T \ {a}) /\ Cardinality(T \ {a}) \in Nat
      /\ Cardinality(T) = Cardinality(T \ {a}) + 1
  <2>1. IsFiniteSet(T \ {a}) /\ Cardinality(T \ {a}) = Cardinality(T) - 1
    BY <1>1, <1>3, FS_RemoveElement
  <2>2. Cardinality(T) \in Nat /\ Cardinality(T \ {a}) \in Nat
    BY <1>1, <2>1, FS_CardinalityType
  <2> QED
    BY <2>1, <2>2
<1>7. Total(f, T \ {a}) <= k * Cardinality(T \ {a}) /\ Total(f, T \ {a}) \in Nat
  <2>1. Natural(f, T \ {a})
    BY <1>4 DEF Natural
  <2> QED
    BY <1>1, <1>3, <1>6, <2>1, TotalTakesOut
<1>8. k * Cardinality(T) = k * Cardinality(T \ {a}) + k /\ k * Cardinality(T \ {a}) \in Nat
  BY <1>6, Multiples
<1>9. Total(f, T) <= k * Cardinality(T)
  BY <1>4, <1>5, <1>7, <1>8
<1> QED
  BY <1>1, <1>9
=============================================================================
