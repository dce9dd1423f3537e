-------------------------------- MODULE Sums --------------------------------
(***************************************************************************)
(* What SumFunctionOnSet of the community modules computes on a finite     *)
(* set, whatever the function and the set: a sum of its values that does   *)
(* not depend on the order in which the elements are picked.  The models   *)
(* use it for amounts, quantities and the units of holds.                  *)
(***************************************************************************)
EXTENDS Integers, FiniteSetsExt, FiniteSetTheorems, WellFoundedInduction, TLAPS

\* The element the fold takes first.
Pick(T) == CHOOSE x \in T : TRUE

\* The equation of the fold at T.
SumsAt(g, f, T) ==
    g[T] = IF T = {} THEN 0 ELSE f[Pick(T)] + g[T \ {Pick(T)}]

Summable(f, S) == IsFiniteSet(S) /\ \A x \in S : f[x] \in Int

Solves(g, f, S) == \A T \in SUBSET S : SumsAt(g, f, T)

\* The sums over all subsets of S, in one function.
Tabulates(g, f, S) ==
    /\ g \in [SUBSET S -> Int] /\ Solves(g, f, S)
    /\ \A T \in SUBSET S : SumFunctionOnSet(f, T) = g[T]

\* Of the subsets of a finite set that have a property, one is smallest: the
\* induction of the proofs below.
LEMMA SmallestSubset ==
    ASSUME NEW S, IsFiniteSet(S), NEW C, C \subseteq SUBSET S, C # {}
    PROVE  \E T \in C : \A U \in C : U \subseteq T => U = T
<1>1. IsWellFoundedOn(StrictSubsetOrdering(S), FiniteSubsetsOf(S))
  BY FS_StrictSubsetOrderingWellFounded
<1>2. FiniteSubsetsOf(S) = SUBSET S
  BY FS_FiniteSubsetsOfFinite
<1>3. \E T \in C : \A U \in C : <<U, T>> \notin StrictSubsetOrdering(S)
  BY <1>1, <1>2, WFMin
<1> QED
  BY <1>3 DEF StrictSubsetOrdering

\* So it is of the natural numbers.
LEMMA SmallestNumber ==
    ASSUME NEW C, C \subseteq Nat, C # {}
    PROVE  \E n \in C : \A m \in C : ~(m < n)
<1>1. \E n \in C : \A m \in C : <<m, n>> \notin OpToRel(<, Nat)
  BY NatLessThanWellFounded, WFMin
<1> QED
  BY <1>1 DEF OpToRel

\* The fold's equation has a solution on all subsets of a finite set.
LEMMA SolutionExists ==
    ASSUME NEW S, NEW f, Summable(f, S)
    PROVE  \E g \in [SUBSET S -> Int] : Solves(g, f, S)
<1> DEFINE UpTo(n) == \E g \in [SUBSET S -> Int] :
                         \A T \in SUBSET S : Cardinality(T) <= n => SumsAt(g, f, T)
           Bad     == {n \in Nat : ~UpTo(n)}
<1>0. /\ \A T \in SUBSET S : IsFiniteSet(T) /\ Cardinality(T) \in Nat
      /\ \A T \in SUBSET S : Cardinality(T) = 0 => T = {}
      /\ \A T \in SUBSET S : T # {} =>
            /\ Pick(T) \in T /\ f[Pick(T)] \in Int
            /\ T \ {Pick(T)} \in SUBSET S
            /\ Cardinality(T \ {Pick(T)}) = Cardinality(T) - 1
  <2>1. ASSUME NEW T \in SUBSET S
        PROVE  IsFiniteSet(T) /\ Cardinality(T) \in Nat /\ (Cardinality(T) = 0 => T = {})
    BY FS_Subset, FS_CardinalityType, FS_EmptySet DEF Summable
  <2>2. ASSUME NEW T \in SUBSET S, T # {}
        PROVE  /\ Pick(T) \in T /\ f[Pick(T)] \in Int
               /\ T \ {Pick(T)} \in SUBSET S
               /\ Cardinality(T \ {Pick(T)}) = Cardinality(T) - 1
    <3>1. Pick(T) \in T
      BY <2>2 DEF Pick
    <3> QED
      BY <2>1, <3>1, FS_RemoveElement DEF Summable
  <2> QED
    BY <2>1, <2>2
<1>1. UpTo(0)
  <2> DEFINE zero == [T \in SUBSET S |-> 0]
  <2>1. zero \in [SUBSET S -> Int]
    OBVIOUS
  <2>2. \A T \in SUBSET S : Cardinality(T) <= 0 => SumsAt(zero, f, T)
    BY <1>0 DEF SumsAt
  <2> QED
    BY <2>1, <2>2
<1>2. ASSUME NEW n \in Nat, UpTo(n)
      PROVE  UpTo(n + 1)
  <2>1. PICK g \in [SUBSET S -> Int] :
             \A T \in SUBSET S : Cardinality(T) <= n => SumsAt(g, f, T)
    BY <1>2
  <2> DEFINE next == [T \in SUBSET S |->
                        IF T = {} THEN 0 ELSE f[Pick(T)] + g[T \ {Pick(T)}]]
  <2>2. next \in [SUBSET S -> Int]
    BY <1>0
  <2>3. ASSUME NEW T \in SUBSET S, Cardinality(T) <= n
        PROVE  next[T] = g[T]
    BY <2>1, <2>3 DEF SumsAt
  <2>4. ASSUME NEW T \in SUBSET S, Cardinality(T) <= n + 1
        PROVE  SumsAt(next, f, T)
    <3>1. CASE T = {}
      BY <3>1 DEF SumsAt
    <3>2. CASE T # {}
      <4>1. /\ T \ {Pick(T)} \in SUBSET S
            /\ Cardinality(T \ {Pick(T)}) <= n
        BY <1>0, <2>4, <3>2
      <4>2. next[T \ {Pick(T)}] = g[T \ {Pick(T)}]
        BY <2>3, <4>1
      <4>3. next[T] = f[Pick(T)] + g[T \ {Pick(T)}]
        BY <3>2
      <4> HIDE DEF next
      <4> QED
        BY <3>2, <4>2, <4>3 DEF SumsAt
    <3> QED
      BY <3>1, <3>2
  <2> HIDE DEF next
  <2> QED
    BY <2>2, <2>4
<1>3. Bad = {}
  <2> HIDE DEF UpTo
  <2> SUFFICES ASSUME Bad # {}
               PROVE  FALSE
    OBVIOUS
  <2>1. PICK n \in Bad : \A m \in Bad : ~(m < n)
    BY SmallestNumber
  <2>2. n # 0
    BY <1>1, <2>1
  <2>3. n - 1 \in Nat /\ UpTo(n - 1)
    BY <2>1, <2>2
  <2> QED
    BY <1>2, <2>1, <2>3
<1>4. Cardinality(S) \in Nat /\ \A T \in SUBSET S : Cardinality(T) <= Cardinality(S)
  BY <1>0, FS_Subset DEF Summable
<1>5. UpTo(Cardinality(S))
  BY <1>3, <1>4
<1> QED
  BY <1>4, <1>5 DEF Solves

\* And only one.
LEMMA SolutionUnique ==
    ASSUME NEW S, NEW f, NEW g, NEW h, IsFiniteSet(S),
           Solves(g, f, S), Solves(h, f, S)
    PROVE  \A T \in SUBSET S : g[T] = h[T]
<1> DEFINE Bad == {T \in SUBSET S : g[T] # h[T]}
<1> SUFFICES ASSUME Bad # {}
             PROVE  FALSE
  OBVIOUS
<1>1. PICK T \in Bad : \A U \in Bad : U \subseteq T => U = T
  <2>1. Bad \subseteq SUBSET S
    OBVIOUS
  <2> HIDE DEF Bad
  <2> QED
    BY <2>1, SmallestSubset
<1>2. T # {}
  BY <1>1 DEF Solves, SumsAt
<1>3. Pick(T) \in T
  BY <1>2 DEF Pick
<1>4. g[T \ {Pick(T)}] = h[T \ {Pick(T)}]
  BY <1>1, <1>3
<1> QED
  BY <1>1, <1>2, <1>4 DEF Solves, SumsAt

\* That solution is the fold.
LEMMA SumTable ==
    ASSUME NEW S, NEW f, Summable(f, S)
    PROVE  \E g : Tabulates(g, f, S)
<1>1. PICK g \in [SUBSET S -> Int] : Solves(g, f, S)
  BY SolutionExists
<1>2. ASSUME NEW T \in SUBSET S
      PROVE  SumFunctionOnSet(f, T) = g[T]
  <2> DEFINE Body(h, U) == IF U = {} THEN 0
                           ELSE f[CHOOSE x \in U : TRUE]
                                   + h[U \ {CHOOSE x \in U : TRUE}]
             part == [U \in SUBSET T |-> g[U]]
  <2>1. part = [U \in SUBSET T |-> Body(part, U)]
    BY <1>1 DEF Solves, SumsAt, Pick
  <2>2. PICK h : /\ h = [U \in SUBSET T |-> Body(h, U)]
                 /\ SumFunctionOnSet(f, T) = h[T]
    <3> HIDE DEF part
    <3> QED
      BY <2>1 DEF SumFunctionOnSet, FoldFunctionOnSet, MapThenFoldSet
  <2>3. Solves(h, f, T)
    BY <2>2 DEF Solves, SumsAt, Pick
  <2>4. Solves(g, f, T)
    BY <1>1 DEF Solves
  <2>5. IsFiniteSet(T)
    BY FS_Subset DEF Summable
  <2>6. h[T] = g[T]
    BY <2>3, <2>4, <2>5, SolutionUnique
  <2> QED
    BY <2>2, <2>6
<1> QED
  BY <1>1, <1>2 DEF Tabulates

-----------------------------------------------------------------------------
\* A sum of integers is one.
LEMMA SumIsInt ==
    ASSUME NEW S, NEW f, Summable(f, S)
    PROVE  SumFunctionOnSet(f, S) \in Int
<1>1. PICK g : Tabulates(g, f, S)
  BY SumTable
<1>2. S \in SUBSET S
  OBVIOUS
<1> QED
  BY <1>1, <1>2 DEF Tabulates

LEMMA SumOfNone ==
    ASSUME NEW f
    PROVE  SumFunctionOnSet(f, {}) = 0
<1>1. Summable(f, {})
  BY FS_EmptySet DEF Summable
<1> QED
  BY <1>1, SumTable DEF Tabulates, Solves, SumsAt

\* Any element may be taken out first.
LEMMA SumWithout ==
    ASSUME NEW S, NEW f, Summable(f, S), NEW x \in S
    PROVE  SumFunctionOnSet(f, S) = f[x] + SumFunctionOnSet(f, S \ {x})
<1>1. PICK g : Tabulates(g, f, S)
  BY SumTable
<1> DEFINE Bad == {T \in SUBSET S : \E y \in T : g[T] # f[y] + g[T \ {y}]}
<1>2. Bad = {}
  <2> SUFFICES ASSUME Bad # {}
               PROVE  FALSE
    OBVIOUS
  <2>1. PICK T \in Bad : \A U \in Bad : U \subseteq T => U = T
    <3>1. IsFiniteSet(S) /\ Bad \subseteq SUBSET S
      BY DEF Summable
    <3> HIDE DEF Bad
    <3> QED
      BY <3>1, SmallestSubset
  <2>2. PICK y \in T : g[T] # f[y] + g[T \ {y}]
    BY <2>1
  <2> DEFINE c == Pick(T)
  <2>3. c \in T /\ g[T] = f[c] + g[T \ {c}]
    BY <1>1, <2>1, <2>2 DEF Tabulates, Solves, SumsAt, Pick
  <2> HIDE DEF c
  <2>4. c # y
    BY <2>2, <2>3
  <2>5. T \ {c} \in SUBSET S /\ T \ {c} \notin Bad /\ T \ {c} # T
    BY <2>1, <2>3
  <2>6. g[T \ {c}] = f[y] + g[(T \ {c}) \ {y}]
    BY <2>2, <2>4, <2>5
  <2>7. T \ {y} \in SUBSET S /\ T \ {y} \notin Bad /\ T \ {y} # T
    BY <2>1, <2>2
  <2>8. g[T \ {y}] = f[c] + g[(T \ {y}) \ {c}]
    BY <2>3, <2>4, <2>7
  <2>9. (T \ {c}) \ {y} = (T \ {y}) \ {c}
    OBVIOUS
  <2>10. f[c] \in Int /\ f[y] \in Int /\ g[(T \ {c}) \ {y}] \in Int
    BY <1>1, <2>1, <2>2, <2>3 DEF Tabulates, Summable
  <2>11. \A i, j, k \in Int : i + (j + k) = j + (i + k)
    OBVIOUS
  <2>12. f[c] + g[T \ {c}] = f[c] + (f[y] + g[(T \ {c}) \ {y}])
    BY <2>6
  <2>13. f[y] + g[T \ {y}] = f[y] + (f[c] + g[(T \ {c}) \ {y}])
    BY <2>8, <2>9
  <2> QED
    BY <2>2, <2>3, <2>10, <2>11, <2>12, <2>13
<1>3. g[S] = f[x] + g[S \ {x}]
  BY <1>2
<1> QED
  BY <1>1, <1>3 DEF Tabulates

\* One more element adds its value.
LEMMA SumWith ==
    ASSUME NEW S, NEW f, NEW x, x \notin S, Summable(f, S), f[x] \in Int
    PROVE  SumFunctionOnSet(f, S \cup {x}) = SumFunctionOnSet(f, S) + f[x]
<1>1. Summable(f, S \cup {x})
  BY FS_AddElement DEF Summable
<1>2. (S \cup {x}) \ {x} = S
  OBVIOUS
<1>3. SumFunctionOnSet(f, S \cup {x}) = f[x] + SumFunctionOnSet(f, S)
  BY <1>1, <1>2, SumWithout, x \in S \cup {x}
<1> QED
  BY <1>3, SumIsInt

\* The sum depends on the function's values on the set only.
LEMMA SumOfSame ==
    ASSUME NEW S, NEW f, NEW g, Summable(f, S), \A x \in S : f[x] = g[x]
    PROVE  SumFunctionOnSet(f, S) = SumFunctionOnSet(g, S)
<1>1. Summable(g, S)
  BY DEF Summable
<1>2. PICK s : Tabulates(s, f, S)
  BY SumTable
<1>3. PICK t : Tabulates(t, g, S)
  BY <1>1, SumTable
<1>4. Solves(s, f, S) /\ Solves(t, f, S)
  BY <1>2, <1>3 DEF Tabulates, Solves, SumsAt, Pick
<1>5. \A T \in SUBSET S : s[T] = t[T]
  BY <1>4, SolutionUnique DEF Summable
<1> QED
  BY <1>2, <1>3, <1>5 DEF Tabulates

\* A sum of natural numbers is one, and no part of it is larger.
LEMMA SumOfPart ==
    ASSUME NEW S, IsFiniteSet(S), NEW f, \A x \in S : f[x] \in Nat,
           NEW T \in SUBSET S
    PROVE  /\ SumFunctionOnSet(f, T) \in Nat
           /\ SumFunctionOnSet(f, T) <= SumFunctionOnSet(f, S)
<1> DEFINE total(U) == SumFunctionOnSet(f, U)
<1>0. \A U \in SUBSET S : Summable(f, U) /\ total(U) \in Int
  BY FS_Subset, SumIsInt DEF Summable
<1>1. \A U \in SUBSET S : \A x \in U : total(U) = f[x] + total(U \ {x})
  BY <1>0, SumWithout
<1>2. total({}) = 0
  BY SumOfNone
<1> HIDE DEF total
<1>3. \A U \in SUBSET S : total(U) \in Nat
  <2> DEFINE Bad == {U \in SUBSET S : total(U) \notin Nat}
  <2> SUFFICES ASSUME Bad # {}
               PROVE  FALSE
    OBVIOUS
  <2>1. PICK U \in Bad : \A V \in Bad : V \subseteq U => V = U
    <3>1. Bad \subseteq SUBSET S
      OBVIOUS
    <3> HIDE DEF Bad
    <3> QED
      BY <3>1, SmallestSubset
  <2>2. PICK x : x \in U
    <3>1. U # {}
      <4>1. total(U) \notin Nat
        BY <2>1
      <4> QED
        BY <1>2, <4>1
    <3> QED
      BY <3>1
  <2>3. total(U \ {x}) \in Nat
    BY <2>1, <2>2
  <2> QED
    BY <1>1, <2>1, <2>2, <2>3
<1>4. \A U \in SUBSET S : T \subseteq U => total(T) <= total(U)
  <2> DEFINE Bad == {U \in SUBSET S : T \subseteq U /\ ~(total(T) <= total(U))}
  <2> SUFFICES ASSUME Bad # {}
               PROVE  FALSE
    OBVIOUS
  <2>1. PICK U \in Bad : \A V \in Bad : V \subseteq U => V = U
    <3>1. Bad \subseteq SUBSET S
      OBVIOUS
    <3> HIDE DEF Bad
    <3> QED
      BY <3>1, SmallestSubset
  <2>2. PICK x : x \in U /\ x \notin T
    <3>1. U # T
      BY <1>3, <2>1
    <3> QED
      BY <2>1, <3>1
  <2>3. total(T) <= total(U \ {x})
    BY <2>1, <2>2
  <2>4. total(U) = f[x] + total(U \ {x}) /\ f[x] \in Nat /\ total(U \ {x}) \in Nat
    BY <1>1, <1>3, <2>1, <2>2
  <2> QED
    BY <1>3, <2>1, <2>3, <2>4
<1> QED
  BY <1>3, <1>4 DEF total
=============================================================================
