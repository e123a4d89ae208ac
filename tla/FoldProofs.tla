----------------------------- MODULE FoldProofs -----------------------------
(* What a fold keeps: lemmas without operator parameters, for the folds of   *)
(* the community modules over finite sets and sequences.  A proof about one  *)
(* fold takes two steps from here: that the function which MapThenFoldSet    *)
(* names exists (a ...Exists lemma), and that its results stay in a set that *)
(* every step keeps (a ...Kept lemma).                                       *)
EXTENDS Naturals, FiniteSets, SequencesExt, FiniteSetTheorems, WellFoundedInduction, TLAPS

\* Induction over the natural numbers, for a set of them.
LEMMA Induct ==
  ASSUME NEW X, 0 \in X, \A n \in Nat : n \in X => n + 1 \in X
  PROVE  Nat \subseteq X
<1> SUFFICES ASSUME NEW n \in Nat, n \notin X PROVE FALSE OBVIOUS
<1>1. PICK k \in Nat \ X : \A j \in Nat \ X : <<j, k>> \notin OpToRel(<, Nat)
  BY NatLessThanWellFounded, WFMin, Nat \ X # {}, Nat \ X \subseteq Nat
<1>2. k - 1 \in Nat BY k # 0
<1>3. <<k - 1, k>> \in OpToRel(<, Nat) BY <1>2 DEF OpToRel
<1>4. (k - 1) + 1 = k OBVIOUS
<1> QED BY <1>1, <1>2, <1>3, <1>4

-----------------------------------------------------------------------------
(* Folds over a finite set T that take its elements in the order of choose,  *)
(* a function on the subsets of T; step[x][y] takes x, y the result so far.  *)

Chooses(T, choose) == IsFiniteSet(T) /\ \A u \in SUBSET T : u # {} => choose[u] \in u
Folded(f, T, choose, S, base, step) ==
  /\ f \in [SUBSET T -> S]
  /\ \A u \in SUBSET T : f[u] = IF u = {} THEN base ELSE step[choose[u]][f[u \ {choose[u]}]]

LEMMA Smaller ==
  ASSUME NEW T, NEW choose, Chooses(T, choose)
  PROVE  /\ \A u \in SUBSET T : /\ IsFiniteSet(u) /\ Cardinality(u) \in Nat
                                /\ Cardinality(u) <= Cardinality(T)
                                /\ (Cardinality(u) = 0 <=> u = {})
         /\ \A u \in SUBSET T : u # {} => /\ u \ {choose[u]} \in SUBSET T
                                          /\ Cardinality(u \ {choose[u]}) = Cardinality(u) - 1
<1>1. \A u \in SUBSET T : IsFiniteSet(u) /\ Cardinality(u) \in Nat /\ Cardinality(u) <= Cardinality(T)
                          /\ (Cardinality(u) = 0 <=> u = {})
  BY FS_Subset, FS_CardinalityType, FS_EmptySet DEF Chooses
<1>2. \A u \in SUBSET T : u # {} => /\ u \ {choose[u]} \in SUBSET T
                                    /\ Cardinality(u \ {choose[u]}) = Cardinality(u) - 1
  BY <1>1, FS_RemoveElement DEF Chooses
<1> QED BY <1>1, <1>2

\* The function of the fold exists, and its results are in S if every step
\* keeps S.
LEMMA FoldExists ==
  ASSUME NEW T, NEW choose, Chooses(T, choose),
         NEW S, NEW base \in S, NEW step, \A x \in S, i \in T : step[i][x] \in S
  PROVE  \E f : Folded(f, T, choose, S, base, step)
<1> DEFINE Small(n) == {u \in SUBSET T : Cardinality(u) <= n}
           Rec(f, n) == \A u \in Small(n) : 
             f[u] = IF u = {} THEN base ELSE step[choose[u]][f[u \ {choose[u]}]]
           X == {n \in Nat : \E f \in [Small(n) -> S] : Rec(f, n)}
<1>1. \A u \in SUBSET T : IsFiniteSet(u) /\ Cardinality(u) \in Nat /\ Cardinality(u) <= Cardinality(T)
                          /\ (Cardinality(u) = 0 <=> u = {})
  BY Smaller
<1>2. \A u \in SUBSET T : u # {} => /\ u \ {choose[u]} \in SUBSET T /\ choose[u] \in T
                                    /\ Cardinality(u \ {choose[u]}) = Cardinality(u) - 1
  BY Smaller DEF Chooses
<1>3. \A u \in Small(0) : u = {}
  <2> SUFFICES ASSUME NEW u \in Small(0) PROVE u = {} OBVIOUS
  <2>1. Cardinality(u) \in Nat /\ Cardinality(u) <= 0 BY <1>1
  <2>2. Cardinality(u) = 0 BY <2>1
  <2> QED BY <1>1, <2>2
<1>4. 0 \in X
  <2> DEFINE f == [u \in Small(0) |-> base]
  <2>1. f \in [Small(0) -> S] OBVIOUS
  <2>2. Rec(f, 0) BY <1>3
  <2> QED BY <2>1, <2>2
<1>5. ASSUME NEW n \in Nat
      PROVE  /\ \A u \in Small(n) : u \in Small(n + 1)
             /\ \A u \in Small(n + 1) : u # {} => u \ {choose[u]} \in Small(n)
  <2>1. ASSUME NEW u \in Small(n) PROVE u \in Small(n + 1)
    <3>1. u \in SUBSET T /\ Cardinality(u) \in Nat /\ Cardinality(u) <= n BY <1>1
    <3>2. Cardinality(u) <= n + 1 BY <3>1
    <3> QED BY <3>1, <3>2
  <2>2. ASSUME NEW u \in Small(n + 1), u # {} PROVE u \ {choose[u]} \in Small(n)
    <3>1. Cardinality(u) \in Nat /\ Cardinality(u) <= n + 1 BY <1>1
    <3>2. Cardinality(u \ {choose[u]}) = Cardinality(u) - 1 BY <1>2, <2>2
    <3>3. Cardinality(u) - 1 <= n BY <3>1
    <3>4. Cardinality(u \ {choose[u]}) <= n BY <3>2, <3>3
    <3> QED BY <1>2, <2>2, <3>4
  <2> QED BY <2>1, <2>2
<1>6. ASSUME NEW n \in Nat, n \in X PROVE n + 1 \in X
  <2>1. PICK g \in [Small(n) -> S] : Rec(g, n) BY <1>6
  <2> HIDE DEF Small
  <2> DEFINE f == [u \in Small(n + 1) |->
                     IF u = {} THEN base ELSE step[choose[u]][g[u \ {choose[u]}]]]
  <2>2. \A u \in Small(n + 1) : u \in SUBSET T BY DEF Small
  <2>3. \A u \in Small(n) : f[u] = g[u] BY <2>1, <1>5
  <2>4. f \in [Small(n + 1) -> S]
    <3> SUFFICES ASSUME NEW u \in Small(n + 1), u # {}
                 PROVE  step[choose[u]][g[u \ {choose[u]}]] \in S
      OBVIOUS
    <3>1. choose[u] \in T BY <1>2, <2>2
    <3> QED BY <1>5, <3>1
  <2>5. Rec(f, n + 1)
    <3> SUFFICES ASSUME NEW u \in Small(n + 1)
                 PROVE  f[u] = IF u = {} THEN base ELSE step[choose[u]][f[u \ {choose[u]}]]
      OBVIOUS
    <3>1. u # {} => f[u \ {choose[u]}] = g[u \ {choose[u]}] BY <1>5, <2>3
    <3> QED BY <3>1
  <2> HIDE DEF f, Rec
  <2> QED BY <2>4, <2>5
<1>7. Cardinality(T) \in X
  <2> HIDE DEF X
  <2> QED BY <1>1, <1>4, <1>6, Induct
<1>8. PICK f \in [Small(Cardinality(T)) -> S] : Rec(f, Cardinality(T)) BY <1>7
<1>9. Small(Cardinality(T)) = SUBSET T BY <1>1
<1>10. f = [u \in SUBSET T |-> f[u]] /\ f \in [SUBSET T -> S] BY <1>8, <1>9
<1>11. \A u \in SUBSET T : f[u] = IF u = {} THEN base ELSE step[choose[u]][f[u \ {choose[u]}]]
  BY <1>8, <1>9
<1> QED BY <1>10, <1>11 DEF Folded

\* What holds of no element, and of a set when it holds without the element
\* that is taken last, holds of T.
LEMMA FoldReaches ==
  ASSUME NEW T, NEW choose, Chooses(T, choose), NEW K, {} \in K,
         \A u \in SUBSET T : u # {} /\ u \ {choose[u]} \in K => u \in K
  PROVE  T \in K
<1> DEFINE X == {n \in Nat : \A u \in SUBSET T : Cardinality(u) = n => u \in K}
<1>1. \A u \in SUBSET T : Cardinality(u) \in Nat /\ (Cardinality(u) = 0 <=> u = {}) BY Smaller
<1>2. \A u \in SUBSET T : u # {} => /\ u \ {choose[u]} \in SUBSET T
                                    /\ Cardinality(u \ {choose[u]}) = Cardinality(u) - 1
  BY Smaller
<1>3. 0 \in X BY <1>1
<1>4. ASSUME NEW n \in Nat, n \in X PROVE n + 1 \in X
  <2> SUFFICES ASSUME NEW u \in SUBSET T, Cardinality(u) = n + 1 PROVE u \in K OBVIOUS
  <2>1. u # {} BY <1>1
  <2>2. Cardinality(u \ {choose[u]}) = n BY <1>2, <2>1
  <2> QED BY <1>2, <1>4, <2>1, <2>2
<1>5. Nat \subseteq X
  <2> HIDE DEF X
  <2> QED BY <1>3, <1>4, Induct
<1> QED BY <1>1, <1>5

-----------------------------------------------------------------------------
(* FoldLeft takes the last element of a sequence last, FoldSet any element.  *)

Latest(T) == [u \in SUBSET T |-> Max(u)]
AnyOf(T) == [u \in SUBSET T |-> CHOOSE x \in u : TRUE]

LEMMA LastElement ==
  ASSUME NEW N \in Nat, NEW u \in SUBSET (1..N), u # {}
  PROVE  Max(u) \in u
<1> DEFINE X == {n \in Nat : u \cap (1..n) # {} =>
                    \E x \in u \cap (1..n) : \A y \in u \cap (1..n) : x >= y}
<1>1. 0 \in X OBVIOUS
<1>2. ASSUME NEW n \in Nat, n \in X PROVE n + 1 \in X
  <2> SUFFICES ASSUME u \cap (1..n + 1) # {}
               PROVE  \E x \in u \cap (1..n + 1) : \A y \in u \cap (1..n + 1) : x >= y
    OBVIOUS
  <2>1. CASE n + 1 \in u BY <2>1
  <2>2. CASE n + 1 \notin u
    <3>1. u \cap (1..n + 1) = u \cap (1..n) BY <2>2
    <3> QED BY <1>2, <3>1
  <2> QED BY <2>1, <2>2
<1>3. N \in X
  <2> HIDE DEF X
  <2> QED BY <1>1, <1>2, Induct
<1>4. \E x \in u : \A y \in u : x >= y
  <2>1. u \cap (1..N) = u OBVIOUS
  <2> QED BY <1>3, <2>1
<1> QED BY <1>4 DEF Max

LEMMA LatestChooses ==
  ASSUME NEW os, NEW N \in Nat, DOMAIN os = 1..N
  PROVE  /\ Chooses(DOMAIN os, Latest(DOMAIN os))
         /\ \A u \in SUBSET DOMAIN os : u # {} => Max(u) \in DOMAIN os
<1>1. IsFiniteSet(DOMAIN os) BY FS_Interval
<1>2. \A u \in SUBSET DOMAIN os : u # {} => Max(u) \in u BY LastElement
<1> QED BY <1>1, <1>2 DEF Chooses, Latest

LEMMA SequenceFoldExists ==
  ASSUME NEW os, NEW N \in Nat, DOMAIN os = 1..N,
         NEW S, NEW base \in S, NEW step, \A i \in DOMAIN os, x \in S : step[i][x] \in S
  PROVE  \E f : Folded(f, DOMAIN os, Latest(DOMAIN os), S, base, step)
BY LatestChooses, FoldExists

LEMMA SequenceFoldReaches ==
  ASSUME NEW os, NEW N \in Nat, DOMAIN os = 1..N, NEW K, {} \in K,
         \A u \in SUBSET DOMAIN os : u # {} /\ u \ {Max(u)} \in K => u \in K
  PROVE  DOMAIN os \in K
<1>1. \A u \in SUBSET DOMAIN os : u # {} /\ u \ {Latest(DOMAIN os)[u]} \in K => u \in K BY DEF Latest
<1> QED BY <1>1, LatestChooses, FoldReaches

LEMMA SequenceFoldKept ==
  ASSUME NEW os, NEW N \in Nat, DOMAIN os = 1..N, NEW S, NEW f, f[{}] \in S,
         \A u \in SUBSET DOMAIN os : u # {} /\ f[u \ {Max(u)}] \in S => f[u] \in S
  PROVE  f[DOMAIN os] \in S
<1> DEFINE K == {u \in SUBSET DOMAIN os : f[u] \in S}
<1>1. {} \in K OBVIOUS
<1>2. \A u \in SUBSET DOMAIN os : u # {} /\ u \ {Max(u)} \in K => u \in K OBVIOUS
<1> HIDE DEF K
<1>3. DOMAIN os \in K BY <1>1, <1>2, SequenceFoldReaches
<1> QED BY <1>3 DEF K

LEMMA SetFoldExists ==
  ASSUME NEW T, IsFiniteSet(T),
         NEW S, NEW base \in S, NEW step, \A i \in T, x \in S : step[i][x] \in S
  PROVE  \E f : Folded(f, T, AnyOf(T), S, base, step)
<1>1. Chooses(T, AnyOf(T)) BY DEF Chooses, AnyOf
<1> QED BY <1>1, FoldExists

LEMMA SetFoldKept ==
  ASSUME NEW T, IsFiniteSet(T), NEW S, NEW f, f[{}] \in S,
         \A u \in SUBSET T : u # {} /\ f[u \ {CHOOSE x \in u : TRUE}] \in S => f[u] \in S
  PROVE  f[T] \in S
<1> DEFINE K == {u \in SUBSET T : f[u] \in S}
<1>1. Chooses(T, AnyOf(T)) BY DEF Chooses, AnyOf
<1>2. {} \in K OBVIOUS
<1>3. \A u \in SUBSET T : u # {} /\ u \ {AnyOf(T)[u]} \in K => u \in K BY DEF AnyOf
<1> HIDE DEF K
<1>4. T \in K BY <1>1, <1>2, <1>3, FoldReaches
<1> QED BY <1>4 DEF K
=============================================================================
