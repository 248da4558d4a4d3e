---------------------------- MODULE FiguresProofs ----------------------------
(***************************************************************************)
(* What figures add up to, for any number of rows, platforms and days.     *)
(* First, what the sum of a function over a finite set is: the fold that   *)
(* defines it exists, takes its elements in any order, splits over parts   *)
(* and groups, and grows with what is added.  Then the money of budget     *)
(* experiments, and the dashboards over the daily metrics.                 *)
(***************************************************************************)
EXTENDS Experiments, Figures, FiniteSetTheorems, TLAPS

-----------------------------------------------------------------------------
(* Induction, in a form that needs no predicate: G is the set of those for   *)
(* which the claim holds.                                                    *)

\* Of a finite set: every subset is in G if its proper subsets are.
LEMMA SubsetInduction ==
  ASSUME NEW S, IsFiniteSet(S), NEW G,
         \A T \in SUBSET S : (\A U \in SUBSET T : U # T => U \in G) => T \in G
  PROVE  \A T \in SUBSET S : T \in G
<1>1. SUFFICES ASSUME NEW V \in SUBSET S, V \notin G PROVE FALSE
  OBVIOUS
<1> DEFINE B == {T \in SUBSET S : T \notin G}
<1>2. IsWellFoundedOn(StrictSubsetOrdering(S), SUBSET S)
  BY FS_StrictSubsetOrderingWellFounded, FS_FiniteSubsetsOfFinite
<1>3. B \subseteq SUBSET S /\ B # {}
  BY <1>1
<1>4. PICK T \in B : \A U \in B : <<U, T>> \notin StrictSubsetOrdering(S)
  BY ONLY <1>2, <1>3, WFMin
<1>5. ASSUME NEW U \in SUBSET T, U # T
      PROVE  U \in G
  BY <1>4, <1>5 DEF StrictSubsetOrdering
<1>6. QED
  BY <1>4, <1>5

\* Of the natural numbers.
LEMMA NumberInduction ==
  ASSUME NEW G, 0 \in G, \A n \in Nat : n \in G => n + 1 \in G
  PROVE  Nat \subseteq G
<1>1. SUFFICES ASSUME NEW m \in Nat, m \notin G PROVE FALSE
  OBVIOUS
<1> DEFINE B == {0 .. (n - 1) : n \in Nat \ G}
<1>2. IsWellFoundedOn(StrictSubsetOrdering(Nat), FiniteSubsetsOf(Nat))
  BY FS_StrictSubsetOrderingWellFounded
<1>3. B \subseteq FiniteSubsetsOf(Nat) /\ B # {}
  <2>1. \A n \in Nat : 0 .. (n - 1) \subseteq Nat /\ IsFiniteSet(0 .. (n - 1))
    BY FS_Interval
  <2>2. 0 .. (m - 1) \in B
    BY <1>1
  <2>3. QED
    BY <2>1, <2>2 DEF FiniteSubsetsOf
<1>4. PICK T \in B : \A U \in B : <<U, T>> \notin StrictSubsetOrdering(Nat)
  BY ONLY <1>2, <1>3, WFMin
<1>5. PICK n \in Nat \ G : T = 0 .. (n - 1)
  BY <1>4
<1>6. n - 1 \in Nat /\ n - 1 \notin G
  <2>1. n # 0 /\ n - 1 \in Nat
    BY <1>5
  <2>2. n - 1 \in G => n - 1 + 1 \in G
    BY <2>1
  <2>3. QED
    BY <2>1, <2>2, <1>5
<1>7. 0 .. (n - 1 - 1) \in B
  BY <1>6
<1>8. 0 .. (n - 1 - 1) \subseteq T /\ 0 .. (n - 1 - 1) # T
  <2>1. n - 1 \in T /\ n - 1 \notin 0 .. (n - 1 - 1)
    BY <1>5, <1>6
  <2>2. QED
    BY <2>1, <1>5, <1>6
<1>9. <<0 .. (n - 1 - 1), T>> \in StrictSubsetOrdering(Nat)
  BY <1>8, <1>5, <1>6 DEF StrictSubsetOrdering
<1>10. QED
  BY <1>4, <1>7, <1>9

-----------------------------------------------------------------------------
(* Folds.  SumFunctionOnSet(f, S) is a recursive function on the subsets of  *)
(* S: first that there is one, for any combination h of an element and of    *)
(* what the others come to.                                                  *)

\* The element a fold takes out of s.
Chosen(s) == CHOOSE x \in s : TRUE

\* g is the fold over every subset of S.
IsFold(g, base, h, S) ==
  g = [s \in SUBSET S |-> IF s = {} THEN base ELSE h[Chosen(s)][g[s \ {Chosen(s)}]]]

LEMMA ChosenIsIn == \A s : s # {} => Chosen(s) \in s
  BY DEF Chosen

LEMMA LessChosen ==
  ASSUME NEW s, IsFiniteSet(s), s # {}
  PROVE  /\ IsFiniteSet(s \ {Chosen(s)})
         /\ Cardinality(s \ {Chosen(s)}) = Cardinality(s) - 1
  BY FS_RemoveElement, ChosenIsIn

LEMMA FoldExists ==
  ASSUME NEW S, IsFiniteSet(S), NEW base, NEW h
  PROVE  \E g : IsFold(g, base, h, S)
<1> DEFINE Right(g, n) == \A s \in SUBSET S : Cardinality(s) <= n =>
                            g[s] = IF s = {} THEN base ELSE h[Chosen(s)][g[s \ {Chosen(s)}]]
           Longer(g) == [s \in SUBSET S |->
                           IF s = {} THEN base ELSE h[Chosen(s)][g[s \ {Chosen(s)}]]]
           G == {n \in Nat : \E g : Right(g, n)}
<1>1. \A s \in SUBSET S : IsFiniteSet(s) /\ Cardinality(s) \in Nat
  BY FS_Subset, FS_CardinalityType
<1>2. \A s \in SUBSET S : s # {} =>
         s \ {Chosen(s)} \in SUBSET S /\ Cardinality(s \ {Chosen(s)}) = Cardinality(s) - 1
  BY <1>1, LessChosen
<1>3. 0 \in G
  <2>1. Right([s \in SUBSET S |-> base], 0)
    BY <1>1, FS_EmptySet
  <2>2. QED
    BY <2>1
<1>4. ASSUME NEW n \in Nat, NEW g, Right(g, n)
      PROVE  Right(Longer(g), n + 1)
  <2>1. ASSUME NEW s \in SUBSET S, Cardinality(s) <= n
        PROVE  Longer(g)[s] = g[s]
    BY <1>4, <2>1
  <2>2. ASSUME NEW s \in SUBSET S, Cardinality(s) <= n + 1, s # {}
        PROVE  Longer(g)[s] = h[Chosen(s)][Longer(g)[s \ {Chosen(s)}]]
    <3>1. s \ {Chosen(s)} \in SUBSET S /\ Cardinality(s \ {Chosen(s)}) <= n
      BY <1>1, <1>2, <2>2
    <3>2. Longer(g)[s \ {Chosen(s)}] = g[s \ {Chosen(s)}]
      BY <2>1, <3>1
    <3>3. QED
      BY <3>2, <2>2
  <2>3. Longer(g)[{}] = base
    OBVIOUS
  <2>4. QED
    BY <2>2, <2>3
<1>5. ASSUME NEW n \in Nat, n \in G PROVE n + 1 \in G
  <2>1. PICK g : Right(g, n)
    BY <1>5
  <2> HIDE DEF Right, Longer
  <2>2. Right(Longer(g), n + 1)
    BY <1>4, <2>1
  <2>3. QED
    BY <2>2
<1>6. Nat \subseteq G
  <2> HIDE DEF G
  <2>1. QED
    BY <1>3, <1>5, NumberInduction
<1>7. PICK g : Right(g, Cardinality(S))
  BY <1>1, <1>6
<1>8. \A s \in SUBSET S : Cardinality(s) <= Cardinality(S)
  BY FS_Subset
<1>9. Longer(g) = Longer(Longer(g))
  <2>1. \A s \in SUBSET S : Longer(g)[s] = g[s]
    BY <1>7, <1>8
  <2>2. \A s \in SUBSET S : s # {} => Longer(g)[s \ {Chosen(s)}] = g[s \ {Chosen(s)}]
    BY <2>1, <1>2
  <2>3. QED
    BY <2>2
<1>10. QED
  BY <1>9 DEF IsFold

\* A fold of values in V, of a base and with a combination in V, is in V.
LEMMA FoldType ==
  ASSUME NEW S, IsFiniteSet(S), NEW V, NEW base \in V, NEW h,
         \A x \in S : \A v \in V : h[x][v] \in V,
         NEW g, IsFold(g, base, h, S)
  PROVE  g \in [SUBSET S -> V]
<1> DEFINE G == {T \in SUBSET S : g[T] \in V}
<1>1. ASSUME NEW T \in SUBSET S, \A U \in SUBSET T : U # T => U \in G
      PROVE  T \in G
  <2>1. CASE T = {}
    BY <2>1 DEF IsFold
  <2>2. CASE T # {}
    <3>1. Chosen(T) \in S /\ g[T \ {Chosen(T)}] \in V
      BY <1>1, <2>2, ChosenIsIn
    <3>2. g[T] = h[Chosen(T)][g[T \ {Chosen(T)}]]
      BY <2>2 DEF IsFold
    <3>3. QED
      BY <3>1, <3>2
  <2>3. QED
    BY <2>1, <2>2
<1>2. \A T \in SUBSET S : T \in G
  <2> HIDE DEF G
  <2>1. QED
    BY <1>1, SubsetInduction
<1>3. QED
  BY <1>2 DEF IsFold

\* Two folds agree where both are defined.
LEMMA FoldsAgree ==
  ASSUME NEW S, IsFiniteSet(S), NEW T \in SUBSET S, NEW base, NEW h, NEW g, NEW m,
         IsFold(g, base, h, S), IsFold(m, base, h, T)
  PROVE  g[T] = m[T]
<1> DEFINE G == {U \in SUBSET T : g[U] = m[U]}
<1>1. IsFiniteSet(T)
  BY FS_Subset
<1>2. ASSUME NEW U \in SUBSET T, \A X \in SUBSET U : X # U => X \in G
      PROVE  U \in G
  <2>1. CASE U = {}
    BY <2>1 DEF IsFold
  <2>2. CASE U # {}
    <3>1. U \ {Chosen(U)} \in G /\ Chosen(U) \in T
      BY <1>2, <2>2, ChosenIsIn
    <3>2. g[U] = h[Chosen(U)][g[U \ {Chosen(U)}]]
      BY <2>2 DEF IsFold
    <3>3. m[U] = h[Chosen(U)][m[U \ {Chosen(U)}]]
      BY <2>2 DEF IsFold
    <3>4. QED
      BY <3>1, <3>2, <3>3
  <2>3. QED
    BY <2>1, <2>2
<1>3. T \in G
  <2> HIDE DEF G
  <2>1. QED
    BY <1>1, <1>2, SubsetInduction
<1>4. QED
  BY <1>3

-----------------------------------------------------------------------------
(* Sums and products. *)

\* Adding f up.
Adding(f, S) == [x \in S |-> [v \in Int |-> f[x] + v]]

\* g is the fold that makes the sum of f over T.
Makes(g, f, S, T) ==
  /\ IsFold(g, 0, Adding(f, S), T)
  /\ g \in [SUBSET T -> Int]
  /\ SumFunctionOnSet(f, T) = g[T]

LEMMA SumDef ==
  ASSUME NEW S, IsFiniteSet(S), NEW f, \A x \in S : f[x] \in Int, NEW T \in SUBSET S
  PROVE  \E g : Makes(g, f, S, T)
<1> DEFINE Fold == CHOOSE iter : iter = [s \in SUBSET T |->
                     IF s = {} THEN 0 ELSE f[CHOOSE x \in s : TRUE] + iter[s \ {CHOOSE x \in s : TRUE}]]
           AddsUp(g) == g = [s \in SUBSET T |->
                     IF s = {} THEN 0 ELSE f[CHOOSE x \in s : TRUE] + g[s \ {CHOOSE x \in s : TRUE}]]
<1>1. IsFiniteSet(T) /\ \A x \in T : \A v \in Int : Adding(f, S)[x][v] = f[x] + v /\ f[x] + v \in Int
  BY FS_Subset DEF Adding
<1>2. ASSUME NEW g, AddsUp(g) PROVE g \in [SUBSET T -> Int]
  <2> DEFINE G == {U \in SUBSET T : g[U] \in Int}
  <2>1. g = [s \in SUBSET T |-> IF s = {} THEN 0 ELSE f[Chosen(s)] + g[s \ {Chosen(s)}]]
    BY <1>2 DEF Chosen
  <2>2. ASSUME NEW U \in SUBSET T, \A X \in SUBSET U : X # U => X \in G
        PROVE  U \in G
    <3>1. CASE U = {}
      BY <2>1, <3>1
    <3>2. CASE U # {}
      <4>1. U \ {Chosen(U)} \in G /\ Chosen(U) \in T
        BY <2>2, <3>2, ChosenIsIn
      <4>2. QED
        BY <1>1, <2>1, <3>2, <4>1
    <3>3. QED
      BY <3>1, <3>2
  <2>3. \A U \in SUBSET T : U \in G
    <3> HIDE DEF G
    <3>1. QED
      BY <1>1, <2>2, SubsetInduction
  <2>4. QED
    BY <2>1, <2>3
<1>3. ASSUME NEW g \in [SUBSET T -> Int]
      PROVE  IsFold(g, 0, Adding(f, S), T) <=> AddsUp(g)
  <2>1. ASSUME NEW s \in SUBSET T, s # {}
        PROVE  Adding(f, S)[Chosen(s)][g[s \ {Chosen(s)}]] = f[Chosen(s)] + g[s \ {Chosen(s)}]
    <3>1. Chosen(s) \in T /\ g[s \ {Chosen(s)}] \in Int
      BY <2>1, ChosenIsIn
    <3>2. QED
      BY <1>1, <3>1
  <2>2. AddsUp(g) <=> g = [s \in SUBSET T |-> IF s = {} THEN 0 ELSE f[Chosen(s)] + g[s \ {Chosen(s)}]]
    BY DEF Chosen
  <2>3. [s \in SUBSET T |-> IF s = {} THEN 0 ELSE f[Chosen(s)] + g[s \ {Chosen(s)}]]
          = [s \in SUBSET T |-> IF s = {} THEN 0 ELSE Adding(f, S)[Chosen(s)][g[s \ {Chosen(s)}]]]
    BY <2>1
  <2> HIDE DEF AddsUp
  <2>4. QED
    BY <2>2, <2>3 DEF IsFold
<1>4. PICK g : IsFold(g, 0, Adding(f, S), T)
  BY <1>1, FoldExists
<1>5. g \in [SUBSET T -> Int]
  <2>1. \A x \in T : \A v \in Int : Adding(f, S)[x][v] \in Int
    BY <1>1
  <2>2. QED
    BY ONLY <1>1, <1>4, <2>1, FoldType, 0 \in Int
<1>6. AddsUp(g)
  BY <1>3, <1>4, <1>5
<1>7. AddsUp(Fold)
  BY <1>6
<1>8. SumFunctionOnSet(f, T) = Fold[T]
  BY DEF SumFunctionOnSet, FoldFunctionOnSet, MapThenFoldSet
<1> HIDE DEF AddsUp, Fold
<1>9. Fold \in [SUBSET T -> Int] /\ IsFold(Fold, 0, Adding(f, S), T)
  BY <1>2, <1>3, <1>7
<1>10. QED
  BY <1>8, <1>9 DEF Makes

LEMMA SumEmpty == \A f : SumFunctionOnSet(f, {}) = 0
<1>1. ASSUME NEW f
      PROVE  \E g : Makes(g, f, {}, {})
  BY SumDef, FS_EmptySet
<1>2. QED
  BY <1>1 DEF Makes, IsFold

LEMMA SumStep ==
  ASSUME NEW S, IsFiniteSet(S), S # {}, NEW f, \A x \in S : f[x] \in Int
  PROVE  SumFunctionOnSet(f, S) = f[Chosen(S)] + SumFunctionOnSet(f, S \ {Chosen(S)})
<1>1. PICK g : Makes(g, f, S, S)
  BY SumDef
<1> DEFINE T == S \ {Chosen(S)}
<1>0. T \in SUBSET S /\ IsFiniteSet(S)
  OBVIOUS
<1>2. PICK h : Makes(h, f, S, T)
  <2> HIDE DEF T
  <2>1. QED
    BY <1>0, SumDef
<1>3. g[T] = h[T]
  BY <1>1, <1>2, FoldsAgree DEF Makes
<1>4. g[S] = Adding(f, S)[Chosen(S)][g[T]]
  BY <1>1 DEF IsFold, Makes
<1>5. Adding(f, S)[Chosen(S)][g[T]] = f[Chosen(S)] + g[T]
  BY <1>1, ChosenIsIn DEF Adding, Makes
<1>6. QED
  BY <1>1, <1>2, <1>3, <1>4, <1>5 DEF Makes
\* A sum of whole numbers is one, and any of them may be taken out first.
LEMMA SumTake ==
  ASSUME NEW S, IsFiniteSet(S), NEW f, \A x \in S : f[x] \in Int
  PROVE  /\ SumFunctionOnSet(f, S) \in Int
         /\ \A x \in S : SumFunctionOnSet(f, S) = f[x] + SumFunctionOnSet(f, S \ {x})
<1> DEFINE Sum(T) == SumFunctionOnSet(f, T)
           G == {T \in SUBSET S : Sum(T) \in Int /\ \A x \in T : Sum(T) = f[x] + Sum(T \ {x})}
<1>1. ASSUME NEW T \in SUBSET S, \A U \in SUBSET T : U # T => U \in G
      PROVE  T \in G
  <2>1. CASE T = {}
    BY <2>1, SumEmpty
  <2>2. CASE T # {}
    <3> DEFINE c == Chosen(T)
    <3>1. c \in T /\ IsFiniteSet(T)
      BY <2>2, ChosenIsIn, FS_Subset
    <3>2. Sum(T) = f[c] + Sum(T \ {c})
      BY <2>2, <3>1, SumStep
    <3> HIDE DEF c
    <3>3. T \ {c} \in G
      BY <1>1, <3>1
    <3>4. ASSUME NEW x \in T, x # c
          PROVE  Sum(T) = f[x] + Sum(T \ {x})
      <4>1. T \ {x} \in G
        BY <1>1
      <4>2. Sum(T \ {c}) = f[x] + Sum((T \ {c}) \ {x})
        BY <3>3, <3>4
      <4>3. Sum(T \ {x}) = f[c] + Sum((T \ {x}) \ {c})
        BY <4>1, <3>1, <3>4
      <4>4. Sum((T \ {c}) \ {x}) = Sum((T \ {x}) \ {c})
        <5>1. (T \ {c}) \ {x} = (T \ {x}) \ {c}
          OBVIOUS
        <5>2. QED
          BY <5>1, Zenon
      <4>5. (T \ {c}) \ {x} \in G
        BY <1>1, <3>1
      <4>6. f[x] \in Int /\ f[c] \in Int /\ Sum((T \ {c}) \ {x}) \in Int
        BY <3>1, <4>5
      <4> HIDE DEF Sum
      <4>7. QED
        BY ONLY <3>2, <4>2, <4>3, <4>4, <4>6
    <3>5. Sum(T) \in Int
      BY <3>1, <3>2, <3>3
    <3> HIDE DEF Sum
    <3>6. QED
      BY <3>2, <3>4, <3>5
  <2>3. QED
    BY <2>1, <2>2
<1>2. S \in G
  <2> HIDE DEF G
  <2>1. QED
    BY <1>1, SubsetInduction
<1>3. QED
  BY <1>2


LEMMA SumOfNumbers ==
  ASSUME NEW S, IsFiniteSet(S), NEW f, \A x \in S : f[x] \in Nat
  PROVE  SumFunctionOnSet(f, S) \in Nat
<1> DEFINE G == {T \in SUBSET S : SumFunctionOnSet(f, T) \in Nat}
<1>1. ASSUME NEW T \in SUBSET S, \A U \in SUBSET T : U # T => U \in G
      PROVE  T \in G
  <2>1. IsFiniteSet(T)
    BY FS_Subset
  <2>2. CASE T = {}
    BY <2>2, SumEmpty
  <2>3. ASSUME NEW x \in T PROVE T \in G
    <3>1. T \ {x} \in G
      BY <1>1
    <3>2. SumFunctionOnSet(f, T) = f[x] + SumFunctionOnSet(f, T \ {x})
      BY <2>1, SumTake
    <3>3. QED
      BY <3>1, <3>2
  <2>4. QED
    BY <2>2, <2>3
<1>2. S \in G
  <2> HIDE DEF G
  <2>1. QED
    BY <1>1, SubsetInduction
<1>3. QED
  BY <1>2

\* A sum depends on what is added only.
LEMMA SumSame ==
  ASSUME NEW S, IsFiniteSet(S), NEW f, NEW g, \A x \in S : f[x] \in Int, \A x \in S : g[x] = f[x]
  PROVE  SumFunctionOnSet(g, S) = SumFunctionOnSet(f, S)
<1> DEFINE G == {T \in SUBSET S : SumFunctionOnSet(g, T) = SumFunctionOnSet(f, T)}
<1>1. ASSUME NEW T \in SUBSET S, \A U \in SUBSET T : U # T => U \in G
      PROVE  T \in G
  <2>1. IsFiniteSet(T)
    BY FS_Subset
  <2>2. CASE T = {}
    BY <2>2, SumEmpty
  <2>3. ASSUME NEW x \in T PROVE T \in G
    <3>1. T \ {x} \in G
      BY <1>1
    <3>2. SumFunctionOnSet(f, T) = f[x] + SumFunctionOnSet(f, T \ {x})
      BY <2>1, SumTake
    <3>3. SumFunctionOnSet(g, T) = g[x] + SumFunctionOnSet(g, T \ {x})
      BY <2>1, SumTake
    <3>4. QED
      BY <3>1, <3>2, <3>3
  <2>4. QED
    BY <2>2, <2>3
<1>2. S \in G
  <2> HIDE DEF G
  <2>1. QED
    BY <1>1, SubsetInduction
<1>3. QED
  BY <1>2

\* A sum splits over two sets that share nothing.
LEMMA SumUnion ==
  ASSUME NEW S, NEW P, IsFiniteSet(S), IsFiniteSet(P), S \cap P = {},
         NEW f, \A x \in S \cup P : f[x] \in Int
  PROVE  SumFunctionOnSet(f, S \cup P) = SumFunctionOnSet(f, S) + SumFunctionOnSet(f, P)
<1> DEFINE Sum(T) == SumFunctionOnSet(f, T)
           G == {T \in SUBSET S : Sum(T \cup P) = Sum(T) + Sum(P)}
<1>0. Sum(P) \in Int
  BY SumTake
<1>1. ASSUME NEW T \in SUBSET S, \A U \in SUBSET T : U # T => U \in G
      PROVE  T \in G
  <2>1. IsFiniteSet(T) /\ IsFiniteSet(T \cup P)
    BY FS_Subset, FS_Union
  <2>2. CASE T = {}
    BY <2>2, <1>0, SumEmpty
  <2>3. ASSUME NEW x \in T PROVE T \in G
    <3>1. T \ {x} \in G
      BY <1>1
    <3>2. Sum(T) = f[x] + Sum(T \ {x})
      BY <2>1, SumTake
    <3>3. Sum(T \cup P) = f[x] + Sum((T \cup P) \ {x})
      BY <2>1, SumTake
    <3>4. Sum((T \cup P) \ {x}) = Sum((T \ {x}) \cup P)
      <4>1. (T \cup P) \ {x} = (T \ {x}) \cup P
        OBVIOUS
      <4>2. QED
        BY <4>1, Zenon
    <3>5. f[x] \in Int /\ Sum(T \ {x}) \in Int
      <4>1. IsFiniteSet(T \ {x})
        BY <2>1, FS_RemoveElement
      <4>2. QED
        BY <4>1, SumTake
    <3>6. Sum((T \ {x}) \cup P) = Sum(T \ {x}) + Sum(P)
      BY <3>1
    <3> HIDE DEF Sum
    <3>7. Sum(T \cup P) = Sum(T) + Sum(P)
      BY ONLY <1>0, <3>2, <3>3, <3>4, <3>5, <3>6
    <3>8. QED
      BY <3>7
  <2>4. QED
    BY <2>2, <2>3
<1>2. S \in G
  <2> HIDE DEF G
  <2>1. QED
    BY <1>1, SubsetInduction
<1>3. QED
  BY <1>2

\* Part of a sum of natural numbers is not more than the sum.
LEMMA SumOfPart ==
  ASSUME NEW S, IsFiniteSet(S), NEW P \in SUBSET S, NEW f, \A x \in S : f[x] \in Nat
  PROVE  SumFunctionOnSet(f, P) <= SumFunctionOnSet(f, S)
<1>1. IsFiniteSet(P) /\ IsFiniteSet(S \ P)
  BY FS_Subset
<1>2. SumFunctionOnSet(f, P \cup (S \ P)) = SumFunctionOnSet(f, P) + SumFunctionOnSet(f, S \ P)
  BY <1>1, SumUnion
<1>3. SumFunctionOnSet(f, P \cup (S \ P)) = SumFunctionOnSet(f, S)
  <2>1. P \cup (S \ P) = S
    OBVIOUS
  <2>2. QED
    BY <2>1, Zenon
<1>4. SumFunctionOnSet(f, P) \in Nat /\ SumFunctionOnSet(f, S \ P) \in Nat
  BY <1>1, SumOfNumbers
<1>5. QED
  BY <1>2, <1>3, <1>4

\* b puts each of S into one of the groups D: the members of group y are P[y], h[y] is their sum.
Grouping(b, P, f, S, h, D) ==
  /\ \A x \in S : b[x] \in D
  /\ \A y \in D : \E x \in S : b[x] = y
  /\ \A y \in D : P[y] \subseteq S /\ \A x \in S : x \in P[y] <=> b[x] = y
  /\ \A y \in D : h[y] = SumFunctionOnSet(f, P[y])

\* What is grouped adds up to what there was.
LEMMA SumOfGroups ==
  ASSUME NEW S, IsFiniteSet(S), NEW f, \A x \in S : f[x] \in Int,
         NEW D, NEW b, NEW P, NEW h, Grouping(b, P, f, S, h, D)
  PROVE  SumFunctionOnSet(h, D) = SumFunctionOnSet(f, S)
<1> USE DEF Grouping
<1> DEFINE Sum(T) == SumFunctionOnSet(f, T)
           Of(U) == {x \in S : b[x] \in U}
           G == {U \in SUBSET D : SumFunctionOnSet(h, U) = Sum(Of(U))}
<1>0. IsFiniteSet(D)
  <2>1. [x \in S |-> b[x]] \in Surjection(S, D)
    BY DEF Surjection
  <2>2. QED
    BY <2>1, FS_Surjection
<1>1. ASSUME NEW U \in SUBSET D, \A V \in SUBSET U : V # U => V \in G
      PROVE  U \in G
  <2>1. IsFiniteSet(U)
    BY <1>0, FS_Subset
  <2>2. CASE U = {}
    BY <2>2, SumEmpty
  <2>3. ASSUME NEW y \in U PROVE U \in G
    <3>1. U \ {y} \in G
      BY <1>1
    <3>2. \A z \in U : h[z] \in Int
      <4>1. ASSUME NEW z \in U PROVE SumFunctionOnSet(f, P[z]) \in Int
        <5>1. IsFiniteSet(P[z]) /\ \A x \in P[z] : f[x] \in Int
          BY FS_Subset
        <5>2. QED
          BY <5>1, SumTake
      <4>2. QED
        BY <4>1
    <3>3. SumFunctionOnSet(h, U) = h[y] + SumFunctionOnSet(h, U \ {y})
      BY ONLY <2>1, <3>2, y \in U, SumTake
    <3>4. Of(U) = P[y] \cup Of(U \ {y}) /\ P[y] \cap Of(U \ {y}) = {}
      BY \A x \in S : x \in P[y] <=> b[x] = y
    <3>5. Sum(P[y] \cup Of(U \ {y})) = Sum(P[y]) + Sum(Of(U \ {y}))
      <4>1. IsFiniteSet(P[y]) /\ IsFiniteSet(Of(U \ {y}))
        BY FS_Subset
      <4>2. \A x \in P[y] \cup Of(U \ {y}) : f[x] \in Int
        OBVIOUS
      <4> HIDE DEF Of
      <4>3. QED
        BY ONLY <3>4, <4>1, <4>2, SumUnion
    <3>6. Sum(Of(U)) = Sum(P[y] \cup Of(U \ {y}))
      <4> HIDE DEF Of
      <4>1. QED
        BY <3>4, Zenon
    <3>7. SumFunctionOnSet(h, U \ {y}) = Sum(Of(U \ {y}))
      BY <3>1
    <3>8. h[y] = Sum(P[y])
      OBVIOUS
    <3>9. SumFunctionOnSet(h, U) = Sum(Of(U))
      <4> HIDE DEF Sum, Of
      <4>1. QED
        BY ONLY <3>3, <3>5, <3>6, <3>7, <3>8
    <3>10. QED
      BY <3>9
  <2>4. QED
    BY <2>2, <2>3
<1>2. D \in G
  <2> HIDE DEF G
  <2>1. QED
    BY <1>0, <1>1, SubsetInduction
<1>3. Sum(Of(D)) = Sum(S)
  <2>1. Of(D) = S
    OBVIOUS
  <2>2. QED
    BY <2>1, Zenon
<1>4. QED
  BY <1>2, <1>3

\* Multiplying f up.
ProductOn(f, S) == FoldFunctionOnSet(LAMBDA m, n : m * n, 1, f, S)

Multiplying(f, S) == [x \in S |-> [v \in Nat |-> f[x] * v]]

LEMMA ProductOfNumbers ==
  ASSUME NEW S, IsFiniteSet(S), NEW f, \A x \in S : f[x] \in Nat
  PROVE  ProductOn(f, S) \in Nat
<1> DEFINE Fold == CHOOSE iter : iter = [s \in SUBSET S |->
                     IF s = {} THEN 1 ELSE f[CHOOSE x \in s : TRUE] * iter[s \ {CHOOSE x \in s : TRUE}]]
           Multiplies(g) == g = [s \in SUBSET S |->
                     IF s = {} THEN 1 ELSE f[CHOOSE x \in s : TRUE] * g[s \ {CHOOSE x \in s : TRUE}]]
<1>0. \A m, n \in Nat : m * n \in Nat
  OBVIOUS
<1>1. \A x \in S : \A v \in Nat : Multiplying(f, S)[x][v] = f[x] * v /\ f[x] * v \in Nat
  BY <1>0 DEF Multiplying
<1>2. PICK g : IsFold(g, 1, Multiplying(f, S), S)
  BY FoldExists
<1>3. g \in [SUBSET S -> Nat]
  <2>1. \A x \in S : \A v \in Nat : Multiplying(f, S)[x][v] \in Nat
    BY <1>1
  <2>2. QED
    BY ONLY IsFiniteSet(S), <1>2, <2>1, FoldType, 1 \in Nat
<1>4. Multiplies(g)
  <2>1. ASSUME NEW s \in SUBSET S, s # {}
        PROVE  Multiplying(f, S)[Chosen(s)][g[s \ {Chosen(s)}]] = f[Chosen(s)] * g[s \ {Chosen(s)}]
    <3>1. Chosen(s) \in S /\ g[s \ {Chosen(s)}] \in Nat
      BY <1>3, <2>1, ChosenIsIn
    <3>2. QED
      BY <1>1, <3>1
  <2>2. Multiplies(g) <=> g = [s \in SUBSET S |-> IF s = {} THEN 1 ELSE f[Chosen(s)] * g[s \ {Chosen(s)}]]
    BY DEF Chosen
  <2>3. [s \in SUBSET S |-> IF s = {} THEN 1 ELSE f[Chosen(s)] * g[s \ {Chosen(s)}]]
          = [s \in SUBSET S |-> IF s = {} THEN 1 ELSE Multiplying(f, S)[Chosen(s)][g[s \ {Chosen(s)}]]]
    BY <2>1
  <2> HIDE DEF Multiplies
  <2>4. QED
    BY <1>2, <2>2, <2>3 DEF IsFold
<1>5. Multiplies(Fold)
  BY <1>4
<1>6. ASSUME NEW m, Multiplies(m) PROVE m[S] \in Nat
  <2> DEFINE G == {U \in SUBSET S : m[U] \in Nat}
  <2>1. m = [s \in SUBSET S |-> IF s = {} THEN 1 ELSE f[Chosen(s)] * m[s \ {Chosen(s)}]]
    BY <1>6 DEF Chosen
  <2>2. ASSUME NEW U \in SUBSET S, \A X \in SUBSET U : X # U => X \in G
        PROVE  U \in G
    <3>1. CASE U = {}
      BY <2>1, <3>1
    <3>2. CASE U # {}
      <4>1. U \ {Chosen(U)} \in G /\ Chosen(U) \in S
        BY <2>2, <3>2, ChosenIsIn
      <4>2. m[U] = f[Chosen(U)] * m[U \ {Chosen(U)}]
        BY <2>1, <3>2
      <4>3. QED
        BY <1>0, <4>1, <4>2
    <3>3. QED
      BY <3>1, <3>2
  <2>3. \A U \in SUBSET S : U \in G
    <3> HIDE DEF G
    <3>1. QED
      BY <2>2, SubsetInduction
  <2>4. QED
    BY <2>3
<1>7. ProductOn(f, S) = Fold[S]
  BY DEF ProductOn, FoldFunctionOnSet, MapThenFoldSet
<1> HIDE DEF Multiplies, Fold
<1>8. QED
  BY <1>5, <1>6, <1>7

-----------------------------------------------------------------------------
(* The money of budget experiments.  The inductive invariant says that what *)
(* an experiment has given out is the whole of one share-out, of a start's  *)
(* budget or of its one round's plan, or nothing.                           *)

\* Dividing leaves less than the divisor.
LEMMA Division ==
  ASSUME NEW n \in Nat, NEW k \in Nat \ {0}
  PROVE  \E q \in Nat, m \in 0 .. (k - 1) : q = n \div k /\ m = n % k /\ n = k * q + m
<1>1. n \div k \in Nat /\ n % k \in 0 .. (k - 1)
  OBVIOUS
<1>2. PICK q \in Nat, m \in 0 .. (k - 1) : q = n \div k /\ m = n % k
  BY <1>1
<1>3. n = k * q + m
  BY <1>2
<1>4. QED
  BY <1>2, <1>3

\* The shares of a split add up to what is split.
LEMMA SplitAddsUp ==
  ASSUME NEW n \in Nat, NEW k \in Nat \ {0}
  PROVE  Split(n, k) \in [1 .. k -> Nat] /\ SumFunction(Split(n, k)) = n
<1>0. PICK q \in Nat, m \in 0 .. (k - 1) : q = n \div k /\ m = n % k /\ n = k * q + m
  BY Division
<1> DEFINE least(j) == IF j <= m THEN j ELSE m
           Sum(j) == SumFunctionOnSet(Split(n, k), 1 .. j)
           G == {j \in Nat : j <= k => Sum(j) = j * q + least(j)}
<1>1. q \in Nat /\ m \in Nat /\ m < k /\ n = k * q + m
  BY <1>0
<1>2. Split(n, k) \in [1 .. k -> Nat]
  BY <1>0 DEF Split
<1>3. \A i \in 1 .. k : Split(n, k)[i] = q + (IF i <= m THEN 1 ELSE 0)
  BY <1>0 DEF Split
<1>4. 0 \in G
  <2>1. 1 .. 0 = {}
    OBVIOUS
  <2>2. Sum(0) = 0
    BY <2>1, SumEmpty, Zenon
  <2>3. QED
    BY <1>1, <2>2
<1>5. ASSUME NEW j \in Nat, j \in G PROVE j + 1 \in G
  <2>1. CASE j + 1 <= k
    <3>1. Sum(j) = j * q + least(j)
      BY <1>5, <2>1
    <3>2. Sum(j + 1) = Split(n, k)[j + 1] + SumFunctionOnSet(Split(n, k), (1 .. (j + 1)) \ {j + 1})
      <4>1. IsFiniteSet(1 .. (j + 1)) /\ \A i \in 1 .. (j + 1) : Split(n, k)[i] \in Int
        <5>1. IsFiniteSet(1 .. (j + 1))
          BY FS_Interval
        <5>2. \A i \in 1 .. (j + 1) : i \in 1 .. k
          BY <2>1
        <5>3. QED
          BY ONLY <5>1, <5>2, <1>2
      <4>2. QED
        BY <4>1, SumTake
    <3>3. Sum(j) = SumFunctionOnSet(Split(n, k), (1 .. (j + 1)) \ {j + 1})
      <4>1. 1 .. j = (1 .. (j + 1)) \ {j + 1}
        OBVIOUS
      <4>2. QED
        BY <4>1, Zenon
    <3>4. Split(n, k)[j + 1] = q + (IF j + 1 <= m THEN 1 ELSE 0)
      BY <1>3, <2>1
    <3> HIDE DEF Sum
    <3>5. (j + 1) * q = j * q + q
      BY <1>1
    <3>6. j * q \in Nat
      BY <1>1
    <3>7. Sum(j + 1) = (j + 1) * q + least(j + 1)
      BY ONLY <1>1, <3>1, <3>2, <3>3, <3>4, <3>5, <3>6, j \in Nat
    <3>8. QED
      BY <3>7
  <2>2. QED
    BY <2>1
<1>6. Nat \subseteq G
  <2> HIDE DEF G
  <2>1. QED
    BY <1>4, <1>5, NumberInduction
<1>7. Sum(k) = k * q + m
  <2>1. k \in G
    BY <1>6
  <2> HIDE DEF Sum
  <2>2. QED
    BY <2>1, <1>1
<1>8. DOMAIN Split(n, k) = 1 .. k
  BY <1>2
<1>9. SumFunction(Split(n, k)) = Sum(k)
  BY <1>8, Zenon DEF SumFunction
<1> HIDE DEF Sum
<1>10. QED
  BY <1>1, <1>2, <1>7, <1>9

\* b gives each of S a name of its own in D, under which h has what f has.
Renames(b, f, S, h, D) ==
  /\ \A x \in S : b[x] \in D
  /\ \A y \in D : \E x \in S : b[x] = y
  /\ \A x, y \in S : b[x] = b[y] => x = y
  /\ \A x \in S : h[b[x]] = f[x]

\* Renaming what is added leaves the sum.
LEMMA SumRenamed ==
  ASSUME NEW S, IsFiniteSet(S), NEW f, \A x \in S : f[x] \in Int,
         NEW D, NEW h, NEW b, Renames(b, f, S, h, D)
  PROVE  SumFunctionOnSet(h, D) = SumFunctionOnSet(f, S)
<1> USE DEF Renames
<1> DEFINE P == [y \in D |-> {x \in S : b[x] = y}]
<1>1. ASSUME NEW x \in S
      PROVE  SumFunctionOnSet(f, {z \in S : b[z] = b[x]}) = f[x]
  <2>1. {z \in S : b[z] = b[x]} = {x}
    OBVIOUS
  <2>2. SumFunctionOnSet(f, {x}) = f[x] + SumFunctionOnSet(f, {x} \ {x})
    BY FS_Singleton, SumTake
  <2>3. SumFunctionOnSet(f, {x} \ {x}) = 0
    <3>1. {x} \ {x} = {}
      OBVIOUS
    <3>2. QED
      BY <3>1, SumEmpty, Zenon
  <2>4. SumFunctionOnSet(f, {z \in S : b[z] = b[x]}) = SumFunctionOnSet(f, {x})
    BY <2>1, Zenon
  <2>5. QED
    BY <2>2, <2>3, <2>4
<1>2. \A y \in D : h[y] = SumFunctionOnSet(f, P[y])
  BY <1>1
<1>3. \A y \in D : P[y] \subseteq S /\ \A x \in S : x \in P[y] <=> b[x] = y
  OBVIOUS
<1> HIDE DEF P
<1>4. Grouping(b, P, f, S, h, D)
  BY <1>2, <1>3 DEF Grouping
<1>5. QED
  BY <1>4, SumOfGroups

\* The two parts of a sum of two.
LEMMA SumOfTwo ==
  ASSUME NEW x, NEW y, x # y, NEW f, f[x] \in Int, f[y] \in Int
  PROVE  SumFunctionOnSet(f, {x, y}) = f[x] + f[y]
<1>1. IsFiniteSet({x, y}) /\ IsFiniteSet({y})
  <2>1. {x, y} = {y} \cup {x}
    OBVIOUS
  <2>2. IsFiniteSet({y})
    BY FS_Singleton
  <2>3. IsFiniteSet({y} \cup {x})
    BY <2>2, FS_AddElement
  <2>4. QED
    BY <2>1, <2>2, <2>3, Zenon
<1>2. SumFunctionOnSet(f, {x, y}) = f[x] + SumFunctionOnSet(f, {x, y} \ {x})
  BY <1>1, SumTake
<1>3. SumFunctionOnSet(f, {x, y} \ {x}) = SumFunctionOnSet(f, {y})
  <2>1. {x, y} \ {x} = {y}
    OBVIOUS
  <2>2. QED
    BY <2>1, Zenon
<1>4. SumFunctionOnSet(f, {y}) = f[y] + SumFunctionOnSet(f, {y} \ {y})
  BY <1>1, SumTake
<1>5. SumFunctionOnSet(f, {y} \ {y}) = 0
  <2>1. {y} \ {y} = {}
    OBVIOUS
  <2>2. QED
    BY <2>1, SumEmpty, Zenon
<1>6. QED
  BY <1>2, <1>3, <1>4, <1>5

\* What a platform or one of its creatives is given.
LEMMA AllocationsAre ==
  ASSUME NEW x \in Tests, NEW to \in {"test", "round"}, NEW n \in Nat,
         NEW amounts \in [1 .. n -> Nat], NEW a
  PROVE  a \in Allocations(x, to, amounts) <=>
           \E i \in 1 .. n, c \in 0 .. 2 :
             a = [of |-> x, to |-> to, place |-> i, creative |-> c,
                  amount |-> IF c = 0 THEN amounts[i] ELSE Split(amounts[i], 2)[c]]
<1> DEFINE Of(i) ==
      {[of |-> x, to |-> to, place |-> i, creative |-> 0, amount |-> amounts[i]]} \cup
      {[of |-> x, to |-> to, place |-> i, creative |-> c, amount |-> Split(amounts[i], 2)[c]] : c \in 1..2}
<1>1. a \in Allocations(x, to, amounts) <=> \E i \in 1 .. n : a \in Of(i)
  BY DEF Allocations
<1>2. ASSUME NEW i \in 1 .. n
      PROVE  a \in Of(i) <=> \E c \in 0 .. 2 :
             a = [of |-> x, to |-> to, place |-> i, creative |-> c,
                  amount |-> IF c = 0 THEN amounts[i] ELSE Split(amounts[i], 2)[c]]
  <2>1. \A c : c \in 0 .. 2 <=> c = 0 \/ c \in 1 .. 2
    OBVIOUS
  <2>2. \A c \in 1 .. 2 : c # 0
    OBVIOUS
  <2>3. QED
    BY <2>1, <2>2
<1> HIDE DEF Of
<1>3. QED
  BY <1>1, <1>2

LEMMA SplitInTwo ==
  ASSUME NEW n \in Nat
  PROVE  /\ Split(n, 2)[1] \in Nat /\ Split(n, 2)[2] \in Nat
         /\ Split(n, 2)[1] + Split(n, 2)[2] = n
<1>1. PICK q \in Nat, m \in 0 .. 1 : q = n \div 2 /\ m = n % 2 /\ n = 2 * q + m
  BY Division
<1>2. QED
  BY <1>1 DEF Split

\* The entries of the platforms, and of the creatives at a place.
OnPlatforms(A) == {a \in A : a.creative \in {0}}
OnCreatives(A, place) == {b \in A : b.creative \in 1..2 /\ b.place = place}

\* The platforms' entries add up to the amounts, and the creatives' entries of a platform to
\* what the platform has.
LEMMA AllocationsAddUp ==
  ASSUME NEW x \in Tests, NEW to \in {"test", "round"}, NEW n \in Nat,
         NEW amounts \in [1 .. n -> Nat], NEW A, A = Allocations(x, to, amounts)
  PROVE  /\ A \subseteq Allocation /\ \A a \in A : a.of = x /\ a.to = to
         /\ Total(OnPlatforms(A)) = SumFunction(amounts)
         /\ \A a \in OnPlatforms(A) : a.amount = Total(OnCreatives(A, a.place))
<1> DEFINE D == {a \in A : a.creative \in {0}}
           Entry(i, c) == [of |-> x, to |-> to, place |-> i, creative |-> c,
                  amount |-> IF c = 0 THEN amounts[i] ELSE Split(amounts[i], 2)[c]]
<1>1. \A a : a \in A <=> \E i \in 1 .. n, c \in 0 .. 2 : a = Entry(i, c)
  BY AllocationsAre
<1>2. \A i \in 1 .. n, c \in 0 .. 2 : Entry(i, c).amount \in Nat
  <2>1. \A c \in 0 .. 2 : c = 0 \/ c = 1 \/ c = 2
    OBVIOUS
  <2>2. \A i \in 1 .. n : amounts[i] \in Nat /\ Split(amounts[i], 2)[1] \in Nat /\ Split(amounts[i], 2)[2] \in Nat
    BY SplitInTwo
  <2>3. QED
    BY <2>1, <2>2
<1>3. \A i \in 1 .. n, c \in 0 .. 2 : Entry(i, c) \in Allocation
  <2>1. \A i \in 1 .. n : i \in Nat
    OBVIOUS
  <2>2. QED
    BY <1>2, <2>1 DEF Allocation
<1>4. A \subseteq Allocation /\ \A a \in A : a.of = x /\ a.to = to
  <2>1. \A i \in 1 .. n, c \in 0 .. 2 : Entry(i, c).of = x /\ Entry(i, c).to = to
    OBVIOUS
  <2> HIDE DEF Entry
  <2>2. QED
    BY <1>1, <1>3, <2>1
<1>5. \A a : a \in D <=> \E i \in 1 .. n : a = Entry(i, 0)
  <2>1. 0 \in 0 .. 2
    OBVIOUS
  <2>2. QED
    BY <1>1, <2>1
<1>6. Total(D) = SumFunction(amounts)
  <2> DEFINE I == 1 .. n
             b == [i \in I |-> Entry(i, 0)]
             h == [a \in D |-> a.amount]
  <2>1. IsFiniteSet(I) /\ \A i \in I : amounts[i] \in Int
    BY FS_Interval
  <2>2. (\A i \in I : b[i] \in D) /\ \A y \in D : \E i \in I : b[i] = y
    BY <1>5
  <2>3. \A i, j \in I : b[i] = b[j] => i = j
    OBVIOUS
  <2>4. \A i \in I : h[b[i]] = amounts[i]
    BY <2>2
  <2>5. SumFunctionOnSet(h, D) = SumFunctionOnSet(amounts, I)
    <3> HIDE DEF I, b, h
    <3>1. Renames(b, amounts, I, h, D)
      BY <2>2, <2>3, <2>4 DEF Renames
    <3>2. QED
      BY ONLY <2>1, <3>1, SumRenamed
  <2>6. DOMAIN h = D /\ DOMAIN amounts = I
    OBVIOUS
  <2>7. Total(D) = SumFunctionOnSet(h, D)
    BY <2>6, Zenon DEF Total, SumFunction
  <2>8. SumFunction(amounts) = SumFunctionOnSet(amounts, I)
    BY <2>6, Zenon DEF SumFunction
  <2>9. QED
    BY <2>5, <2>7, <2>8
<1>7. ASSUME NEW a \in D
      PROVE  a.amount = Total({b \in A : b.creative \in 1..2 /\ b.place = a.place})
  <2>1. PICK i \in 1 .. n : a = Entry(i, 0)
    BY <1>5
  <2> DEFINE B == {b \in A : b.creative \in 1..2 /\ b.place = a.place}
             h == [b \in B |-> b.amount]
  <2>2. B = {Entry(i, 1), Entry(i, 2)}
    <3>1. \A c : c \in 1 .. 2 <=> c = 1 \/ c = 2
      OBVIOUS
    <3>2. \A c \in 1 .. 2 : c \in 0 .. 2
      OBVIOUS
    <3>3. \A b : b \in B <=> \E c \in 1 .. 2 : b = Entry(i, c)
      BY <1>1, <2>1, <3>2
    <3>4. QED
      BY <3>1, <3>3
  <2>3. Entry(i, 1) # Entry(i, 2)
    OBVIOUS
  <2>4. h[Entry(i, 1)] = Split(amounts[i], 2)[1] /\ h[Entry(i, 2)] = Split(amounts[i], 2)[2]
    BY <2>2
  <2>5. amounts[i] \in Nat /\ a.amount = amounts[i]
    BY <2>1
  <2>6. h[Entry(i, 1)] \in Int /\ h[Entry(i, 2)] \in Int /\ h[Entry(i, 1)] + h[Entry(i, 2)] = amounts[i]
    BY <2>4, <2>5, SplitInTwo
  <2>7. SumFunctionOnSet(h, {Entry(i, 1), Entry(i, 2)}) = amounts[i]
    <3> HIDE DEF h, Entry
    <3>1. QED
      BY ONLY <2>3, <2>6, SumOfTwo
  <2>8. SumFunctionOnSet(h, {Entry(i, 1), Entry(i, 2)}) = SumFunctionOnSet(h, B)
    <3> HIDE DEF h, Entry, B
    <3>1. QED
      BY ONLY <2>2, Zenon
  <2>9. DOMAIN h = B
    OBVIOUS
  <2>10. Total(B) = SumFunctionOnSet(h, B)
    BY <2>9, Zenon DEF Total, SumFunction
  <2>11. QED
    BY <2>5, <2>7, <2>8, <2>10
<1>8. QED
  BY <1>4, <1>6, <1>7, Zenon DEF OnPlatforms, OnCreatives

\* A finite set has one where f is least.
LEMMA LeastExists ==
  ASSUME NEW S, IsFiniteSet(S), S # {}, NEW f, \A x \in S : f[x] \in Int
  PROVE  \E p \in S : \A q \in S : f[p] <= f[q]
<1> DEFINE G == {T \in SUBSET S : T # {} => \E p \in T : \A q \in T : f[p] <= f[q]}
<1>1. ASSUME NEW T \in SUBSET S, \A U \in SUBSET T : U # T => U \in G
      PROVE  T \in G
  <2>1. ASSUME NEW x \in T PROVE \E p \in T : \A q \in T : f[p] <= f[q]
    <3>1. T \ {x} \in G
      BY <1>1
    <3>2. CASE T \ {x} = {}
      <4>1. \A q \in T : f[x] <= f[q]
        BY <3>2
      <4>2. QED
        BY <4>1
    <3>3. CASE T \ {x} # {}
      <4>1. PICK p \in T \ {x} : \A q \in T \ {x} : f[p] <= f[q]
        BY <3>1, <3>3
      <4>2. f[p] \in Int /\ f[x] \in Int /\ \A q \in T : f[q] \in Int
        OBVIOUS
      <4>3. CASE f[p] <= f[x]
        <5>1. \A q \in T : f[p] <= f[q]
          BY <4>1, <4>3
        <5>2. QED
          BY <5>1
      <4>4. CASE f[x] < f[p]
        <5>1. \A q \in T : f[x] <= f[q]
          BY <4>1, <4>2, <4>4
        <5>2. QED
          BY <5>1
      <4>5. QED
        BY <4>2, <4>3, <4>4
    <3>4. QED
      BY <3>2, <3>3
  <2>2. QED
    BY <2>1
<1>2. S \in G
  <2> HIDE DEF G
  <2>1. QED
    BY <1>1, SubsetInduction
<1>3. QED
  BY <1>2

LEMMA MaxIsIn ==
  ASSUME NEW S, IsFiniteSet(S), S # {}, \A x \in S : x \in Int
  PROVE  Max(S) \in S /\ \A y \in S : y <= Max(S)
<1> DEFINE f == [x \in S |-> -x]
<1>1. \A x \in S : f[x] = -x /\ f[x] \in Int
  OBVIOUS
<1>2. \E p \in S : \A q \in S : f[p] <= f[q]
  <2> HIDE DEF f
  <2>1. QED
    BY <1>1, LeastExists
<1>3. \E x \in S : \A y \in S : x >= y
  BY <1>1, <1>2
<1>4. QED
  BY <1>3 DEF Max

\* A plan gives each platform a share, and what there is when none is named twice.
LEMMA BudgetPlanAddsUp ==
  ASSUME NEW n \in Nat \ {0}, NEW list \in [1 .. n -> TestChannels], NEW budget \in Nat,
         NEW plan, plan = BudgetPlan(list, budget),
         NEW amounts, amounts = PlaceAmounts(list, plan)
  PROVE  /\ plan \in [ToSet(list) -> Nat]
         /\ amounts \in [1 .. n -> Nat]
         /\ Distinct(list) => SumFunction(plan) = budget /\ SumFunction(amounts) = budget
<1> DEFINE I == 1 .. n
           share == Split(budget, n)
           At(p) == {i \in I : list[i] = p}
<1>1. DOMAIN list = I /\ Len(list) = n /\ IsFiniteSet(I) /\ I \subseteq Int
  BY FS_Interval
<1>2. share \in [I -> Nat] /\ SumFunction(share) = budget
  BY SplitAddsUp
<1>3. plan = [p \in ToSet(list) |-> share[Max(At(p))]]
  BY <1>1, Zenon DEF BudgetPlan
<1>4. \A p \in ToSet(list) : Max(At(p)) \in At(p)
  <2>1. \A p \in ToSet(list) : At(p) # {} /\ \A i \in At(p) : i \in Int
    BY <1>1 DEF ToSet
  <2>2. \A p : IsFiniteSet(At(p))
    BY <1>1, FS_Subset
  <2> HIDE DEF At
  <2>3. QED
    BY <2>1, <2>2, MaxIsIn
<1>5. plan \in [ToSet(list) -> Nat]
  BY <1>2, <1>3, <1>4
<1>6. \A i \in I : list[i] \in ToSet(list)
  BY <1>1 DEF ToSet
<1>7. amounts = [i \in I |-> plan[list[i]]]
  BY <1>1 DEF PlaceAmounts
<1>8. amounts \in [I -> Nat]
  BY <1>5, <1>6, <1>7
<1>9. ASSUME Distinct(list)
      PROVE  SumFunction(plan) = budget /\ SumFunction(amounts) = budget
  <2>1. list \in Surjection(I, ToSet(list))
    <3>1. list \in [I -> ToSet(list)]
      BY <1>6
    <3>2. \A p \in ToSet(list) : \E i \in I : list[i] = p
      BY <1>1 DEF ToSet
    <3>3. QED
      BY <3>1, <3>2 DEF Surjection
  <2>2. Cardinality(I) = n
    BY FS_Interval
  <2>3. list \in Injection(I, ToSet(list))
    <3>1. Cardinality(ToSet(list)) = Cardinality(I)
      BY <1>1, <1>9, <2>2 DEF Distinct
    <3> HIDE DEF I
    <3>2. QED
      BY <1>1, <2>1, <3>1, FS_Surjection
  <2>4. \A i, j \in I : list[i] = list[j] => i = j
    BY <2>3 DEF Injection, IsInjective
  <2>5. \A i \in I : plan[list[i]] = share[i]
    <3>1. \A i \in I : Max(At(list[i])) \in At(list[i])
      BY <1>4, <1>6
    <3>2. \A i \in I : Max(At(list[i])) = i
      BY <2>4, <3>1
    <3>3. QED
      BY <1>3, <1>6, <3>2
  <2>6. Renames(list, share, I, plan, ToSet(list))
    <3>1. \A p \in ToSet(list) : \E i \in I : list[i] = p
      BY <1>1 DEF ToSet
    <3> HIDE DEF I, share
    <3>2. QED
      BY <1>6, <2>4, <2>5, <3>1 DEF Renames
  <2>7. SumFunctionOnSet(plan, ToSet(list)) = SumFunctionOnSet(share, I)
    <3>1. \A i \in I : share[i] \in Int
      BY <1>2
    <3> HIDE DEF I, share
    <3>2. QED
      BY <1>1, <2>6, <3>1, SumRenamed
  <2>8. SumFunctionOnSet(amounts, I) = SumFunctionOnSet(share, I)
    <3>1. \A i \in I : share[i] \in Int
      BY <1>2
    <3>2. \A i \in I : amounts[i] = share[i]
      BY <1>7, <2>5
    <3> HIDE DEF I, share
    <3>3. QED
      BY <1>1, <3>1, <3>2, SumSame
  <2>9. DOMAIN plan = ToSet(list) /\ DOMAIN amounts = I /\ DOMAIN share = I
    BY <1>2, <1>3, <1>7
  <2>10. SumFunction(plan) = SumFunctionOnSet(plan, ToSet(list))
    BY <2>9, Zenon DEF SumFunction
  <2>11. SumFunction(amounts) = SumFunctionOnSet(amounts, I)
    BY <2>9, Zenon DEF SumFunction
  <2>12. SumFunction(share) = SumFunctionOnSet(share, I)
    BY <2>9, Zenon DEF SumFunction
  <2> HIDE DEF I, share
  <2>13. QED
    BY <1>2, <2>7, <2>8, <2>10, <2>11, <2>12
<1>10. QED
  BY <1>5, <1>8, <1>9

\* What is kept of a share in whole units is at most the share.
LEMMA FloorOfShare ==
  ASSUME NEW total \in Nat, NEW w \in Nat, NEW all \in Nat \ {0}
  PROVE  /\ (total * w) \div all \in Nat
         /\ all * ((total * w) \div all) <= total * w
<1>1. total * w \in Nat
  OBVIOUS
<1>2. PICK q \in Nat, m \in 0 .. (all - 1) : /\ q = (total * w) \div all
                                            /\ total * w = all * q + m
  BY <1>1, Division
<1>3. all * q <= total * w
  <2>1. all * q \in Nat
    OBVIOUS
  <2>2. QED
    BY <1>2, <2>1
<1>4. QED
  BY <1>2, <1>3

LEMMA SharesGrow ==
  ASSUME NEW total \in Nat, NEW all \in Nat, NEW s \in Nat, NEW ss \in Nat, NEW w \in Nat, NEW ww \in Nat,
         all * s <= total * w, all * ss <= total * ww
  PROVE  all * (s + ss) <= total * (w + ww)
<1>1. all * (s + ss) = all * s + all * ss /\ total * (w + ww) = total * w + total * ww
  OBVIOUS
<1>2. all * s \in Nat /\ all * ss \in Nat /\ total * w \in Nat /\ total * ww \in Nat
  OBVIOUS
<1>3. QED
  BY <1>1, <1>2

\* Shares rounded down add up to no more than the total.
LEMMA SharesFit ==
  ASSUME NEW S, IsFiniteSet(S), NEW total \in Nat, NEW all \in Nat \ {0},
         NEW weight, \A p \in S : weight[p] \in Nat, SumFunctionOnSet(weight, S) <= all,
         NEW share, \A p \in S : share[p] = (total * weight[p]) \div all
  PROVE  /\ \A p \in S : share[p] \in Nat
         /\ SumFunctionOnSet(share, S) \in Nat
         /\ SumFunctionOnSet(share, S) <= total
<1> DEFINE G == {T \in SUBSET S : all * SumFunctionOnSet(share, T) <= total * SumFunctionOnSet(weight, T)}
<1>1. \A p \in S : share[p] \in Nat /\ all * share[p] <= total * weight[p]
  BY FloorOfShare
<1>2. \A T \in SUBSET S : IsFiniteSet(T) /\ SumFunctionOnSet(share, T) \in Nat /\ SumFunctionOnSet(weight, T) \in Nat
  <2>1. ASSUME NEW T \in SUBSET S
        PROVE  /\ IsFiniteSet(T) /\ \A p \in T : share[p] \in Nat
               /\ \A p \in T : weight[p] \in Nat
    BY <1>1, FS_Subset
  <2>2. QED
    BY <2>1, SumOfNumbers
<1>3. ASSUME NEW T \in SUBSET S, \A U \in SUBSET T : U # T => U \in G
      PROVE  T \in G
  <2>1. CASE T = {}
    <3>1. SumFunctionOnSet(share, T) = 0 /\ SumFunctionOnSet(weight, T) = 0
      BY <2>1, SumEmpty
    <3>2. all * 0 <= total * 0
      OBVIOUS
    <3>3. QED
      BY <3>1, <3>2
  <2>2. ASSUME NEW x \in T PROVE T \in G
    <3> DEFINE U == T \ {x}
    <3>1. U \in G
      BY <1>3
    <3>2. (\A p \in T : share[p] \in Int) /\ \A p \in T : weight[p] \in Int
      BY <1>1
    <3>3. SumFunctionOnSet(share, T) = share[x] + SumFunctionOnSet(share, U)
      BY ONLY <1>2, <3>2, T \in SUBSET S, x \in T, SumTake
    <3>4. SumFunctionOnSet(weight, T) = weight[x] + SumFunctionOnSet(weight, U)
      BY ONLY <1>2, <3>2, T \in SUBSET S, x \in T, SumTake
    <3>5. all * SumFunctionOnSet(share, U) <= total * SumFunctionOnSet(weight, U)
      BY <3>1
    <3>6. U \in SUBSET S /\ x \in S
      OBVIOUS
    <3> HIDE DEF U
    <3>7. all * (share[x] + SumFunctionOnSet(share, U)) <= total * (weight[x] + SumFunctionOnSet(weight, U))
      BY ONLY <1>1, <1>2, <3>5, <3>6, SharesGrow, total \in Nat, all \in Nat, \A p \in S : weight[p] \in Nat
    <3>8. QED
      BY <3>3, <3>4, <3>7
  <2>3. QED
    BY <2>1, <2>2
<1>4. S \in G
  <2> HIDE DEF G
  <2>1. QED
    BY <1>3, SubsetInduction
<1> DEFINE s == SumFunctionOnSet(share, S)
           w == SumFunctionOnSet(weight, S)
<1>5. s \in Nat /\ w \in Nat /\ all * s <= total * w
  BY <1>2, <1>4
<1>6. s <= total
  <2> HIDE DEF s, w, G
  <2>1. w <= all
    BY DEF w
  <2>2. SUFFICES ASSUME s >= total + 1 PROVE FALSE
    BY <1>5
  <2>3. all * s >= all * (total + 1)
    BY ONLY <1>5, <2>2, total \in Nat, all \in Nat \ {0}, Z3
  <2>4. total * w <= total * all
    BY ONLY <1>5, <2>1, total \in Nat, all \in Nat \ {0}, Z3
  <2>5. all * (total + 1) = total * all + all
    BY ONLY total \in Nat, all \in Nat \ {0}, Z3
  <2>6. QED
    BY ONLY <1>5, <2>3, <2>4, <2>5, total \in Nat, all \in Nat \ {0}, all * s \in Nat, total * w \in Nat, total * all \in Nat
<1>7. QED
  BY <1>1, <1>5, <1>6

LEMMA WeightType ==
  ASSUME NEW D, IsFiniteSet(D), NEW seen \in [D -> [clicks : Nat, spend : Nat]], NEW p \in D
  PROVE  Weight(seen, p) \in Nat
<1> DEFINE factor == [q \in DOMAIN seen |-> IF seen[q].clicks = 0 THEN 1 ELSE seen[q].clicks + seen[q].spend]
           S == (DOMAIN seen) \ {p}
<1>1. IsFiniteSet(S) /\ \A q \in S : factor[q] \in Nat
  BY FS_RemoveElement
<1>2. ProductOn(factor, S) \in Nat
  <2> HIDE DEF factor, S
  <2>1. QED
    BY <1>1, ProductOfNumbers
<1>3. Weight(seen, p) = IF seen[p].clicks = 0 THEN 0 ELSE seen[p].clicks * ProductOn(factor, S)
  BY DEF Weight, ProductOn
<1> HIDE DEF factor, S
<1>4. \A m, n \in Nat : m * n \in Nat
  OBVIOUS
<1>5. seen[p].clicks \in Nat
  OBVIOUS
<1>6. QED
  BY <1>2, <1>3, <1>4, <1>5

\* The next plan of an experiment spends what the last one did, and nothing less than nothing,
\* for any platforms, any budget and any clicks and spends that were seen, not only the
\* small ones of NextPlanAddsUp (_reallocate_budget).
THEOREM NextPlanIsWhole ==
  ASSUME NEW D, IsFiniteSet(D), D # {}, NEW total \in Nat,
         NEW seen \in [D -> [clicks : Nat, spend : Nat]],
         NEW plan, plan = Reallocated(total, seen), plan # None
  PROVE  SumFunction(plan) = total /\ \A p \in D : plan[p] \in Nat
<1> DEFINE weight == [p \in DOMAIN seen |-> Weight(seen, p)]
           all == SumFunction(weight)
           worst == CHOOSE p \in DOMAIN seen : \A q \in DOMAIN seen : weight[p] <= weight[q]
           others == (DOMAIN seen) \ {worst}
           share == [p \in others |-> (total * weight[p]) \div all]
<1>0. DOMAIN seen = D
  OBVIOUS
<1>1. \A p \in D : weight[p] \in Nat
  BY WeightType
<1>2. worst \in D /\ \A q \in D : weight[worst] <= weight[q]
  <2>1. \A p \in D : weight[p] \in Int
    BY <1>1
  <2>2. \E p \in D : \A q \in D : weight[p] <= weight[q]
    <3> HIDE DEF weight
    <3>1. QED
      BY <2>1, LeastExists
  <2> HIDE DEF weight
  <2>3. QED
    BY <1>0, <2>2 DEF worst
<1>3. DOMAIN weight = D /\ DOMAIN share = others
  OBVIOUS
<1>4. plan = IF all = 0 /\ others # {} THEN None
             ELSE [p \in DOMAIN seen |-> IF p = worst THEN total - SumFunction(share) ELSE share[p]]
  BY DEF Reallocated
<1>a. all = SumFunctionOnSet(weight, D) /\ SumFunction(share) = SumFunctionOnSet(share, others)
  BY <1>3, Zenon DEF SumFunction
<1>5. plan = [p \in D |-> IF p = worst THEN total - SumFunctionOnSet(share, others) ELSE share[p]]
  <2>1. ~(all = 0 /\ others # {})
    BY <1>4
  <2> HIDE DEF all, others, worst, share
  <2>2. QED
    BY <1>0, <1>4, <1>a, <2>1
<1>6. others # {} => all # 0
  BY <1>4
<1>7. IsFiniteSet(others) /\ others \subseteq D /\ worst \notin others
  BY <1>0, FS_RemoveElement
<1>8. all \in Nat
  <2> HIDE DEF weight, all
  <2>1. QED
    BY <1>1, <1>a, SumOfNumbers
<1>9. /\ \A p \in others : share[p] \in Nat
      /\ SumFunctionOnSet(share, others) \in Nat
      /\ SumFunctionOnSet(share, others) <= total
  <2>1. CASE others = {}
    <3>1. SumFunctionOnSet(share, others) = 0
      <4> HIDE DEF share, others
      <4>1. QED
        BY <2>1, SumEmpty, Zenon
    <3> HIDE DEF share, others
    <3>2. QED
      BY <2>1, <3>1
  <2>2. CASE others # {}
    <3>1. all \in Nat \ {0}
      BY <1>6, <1>8, <2>2
    <3>2. SumFunctionOnSet(weight, others) <= all
      <4> HIDE DEF weight, others, all
      <4>1. QED
        BY <1>1, <1>7, <1>a, SumOfPart
    <3>3. \A p \in others : share[p] = (total * weight[p]) \div all
      OBVIOUS
    <3>4. \A p \in others : weight[p] \in Nat
      BY <1>1, <1>7
    <3> HIDE DEF weight, share, others, all
    <3>5. QED
      BY ONLY <1>7, <3>1, <3>2, <3>3, <3>4, SharesFit, total \in Nat
  <2>3. QED
    BY <2>1, <2>2
<1> HIDE DEF weight, share, others, worst, all
<1>10. \A p \in D : plan[p] \in Nat
  <2>1. \A p \in D : p # worst => p \in others
    BY <1>0 DEF others
  <2>2. total - SumFunctionOnSet(share, others) \in Nat
    BY <1>9
  <2>3. QED
    BY <1>5, <1>9, <2>1, <2>2
<1>11. SumFunctionOnSet(plan, D) = plan[worst] + SumFunctionOnSet(plan, others)
  <2>1. \A p \in D : plan[p] \in Int
    BY <1>10
  <2>2. QED
    BY <1>0, <1>2, <2>1, SumTake DEF others
<1>12. SumFunctionOnSet(plan, others) = SumFunctionOnSet(share, others)
  <2>1. \A p \in others : plan[p] = share[p] /\ share[p] \in Int
    BY <1>5, <1>7, <1>9
  <2>2. QED
    BY ONLY <1>7, <2>1, SumSame
<1>13. plan[worst] = total - SumFunctionOnSet(share, others)
  BY <1>2, <1>5
<1>14. SumFunctionOnSet(plan, D) = total
  BY ONLY <1>9, <1>11, <1>12, <1>13, total \in Nat
<1>15. SumFunction(plan) = SumFunctionOnSet(plan, D)
  <2>1. DOMAIN plan = D
    BY <1>5
  <2>2. QED
    BY <2>1, Zenon DEF SumFunction
<1>16. QED
  BY <1>10, <1>14, <1>15

\* What is kept of an experiment's money: its entries, once it has a round.
PlanOf(x) == BudgetPlan(test[x].platforms, test[x].budget)
RoundAmounts(x) == PlaceAmounts(test[x].platforms, PlanOf(x))
EntriesOf(x, to) == {a \in allocated : a.of = x /\ a.to = to}

TestsTyped ==
  /\ test \in [Tests -> Test \cup {None}]
  /\ listing \in [Tests -> SUBSET ListedIds]
  /\ allocated \subseteq Allocation

\* A request or task is about an experiment there is, and opens a round of one with platforms.
WorkTyped ==
  /\ DOMAIN work = Starters
  /\ \A w \in Starters : work[w] # None =>
       /\ work[w].step \in {"look", "insert", "close", "replace"}
       /\ work[w].of \in Tests /\ test[work[w].of] # None
       /\ work[w].step = "insert" => test[work[w].of].platforms # <<>>
       /\ work[w].items \subseteq ListedIds

\* The one round of an experiment has the plan of its platforms and budget.
RoundsPlanned ==
  /\ \A r \in rounds : /\ r.of \in Tests /\ test[r.of] # None
                       /\ test[r.of].platforms # <<>>
                       /\ r.plan = PlanOf(r.of)
  /\ \A r, q \in rounds : r.of = q.of => r = q

\* The entries are those of one start and of the round, whole, or none.
EntriesWhole ==
  \A x \in Tests :
    /\ EntriesOf(x, "test") = {} \/ \E budget \in Budgets :
         test[x] # None /\ EntriesOf(x, "test") = Allocations(x, "test", Split(budget, Len(EnginePlatforms)))
    /\ IF FirstRound(x) THEN EntriesOf(x, "round") = Allocations(x, "round", RoundAmounts(x))
                        ELSE EntriesOf(x, "round") = {}

ExpInv == TestsTyped /\ WorkTyped /\ RoundsPlanned /\ EntriesWhole

LEMMA PlatformsAre ==
  ASSUME NEW x \in Tests, test \in [Tests -> Test \cup {None}], test[x] # None
  PROVE  /\ test[x] \in Test /\ test[x].budget \in Nat
         /\ test[x].platforms # <<>> =>
              \E n \in Nat \ {0} : test[x].platforms \in [1 .. n -> TestChannels]
<1>1. test[x] \in Test
  OBVIOUS
<1>2. test[x].budget \in Nat
  <2>1. test[x].budget \in Budgets \cup {0}
    BY <1>1 DEF Test
  <2>2. \A b \in Budgets : b \in Nat
    BY ExperimentsAssumption
  <2>3. QED
    BY <2>1, <2>2
<1>3. test[x].platforms \in PlatformLists \cup {<<>>}
  BY <1>1 DEF Test
<1>4. test[x].platforms \in PlatformLists => \E n \in Nat \ {0} : test[x].platforms \in [1 .. n -> TestChannels]
  <2>1. \A n \in 1 .. MaxList : n \in Nat \ {0}
    BY ExperimentsAssumption
  <2>2. QED
    BY <2>1 DEF PlatformLists
<1>5. QED
  BY <1>1, <1>2, <1>3, <1>4

\* The entries of other experiments, or to another end, are not among an experiment's.
LEMMA EntriesApart ==
  ASSUME NEW x \in Tests, NEW to \in {"test", "round"}, NEW n \in Nat, NEW amounts \in [1 .. n -> Nat]
  PROVE  /\ Allocations(x, to, amounts) \subseteq Allocation
         /\ \A a \in Allocations(x, to, amounts) : a.of = x /\ a.to = to
  BY AllocationsAddUp

\* Adding the entries of an experiment, to one end, of which there are none.
LEMMA EntriesAdded ==
  ASSUME TestsTyped, NEW x \in Tests, NEW to \in {"test", "round"},
         NEW n \in Nat, NEW amounts \in [1 .. n -> Nat],
         allocated' = allocated \cup Allocations(x, to, amounts),
         EntriesOf(x, to) = {}
  PROVE  /\ allocated' \subseteq Allocation
         /\ EntriesOf(x, to)' = Allocations(x, to, amounts)
         /\ \A y \in Tests, end \in {"test", "round"} :
              y # x \/ end # to => EntriesOf(y, end)' = EntriesOf(y, end)
<1> DEFINE A == Allocations(x, to, amounts)
<1>1. A \subseteq Allocation /\ \A a \in A : a.of = x /\ a.to = to
  BY EntriesApart
<1> HIDE DEF A
<1>2. allocated' = allocated \cup A
  BY DEF A
<1>3. allocated' \subseteq Allocation
  BY <1>1, <1>2 DEF TestsTyped
<1>4. EntriesOf(x, to)' = A
  <2>1. \A a \in allocated : ~(a.of = x /\ a.to = to)
    BY DEF EntriesOf
  <2>2. QED
    BY <1>1, <1>2, <2>1 DEF EntriesOf
<1>5. ASSUME NEW y \in Tests, NEW end \in {"test", "round"}, y # x \/ end # to
      PROVE  EntriesOf(y, end)' = EntriesOf(y, end)
  <2>1. \A a \in A : ~(a.of = y /\ a.to = end)
    BY <1>1, <1>5
  <2>2. QED
    BY <1>2, <2>1 DEF EntriesOf
<1>6. QED
  BY <1>3, <1>4, <1>5 DEF A

LEMMA AmountsTyped ==
  ASSUME TestsTyped, NEW x \in Tests, test[x] # None, test[x].platforms # <<>>
  PROVE  \E n \in Nat : RoundAmounts(x) \in [1 .. n -> Nat]
<1>1. PICK n \in Nat \ {0} : test[x].platforms \in [1 .. n -> TestChannels]
  BY PlatformsAre DEF TestsTyped
<1>2. test[x].budget \in Nat
  BY PlatformsAre DEF TestsTyped
<1>3. RoundAmounts(x) \in [1 .. n -> Nat]
  <2>1. ASSUME NEW list \in [1 .. n -> TestChannels], NEW budget \in Nat
        PROVE  PlaceAmounts(list, BudgetPlan(list, budget)) \in [1 .. n -> Nat]
    BY BudgetPlanAddsUp
  <2>2. QED
    BY <1>1, <1>2, <2>1, Zenon DEF RoundAmounts, PlanOf
<1>4. QED
  BY <1>3

LEMMA ExpInit == ExperimentsInit => ExpInv
<1> SUFFICES ASSUME ExperimentsInit PROVE ExpInv
  OBVIOUS
<1> USE DEF ExperimentsInit
<1>1. TestsTyped
  BY DEF TestsTyped
<1>2. WorkTyped
  BY DEF WorkTyped
<1>3. RoundsPlanned
  BY DEF RoundsPlanned
<1>4. EntriesWhole
  <2>1. \A x, to : EntriesOf(x, to) = {}
    BY DEF EntriesOf
  <2>2. QED
    BY <2>1 DEF EntriesWhole, FirstRound
<1>5. QED
  BY <1>1, <1>2, <1>3, <1>4 DEF ExpInv

\* What a step keeps of the experiments there are: their platforms and budgets.
Kept(x) == /\ test'[x] # None
           /\ test'[x].platforms = test[x].platforms /\ test'[x].budget = test[x].budget

\* A step that takes no money and opens no round.
LEMMA MoneyKept ==
  ASSUME ExpInv, UNCHANGED <<rounds, allocated>>, \A x \in Tests : test[x] # None => Kept(x)
  PROVE  RoundsPlanned' /\ EntriesWhole'
<1>1. \A r \in rounds : test[r.of] # None => PlanOf(r.of)' = PlanOf(r.of)
  BY DEF ExpInv, RoundsPlanned, PlanOf, Kept
<1>2. RoundsPlanned'
  BY <1>1 DEF ExpInv, RoundsPlanned, Kept
<1>3. ASSUME NEW x \in Tests
      PROVE  /\ EntriesOf(x, "test")' = EntriesOf(x, "test")
             /\ EntriesOf(x, "round")' = EntriesOf(x, "round")
             /\ FirstRound(x)' <=> FirstRound(x)
             /\ FirstRound(x) => RoundAmounts(x)' = RoundAmounts(x)
  <2>1. FirstRound(x) => test[x] # None
    BY DEF FirstRound, ExpInv, RoundsPlanned
  <2>2. test[x] # None => RoundAmounts(x)' = RoundAmounts(x)
    BY DEF RoundAmounts, PlanOf, Kept
  <2>3. QED
    BY <2>1, <2>2 DEF EntriesOf, FirstRound
<1>4. EntriesWhole'
  <2>1. ASSUME NEW x \in Tests
        PROVE  EntriesOf(x, "test")' = {} \/ \E budget \in Budgets :
          test'[x] # None /\ EntriesOf(x, "test")' = Allocations(x, "test", Split(budget, Len(EnginePlatforms)))
    BY <1>3 DEF ExpInv, EntriesWhole, Kept
  <2>2. ASSUME NEW x \in Tests
        PROVE  IF FirstRound(x)' THEN EntriesOf(x, "round")' = Allocations(x, "round", RoundAmounts(x)')
                                 ELSE EntriesOf(x, "round")' = {}
    BY <1>3 DEF ExpInv, EntriesWhole
  <2>3. QED
    BY <2>1, <2>2 DEF EntriesWhole
<1>5. QED
  BY <1>2, <1>4

\* Work of one request or task that ends.
LEMMA WorkEnds ==
  ASSUME WorkTyped, NEW w \in Starters, work' = [work EXCEPT ![w] = None],
         \A x \in Tests : test[x] # None => Kept(x)
  PROVE  WorkTyped'
  BY DEF WorkTyped, Kept

LEMMA StartTestKeeps ==
  ASSUME ExpInv, NEW x \in Tests, NEW budget \in Budgets, StartTest(x, budget)
  PROVE  ExpInv'
<1> USE DEF ExpInv
<1> DEFINE new == [status |-> "draft", platforms |-> <<>>, budget |-> 0, processing |-> FALSE]
           amounts == Split(budget, Len(EnginePlatforms))
<1>1. /\ test[x] = None
      /\ allocated' = allocated \cup Allocations(x, "test", amounts)
      /\ UNCHANGED <<rounds, listing, work>>
  BY DEF StartTest
<1>2. new \in Test
  BY DEF Test
<1>a. test' = [test EXCEPT ![x] = new]
  BY DEF StartTest
<1>3. /\ test' \in [Tests -> Test \cup {None}]
      /\ test'[x] # None
      /\ \A y \in Tests : y # x => test'[y] = test[y]
  BY <1>2, <1>a, ExperimentsAssumption DEF TestsTyped
<1> HIDE DEF new
<1>4. amounts \in [1 .. 3 -> Nat]
  <2>1. budget \in Nat
    BY ExperimentsAssumption
  <2>2. Len(EnginePlatforms) = 3
    BY DEF EnginePlatforms
  <2>3. 3 \in Nat \ {0}
    OBVIOUS
  <2>4. Split(budget, 3) \in [1 .. 3 -> Nat]
    BY ONLY <2>1, <2>3, SplitAddsUp
  <2>5. amounts = Split(budget, 3)
    BY <2>2
  <2>6. QED
    BY ONLY <2>4, <2>5
<1>5. EntriesOf(x, "test") = {}
  BY <1>1 DEF EntriesWhole
<1>6. /\ allocated' \subseteq Allocation
      /\ EntriesOf(x, "test")' = Allocations(x, "test", amounts)
      /\ \A y \in Tests, end \in {"test", "round"} :
           y # x \/ end # "test" => EntriesOf(y, end)' = EntriesOf(y, end)
  <2> HIDE DEF amounts
  <2>1. QED
    BY <1>1, <1>4, <1>5, EntriesAdded
<1>7. TestsTyped'
  BY <1>1, <1>3, <1>6 DEF TestsTyped
<1>8. \A y \in Tests : test[y] # None => Kept(y)
  BY <1>1, <1>3 DEF Kept
<1>9. WorkTyped'
  BY <1>1, <1>8 DEF WorkTyped, Kept
<1>10. RoundsPlanned'
  BY <1>1, <1>8 DEF RoundsPlanned, PlanOf, Kept
<1>11. \A y \in Tests : FirstRound(y)' <=> FirstRound(y)
  BY <1>1 DEF FirstRound
<1>12. \A y \in Tests : FirstRound(y) => RoundAmounts(y)' = RoundAmounts(y)
  <2>1. \A y \in Tests : FirstRound(y) => test[y] # None
    BY DEF FirstRound, RoundsPlanned
  <2>2. QED
    BY <1>8, <2>1 DEF RoundAmounts, PlanOf, Kept
<1>13. EntriesWhole'
  <2>1. ASSUME NEW y \in Tests
        PROVE  EntriesOf(y, "test")' = {} \/ \E b \in Budgets :
          test'[y] # None /\ EntriesOf(y, "test")' = Allocations(y, "test", Split(b, Len(EnginePlatforms)))
    <3>1. CASE y = x
      BY <1>3, <1>6, <3>1
    <3>2. CASE y # x
      BY <1>3, <1>6, <3>2 DEF EntriesWhole
    <3>3. QED
      BY <3>1, <3>2
  <2>2. ASSUME NEW y \in Tests
        PROVE  IF FirstRound(y)' THEN EntriesOf(y, "round")' = Allocations(y, "round", RoundAmounts(y)')
                                 ELSE EntriesOf(y, "round")' = {}
    <3>1. EntriesOf(y, "round")' = EntriesOf(y, "round")
      BY <1>6
    <3>2. QED
      BY <1>11, <1>12, <3>1 DEF EntriesWhole
  <2>3. QED
    BY <2>1, <2>2 DEF EntriesWhole
<1>14. QED
  BY <1>7, <1>9, <1>10, <1>13

LEMMA CreateExperimentKeeps ==
  ASSUME ExpInv, NEW x \in Tests, NEW platforms \in PlatformLists, NEW budget \in Budgets,
         CreateExperiment(x, platforms, budget)
  PROVE  ExpInv'
<1> USE DEF ExpInv
<1> DEFINE new == [status |-> "draft", platforms |-> platforms, budget |-> budget, processing |-> FALSE]
<1>1. /\ test[x] = None
      /\ test' = [test EXCEPT ![x] = new]
      /\ UNCHANGED <<rounds, allocated, listing, work>>
  BY DEF CreateExperiment
<1>2. new \in Test
  <2>1. QED
    BY DEF Test
<1>3. /\ test' \in [Tests -> Test \cup {None}]
      /\ \A y \in Tests : y # x => test'[y] = test[y]
  BY <1>1, <1>2 DEF TestsTyped
<1> HIDE DEF new
<1>4. \A y \in Tests : test[y] # None => Kept(y)
  BY <1>1, <1>3 DEF Kept
<1>5. RoundsPlanned' /\ EntriesWhole'
  BY <1>1, <1>4, MoneyKept
<1>6. TestsTyped'
  BY <1>1, <1>3 DEF TestsTyped
<1>7. WorkTyped'
  BY <1>1, <1>4 DEF WorkTyped, Kept
<1>8. QED
  BY <1>5, <1>6, <1>7

LEMMA StartExperimentKeeps ==
  ASSUME ExpInv, NEW w \in Starters, NEW x \in Tests, StartExperiment(w, x)
  PROVE  ExpInv'
<1> USE DEF ExpInv
<1>1. /\ test[x] # None
      /\ test' = [test EXCEPT ![x].status = "running"]
      /\ UNCHANGED <<rounds, allocated, listing>>
  BY DEF StartExperiment
<1>2. test[x] \in Test
  BY <1>1 DEF TestsTyped
<1>3. /\ [test[x] EXCEPT !.status = "running"] \in Test
      /\ [test[x] EXCEPT !.status = "running"].platforms = test[x].platforms
      /\ [test[x] EXCEPT !.status = "running"].budget = test[x].budget
  BY <1>2 DEF Test
<1>4. /\ test'[x] = [test[x] EXCEPT !.status = "running"]
      /\ \A y \in Tests : y # x => test'[y] = test[y]
      /\ test' \in [Tests -> Test \cup {None}]
  BY <1>1, <1>3 DEF TestsTyped
<1>5. \A y \in Tests : test[y] # None => Kept(y)
  BY <1>3, <1>4, ExperimentsAssumption DEF Kept
<1>6. RoundsPlanned' /\ EntriesWhole'
  BY <1>1, <1>5, MoneyKept
<1>7. TestsTyped'
  BY <1>1, <1>4 DEF TestsTyped
<1>8. work' = [work EXCEPT ![w] = [step |-> "look", of |-> x, items |-> {}]]
  BY DEF StartExperiment
<1>9. WorkTyped'
  BY <1>1, <1>5, <1>8 DEF WorkTyped, Kept
<1>10. QED
  BY <1>6, <1>7, <1>9

LEMMA LookForRoundKeeps ==
  ASSUME ExpInv, NEW w \in Starters, LookForRound(w)
  PROVE  ExpInv'
<1> USE DEF ExpInv
<1>1. UNCHANGED <<test, rounds, allocated, listing>>
  BY DEF LookForRound
<1>2. \A y \in Tests : test[y] # None => Kept(y)
  BY <1>1 DEF Kept
<1>3. RoundsPlanned' /\ EntriesWhole'
  BY <1>1, <1>2, MoneyKept
<1>4. TestsTyped'
  BY <1>1 DEF TestsTyped
<1>5. WorkTyped'
  <2>1. /\ work[w] # None
        /\ \/ work' = [work EXCEPT ![w] = None]
           \/ /\ test[work[w].of].platforms # <<>>
              /\ work' = [work EXCEPT ![w] = [work[w] EXCEPT !.step = "insert"]]
    <3>1. work' = [work EXCEPT ![w] = IF FirstRound(work[w].of) \/ test[work[w].of].platforms = <<>> THEN None
                                      ELSE [work[w] EXCEPT !.step = "insert"]]
      BY DEF LookForRound
    <3>2. work[w] # None
      BY DEF LookForRound
    <3>3. CASE FirstRound(work[w].of) \/ test[work[w].of].platforms = <<>>
      <4>1. work' = [work EXCEPT ![w] = None]
        BY <3>1, <3>3
      <4>2. QED
        BY <3>2, <4>1
    <3>4. CASE ~(FirstRound(work[w].of) \/ test[work[w].of].platforms = <<>>)
      <4>1. work' = [work EXCEPT ![w] = [work[w] EXCEPT !.step = "insert"]]
        BY <3>1, <3>4
      <4>2. QED
        BY <3>2, <3>4, <4>1, Zenon
    <3>5. QED
      BY <3>3, <3>4
  <2>2. CASE work' = [work EXCEPT ![w] = None]
    BY <1>2, <2>2, WorkEnds
  <2>3. CASE test[work[w].of].platforms # <<>> /\ work' = [work EXCEPT ![w] = [work[w] EXCEPT !.step = "insert"]]
    <3>1. \A v \in Starters : v # w => work'[v] = work[v]
      BY <2>3 DEF WorkTyped
    <3>2. work'[w] = [work[w] EXCEPT !.step = "insert"] /\ DOMAIN work' = Starters
      BY <2>3 DEF WorkTyped
    <3>3. /\ work'[w].of = work[w].of /\ work'[w].items = work[w].items
          /\ work'[w].step \in {"look", "insert", "close", "replace"}
      BY <2>1, <3>2 DEF WorkTyped
    <3>4. QED
      BY <1>1, <2>1, <2>3, <3>1, <3>2, <3>3 DEF WorkTyped
  <2>4. QED
    BY <2>1, <2>2, <2>3
<1>6. QED
  BY <1>3, <1>4, <1>5

LEMMA CreateRoundKeeps ==
  ASSUME ExpInv, NEW w \in Starters, CreateRound(w)
  PROVE  ExpInv'
<1> USE DEF ExpInv
<1>1. /\ work[w] # None /\ work[w].step = "insert"
      /\ work' = [work EXCEPT ![w] = None]
      /\ UNCHANGED <<test, listing>>
  BY DEF CreateRound
<1>2. PICK x \in Tests : x = work[w].of /\ test[x] # None /\ test[x].platforms # <<>>
  BY <1>1 DEF WorkTyped
<1>3. \A y \in Tests : test[y] # None => Kept(y)
  BY <1>1 DEF Kept
<1>4. WorkTyped'
  BY <1>1, <1>3, WorkEnds
<1>5. CASE FirstRound(x)
  <2>1. UNCHANGED <<rounds, allocated>>
    BY <1>2, <1>5 DEF CreateRound
  <2>2. RoundsPlanned' /\ EntriesWhole'
    BY <1>3, <2>1, MoneyKept
  <2>3. TestsTyped'
    BY <1>1, <2>1 DEF TestsTyped
  <2>4. QED
    BY <1>4, <2>2, <2>3
<1>6. CASE ~FirstRound(x)
  <2>1. /\ rounds' = rounds \cup {[of |-> x, plan |-> PlanOf(x)]}
        /\ allocated' = allocated \cup Allocations(x, "round", RoundAmounts(x))
    BY <1>2, <1>6 DEF CreateRound, PlanOf, RoundAmounts
  <2>2. PICK n \in Nat : RoundAmounts(x) \in [1 .. n -> Nat]
    BY <1>2, AmountsTyped
  <2>3. EntriesOf(x, "round") = {}
    BY <1>2, <1>6 DEF EntriesWhole
  <2>4. /\ allocated' \subseteq Allocation
        /\ EntriesOf(x, "round")' = Allocations(x, "round", RoundAmounts(x))
        /\ \A y \in Tests, end \in {"test", "round"} :
             y # x \/ end # "round" => EntriesOf(y, end)' = EntriesOf(y, end)
    <3> DEFINE amounts == RoundAmounts(x)
    <3>1. amounts \in [1 .. n -> Nat] /\ allocated' = allocated \cup Allocations(x, "round", amounts)
      BY <2>1, <2>2
    <3>2. n \in Nat
      OBVIOUS
    <3> HIDE DEF amounts
    <3>3. /\ allocated' \subseteq Allocation
          /\ EntriesOf(x, "round")' = Allocations(x, "round", amounts)
          /\ \A y \in Tests, end \in {"test", "round"} :
               y # x \/ end # "round" => EntriesOf(y, end)' = EntriesOf(y, end)
      BY <2>3, <3>1, <3>2, EntriesAdded
    <3>4. QED
      BY <3>3 DEF amounts
  <2>5. TestsTyped'
    BY <1>1, <2>4 DEF TestsTyped
  <2>6. /\ \A y \in Tests : PlanOf(y)' = PlanOf(y)
        /\ \A y \in Tests : RoundAmounts(y)' = RoundAmounts(y)
    BY <1>1 DEF PlanOf, RoundAmounts
  <2>7. RoundsPlanned'
    <3>1. \A r \in rounds : r.of # x
      BY <1>6 DEF FirstRound
    <3>2. ASSUME NEW r \in rounds'
          PROVE  /\ r.of \in Tests /\ test'[r.of] # None
                 /\ test'[r.of].platforms # <<>>
                 /\ r.plan = PlanOf(r.of)'
      <4>1. CASE r \in rounds
        BY <1>1, <2>6, <4>1 DEF RoundsPlanned
      <4>2. CASE r = [of |-> x, plan |-> PlanOf(x)]
        BY <1>1, <1>2, <2>6, <4>2
      <4>3. QED
        BY <2>1, <4>1, <4>2
    <3>3. ASSUME NEW r \in rounds', NEW q \in rounds', r.of = q.of
          PROVE  r = q
      BY <2>1, <3>1, <3>3 DEF RoundsPlanned
    <3>4. QED
      BY <3>2, <3>3 DEF RoundsPlanned
  <2>8. /\ FirstRound(x)'
        /\ \A y \in Tests : y # x => (FirstRound(y)' <=> FirstRound(y))
    <3>1. \A r : r \in rounds' <=> r \in rounds \/ r = [of |-> x, plan |-> PlanOf(x)]
      BY <2>1
    <3>2. [of |-> x, plan |-> PlanOf(x)].of = x
      OBVIOUS
    <3>3. FirstRound(x)'
      BY <3>1, <3>2, Zenon DEF FirstRound
    <3>4. ASSUME NEW y \in Tests, y # x PROVE FirstRound(y)' <=> FirstRound(y)
      BY <3>1, <3>2, <3>4 DEF FirstRound
    <3>5. QED
      BY <3>3, <3>4
  <2>9. EntriesWhole'
    <3>1. ASSUME NEW y \in Tests
          PROVE  EntriesOf(y, "test")' = {} \/ \E b \in Budgets :
            test'[y] # None /\ EntriesOf(y, "test")' = Allocations(y, "test", Split(b, Len(EnginePlatforms)))
      BY <1>1, <2>4 DEF EntriesWhole
    <3>2. ASSUME NEW y \in Tests
          PROVE  IF FirstRound(y)' THEN EntriesOf(y, "round")' = Allocations(y, "round", RoundAmounts(y)')
                                   ELSE EntriesOf(y, "round")' = {}
      <4>1. CASE y = x
        BY <1>2, <2>4, <2>6, <2>8, <4>1
      <4>2. CASE y # x
        BY <2>4, <2>6, <2>8, <4>2 DEF EntriesWhole
      <4>3. QED
        BY <4>1, <4>2
    <3>3. QED
      BY <3>1, <3>2 DEF EntriesWhole
  <2>10. QED
    BY <1>4, <2>5, <2>7, <2>9
<1>7. QED
  BY <1>5, <1>6

LEMMA CloseRoundKeeps ==
  ASSUME ExpInv, NEW w \in Starters, NEW x \in Tests, CloseRound(w, x)
  PROVE  ExpInv'
<1> USE DEF ExpInv
<1>1. /\ test[x] # None
      /\ test' = [test EXCEPT ![x].processing = TRUE]
      /\ UNCHANGED <<rounds, allocated, listing>>
  BY DEF CloseRound
<1>2. test[x] \in Test
  BY <1>1 DEF TestsTyped
<1>3. /\ [test[x] EXCEPT !.processing = TRUE] \in Test
      /\ [test[x] EXCEPT !.processing = TRUE].platforms = test[x].platforms
      /\ [test[x] EXCEPT !.processing = TRUE].budget = test[x].budget
  BY <1>2 DEF Test
<1>4. /\ test'[x] = [test[x] EXCEPT !.processing = TRUE]
      /\ \A y \in Tests : y # x => test'[y] = test[y]
      /\ test' \in [Tests -> Test \cup {None}]
  BY <1>1, <1>3 DEF TestsTyped
<1>5. \A y \in Tests : test[y] # None => Kept(y)
  BY <1>3, <1>4, ExperimentsAssumption DEF Kept
<1>6. RoundsPlanned' /\ EntriesWhole'
  BY <1>1, <1>5, MoneyKept
<1>7. TestsTyped'
  BY <1>1, <1>4 DEF TestsTyped
<1>8. work' = [work EXCEPT ![w] = [step |-> "close", of |-> x, items |-> {}]]
  BY DEF CloseRound
<1>9. WorkTyped'
  BY <1>1, <1>5, <1>8 DEF WorkTyped, Kept
<1>10. QED
  BY <1>6, <1>7, <1>9

LEMMA NoOpenRoundKeeps ==
  ASSUME ExpInv, NEW w \in Starters, NoOpenRound(w)
  PROVE  ExpInv'
<1> USE DEF ExpInv
<1> DEFINE x == work[w].of
<1>1. /\ work[w] # None
      /\ test' = [test EXCEPT ![x].processing = FALSE]
      /\ UNCHANGED <<rounds, allocated, listing>>
      /\ work' = [work EXCEPT ![w] = None]
  BY DEF NoOpenRound
<1>2. x \in Tests /\ test[x] # None /\ test[x] \in Test
  BY <1>1 DEF TestsTyped, WorkTyped
<1> HIDE DEF x
<1>3. /\ [test[x] EXCEPT !.processing = FALSE] \in Test
      /\ [test[x] EXCEPT !.processing = FALSE].platforms = test[x].platforms
      /\ [test[x] EXCEPT !.processing = FALSE].budget = test[x].budget
  BY <1>2 DEF Test
<1>4. /\ test'[x] = [test[x] EXCEPT !.processing = FALSE]
      /\ \A y \in Tests : y # x => test'[y] = test[y]
      /\ test' \in [Tests -> Test \cup {None}]
  BY <1>1, <1>2, <1>3 DEF TestsTyped
<1>5. \A y \in Tests : test[y] # None => Kept(y)
  BY <1>3, <1>4, ExperimentsAssumption DEF Kept
<1>6. RoundsPlanned' /\ EntriesWhole'
  BY <1>1, <1>5, MoneyKept
<1>7. TestsTyped'
  BY <1>1, <1>4 DEF TestsTyped
<1>8. WorkTyped'
  BY <1>1, <1>5, WorkEnds
<1>9. QED
  BY <1>6, <1>7, <1>8

LEMMA CampaignsKeep ==
  ASSUME ExpInv, NEW w \in Starters,
         ReplaceCampaigns(w) \/ LoseWork(w)
         \/ \E x \in Tests, items \in SUBSET ListedIds : UpdateCampaigns(w, x, items)
  PROVE  ExpInv'
<1> USE DEF ExpInv
<1>1. UNCHANGED <<test, rounds, allocated>>
  BY DEF ReplaceCampaigns, LoseWork, UpdateCampaigns
<1>2. \A y \in Tests : test[y] # None => Kept(y)
  BY <1>1 DEF Kept
<1>3. RoundsPlanned' /\ EntriesWhole'
  BY <1>1, <1>2, MoneyKept
<1>4. CASE ReplaceCampaigns(w)
  <2>1. work[w] # None /\ work' = [work EXCEPT ![w] = None]
    BY <1>4 DEF ReplaceCampaigns
  <2>2. work[w].of \in Tests /\ work[w].items \subseteq ListedIds
    BY <2>1 DEF WorkTyped
  <2>3. listing' = [listing EXCEPT ![work[w].of] =
          IF (listing[work[w].of] \ work[w].old) \cap work[w].items # {} THEN listing[work[w].of]
          ELSE (listing[work[w].of] \ work[w].old) \cup work[w].items]
    BY <1>4 DEF ReplaceCampaigns
  <2>4. listing' \in [Tests -> SUBSET ListedIds]
    BY <2>2, <2>3 DEF TestsTyped
  <2>5. TestsTyped'
    BY <1>1, <2>4 DEF TestsTyped
  <2>6. WorkTyped'
    BY <1>2, <2>1, WorkEnds
  <2>7. QED
    BY <1>3, <2>5, <2>6
<1>5. CASE LoseWork(w)
  <2>1. work' = [work EXCEPT ![w] = None] /\ listing' = listing
    BY <1>5 DEF LoseWork
  <2>2. WorkTyped'
    BY <1>2, <2>1, WorkEnds
  <2>3. TestsTyped'
    BY <1>1, <2>1 DEF TestsTyped
  <2>4. QED
    BY <1>3, <2>2, <2>3
<1>6. ASSUME NEW x \in Tests, NEW items \in SUBSET ListedIds, UpdateCampaigns(w, x, items)
      PROVE  ExpInv'
  <2>1. /\ test[x] # None /\ listing' = listing
        /\ work' = [work EXCEPT ![w] = [step |-> "replace", of |-> x, items |-> items, old |-> listing[x]]]
    BY <1>6 DEF UpdateCampaigns
  <2>2. WorkTyped'
    BY <1>1, <2>1 DEF WorkTyped
  <2>3. TestsTyped'
    BY <1>1, <2>1 DEF TestsTyped
  <2>4. QED
    BY <1>3, <2>2, <2>3
<1>7. QED
  BY <1>4, <1>5, <1>6

LEMMA ExpStep == ExpInv /\ [ExperimentsStep \/ ExperimentsFault]_testVars => ExpInv'
<1> SUFFICES ASSUME ExpInv, [ExperimentsStep \/ ExperimentsFault]_testVars PROVE ExpInv'
  OBVIOUS
<1>1. CASE UNCHANGED testVars
  <2>1. UNCHANGED <<test, rounds, allocated, listing, work>>
    BY <1>1 DEF testVars
  <2>2. \A y \in Tests : test[y] # None => Kept(y)
    BY <2>1 DEF Kept
  <2>3. RoundsPlanned' /\ EntriesWhole'
    BY <2>1, <2>2, MoneyKept
  <2>4. TestsTyped' /\ WorkTyped'
    BY <2>1 DEF ExpInv, TestsTyped, WorkTyped
  <2>5. QED
    BY <2>3, <2>4 DEF ExpInv
<1>2. ASSUME NEW x \in Tests, NEW budget \in Budgets, StartTest(x, budget) PROVE ExpInv'
  BY <1>2, StartTestKeeps
<1>3. ASSUME NEW x \in Tests, NEW budget \in Budgets, NEW platforms \in PlatformLists,
             CreateExperiment(x, platforms, budget)
      PROVE  ExpInv'
  BY <1>3, CreateExperimentKeeps
<1>4. ASSUME NEW w \in Starters,
             LookForRound(w) \/ CreateRound(w) \/ NoOpenRound(w) \/ ReplaceCampaigns(w) \/ LoseWork(w)
      PROVE  ExpInv'
  BY <1>4, LookForRoundKeeps, CreateRoundKeeps, NoOpenRoundKeeps, CampaignsKeep
<1>5. ASSUME NEW w \in Starters, NEW x \in Tests, StartExperiment(w, x) \/ CloseRound(w, x)
      PROVE  ExpInv'
  BY <1>5, StartExperimentKeeps, CloseRoundKeeps
<1>6. ASSUME NEW w \in Starters, NEW x \in Tests, NEW items \in SUBSET ListedIds, UpdateCampaigns(w, x, items)
      PROVE  ExpInv'
  BY <1>6, CampaignsKeep
<1>7. QED
  BY <1>1, <1>2, <1>3, <1>4, <1>5, <1>6, Zenon DEF ExperimentsStep, ExperimentsFault

LEMMA EntriesChosen ==
  ASSUME NEW x, NEW to
  PROVE  /\ AllocatedTo(x, to, {0}) = OnPlatforms(EntriesOf(x, to))
         /\ \A i : {b \in AllocatedTo(x, to, 1..2) : b.place = i} = OnCreatives(EntriesOf(x, to), i)
  BY DEF AllocatedTo, OnPlatforms, OnCreatives, EntriesOf

\* The entries of an experiment to one end are those of some amounts, or none; the round's are
\* those of its plan.
LEMMA EntriesKnown ==
  ASSUME ExpInv, NEW x \in Tests, NEW to \in {"test", "round"}, EntriesOf(x, to) # {}
  PROVE  \E n \in Nat : \E amounts \in [1 .. n -> Nat] :
           /\ EntriesOf(x, to) = Allocations(x, to, amounts)
           /\ to = "test" => \E budget \in Budgets : SumFunction(amounts) = budget
           /\ to = "round" => FirstRound(x) /\ amounts = RoundAmounts(x)
<1>1. CASE to = "test"
  <2>1. PICK budget \in Budgets : EntriesOf(x, "test") = Allocations(x, "test", Split(budget, Len(EnginePlatforms)))
    BY <1>1 DEF ExpInv, EntriesWhole
  <2>2. budget \in Nat /\ 3 \in Nat \ {0}
    BY ExperimentsAssumption
  <2>3. Split(budget, 3) \in [1 .. 3 -> Nat] /\ SumFunction(Split(budget, 3)) = budget
    BY ONLY <2>2, SplitAddsUp
  <2>4. Split(budget, Len(EnginePlatforms)) = Split(budget, 3)
    BY DEF EnginePlatforms
  <2> DEFINE amounts == Split(budget, 3)
             n == 3
  <2>5. EntriesOf(x, to) = Allocations(x, to, amounts)
    <3> HIDE DEF amounts
    <3>1. Split(budget, Len(EnginePlatforms)) = amounts
      BY <2>4 DEF amounts
    <3>2. QED
      BY <1>1, <2>1, <3>1, Zenon
  <2>6. amounts \in [1 .. n -> Nat] /\ SumFunction(amounts) = budget /\ n \in Nat
    BY <2>3
  <2> HIDE DEF amounts, n
  <2>7. to # "round"
    BY <1>1
  <2>8. QED
    BY <2>5, <2>6, <2>7, Zenon
<1>2. CASE to = "round"
  <2>1. FirstRound(x) /\ EntriesOf(x, "round") = Allocations(x, "round", RoundAmounts(x))
    BY <1>2 DEF ExpInv, EntriesWhole
  <2>2. test[x] # None /\ test[x].platforms # <<>>
    BY <2>1 DEF FirstRound, ExpInv, RoundsPlanned
  <2>3. PICK n \in Nat : RoundAmounts(x) \in [1 .. n -> Nat]
    BY <2>2, AmountsTyped DEF ExpInv
  <2>4. to # "test"
    BY <1>2
  <2> DEFINE amounts == RoundAmounts(x)
  <2>5. /\ EntriesOf(x, to) = Allocations(x, to, amounts)
        /\ amounts \in [1 .. n -> Nat] /\ amounts = RoundAmounts(x)
    BY <1>2, <2>1, <2>3, Zenon
  <2> HIDE DEF amounts
  <2>6. QED
    BY <2>1, <2>4, <2>5, Zenon
<1>3. QED
  BY <1>1, <1>2

LEMMA TotalOfNone == Total({}) = 0
<1>1. DOMAIN [a \in {} |-> a.amount] = {}
  OBVIOUS
<1>2. QED
  BY <1>1, SumEmpty, Zenon DEF Total, SumFunction

LEMMA SharesAddUpHolds == ExpInv => SharesAddUp
<1> SUFFICES ASSUME ExpInv PROVE SharesAddUp
  OBVIOUS
<1>1. ASSUME NEW x \in Tests, NEW to \in {"test", "round"}, NEW a \in AllocatedTo(x, to, {0})
      PROVE  a.amount = Total({b \in AllocatedTo(x, to, 1..2) : b.place = a.place})
  <2>1. a \in OnPlatforms(EntriesOf(x, to))
    BY EntriesChosen
  <2>2. EntriesOf(x, to) # {}
    BY <2>1 DEF OnPlatforms
  <2>3. PICK n \in Nat : \E amounts \in [1 .. n -> Nat] : EntriesOf(x, to) = Allocations(x, to, amounts)
    BY <2>2, EntriesKnown
  <2>4. PICK amounts \in [1 .. n -> Nat] : EntriesOf(x, to) = Allocations(x, to, amounts)
    BY <2>3
  <2>5. \A c \in OnPlatforms(EntriesOf(x, to)) : c.amount = Total(OnCreatives(EntriesOf(x, to), c.place))
    BY ONLY <2>4, AllocationsAddUp, x \in Tests, to \in {"test", "round"}, n \in Nat, amounts \in [1 .. n -> Nat]
  <2>6. {b \in AllocatedTo(x, to, 1..2) : b.place = a.place} = OnCreatives(EntriesOf(x, to), a.place)
    BY EntriesChosen
  <2>7. a.amount = Total(OnCreatives(EntriesOf(x, to), a.place))
    BY <2>1, <2>5
  <2>8. QED
    BY <2>6, <2>7, Zenon
<1>2. ASSUME NEW x \in Tests, AllocatedTo(x, "test", {0}) # {}
      PROVE  \E budget \in Budgets : Total(AllocatedTo(x, "test", {0})) = budget
  <2>1. AllocatedTo(x, "test", {0}) = OnPlatforms(EntriesOf(x, "test"))
    BY EntriesChosen
  <2>2. EntriesOf(x, "test") # {}
    BY <1>2, <2>1 DEF OnPlatforms
  <2>3. PICK n \in Nat : \E amounts \in [1 .. n -> Nat] :
          /\ EntriesOf(x, "test") = Allocations(x, "test", amounts)
          /\ \E budget \in Budgets : SumFunction(amounts) = budget
    BY <2>2, EntriesKnown
  <2>4. PICK amounts \in [1 .. n -> Nat] :
          /\ EntriesOf(x, "test") = Allocations(x, "test", amounts)
          /\ \E budget \in Budgets : SumFunction(amounts) = budget
    BY <2>3
  <2>5. Total(OnPlatforms(EntriesOf(x, "test"))) = SumFunction(amounts)
    BY ONLY <2>4, AllocationsAddUp, x \in Tests, n \in Nat, amounts \in [1 .. n -> Nat]
  <2>6. Total(AllocatedTo(x, "test", {0})) = SumFunction(amounts)
    BY <2>1, <2>5, Zenon
  <2>7. QED
    BY <2>4, <2>6, Zenon
<1>3. ASSUME NEW r \in rounds, Distinct(test[r.of].platforms)
      PROVE  /\ SumFunction(r.plan) = test[r.of].budget
             /\ Total(AllocatedTo(r.of, "round", {0})) = test[r.of].budget
  <2>1. PICK x \in Tests : /\ x = r.of /\ test[x] # None /\ test[x].platforms # <<>>
                           /\ r.plan = PlanOf(x)
    BY DEF ExpInv, RoundsPlanned
  <2>2. FirstRound(x)
    BY <2>1 DEF FirstRound
  <2>3. PICK n \in Nat \ {0} : test[x].platforms \in [1 .. n -> TestChannels]
    BY <2>1, PlatformsAre DEF ExpInv, TestsTyped
  <2>4. test[x].budget \in Nat
    BY <2>1, PlatformsAre DEF ExpInv, TestsTyped
  <2>5. /\ RoundAmounts(x) \in [1 .. n -> Nat]
        /\ SumFunction(PlanOf(x)) = test[x].budget
        /\ SumFunction(RoundAmounts(x)) = test[x].budget
    <3>1. ASSUME NEW list \in [1 .. n -> TestChannels], NEW budget \in Nat, Distinct(list)
          PROVE  /\ PlaceAmounts(list, BudgetPlan(list, budget)) \in [1 .. n -> Nat]
                 /\ SumFunction(BudgetPlan(list, budget)) = budget
                 /\ SumFunction(PlaceAmounts(list, BudgetPlan(list, budget))) = budget
      BY <3>1, BudgetPlanAddsUp
    <3>2. Distinct(test[x].platforms)
      BY <1>3, <2>1
    <3>3. QED
      BY <2>3, <2>4, <3>1, <3>2, Zenon DEF RoundAmounts, PlanOf
  <2>6. EntriesOf(x, "round") = Allocations(x, "round", RoundAmounts(x))
    BY <2>2 DEF ExpInv, EntriesWhole
  <2>7. Total(OnPlatforms(EntriesOf(x, "round"))) = SumFunction(RoundAmounts(x))
    <3> DEFINE amounts == RoundAmounts(x)
               to == "round"
    <3>1. to \in {"test", "round"} /\ n \in Nat /\ amounts \in [1 .. n -> Nat]
      BY <2>5
    <3>2. EntriesOf(x, to) = Allocations(x, to, amounts)
      BY <2>6
    <3> HIDE DEF amounts, to
    <3>3. Total(OnPlatforms(EntriesOf(x, to))) = SumFunction(amounts)
      BY ONLY <3>1, <3>2, AllocationsAddUp, x \in Tests
    <3>4. QED
      BY <3>3, Zenon DEF amounts, to
  <2>8. AllocatedTo(x, "round", {0}) = OnPlatforms(EntriesOf(x, "round"))
    BY EntriesChosen
  <2>9. Total(AllocatedTo(x, "round", {0})) = test[x].budget
    BY <2>5, <2>7, <2>8, Zenon
  <2>10. SumFunction(r.plan) = test[x].budget
    BY <2>1, <2>5, Zenon
  <2>11. QED
    BY <2>1, <2>9, <2>10, Zenon
<1>4. \A r, q \in rounds : r.of = q.of => r = q
  BY DEF ExpInv, RoundsPlanned
<1>5. QED
  BY <1>1, <1>2, <1>3, <1>4, Zenon DEF SharesAddUp

LEMMA NextPlanAddsUpHolds == ExpInv => NextPlanAddsUp
<1> SUFFICES ASSUME ExpInv, NEW x \in Tests, test[x] # None,
                    NEW seen \in [ToSet(test[x].platforms) -> [clicks : 0..2, spend : {0, 3}]],
                    seen # <<>>, NEW plan, plan = Reallocated(test[x].budget, seen), plan # None
             PROVE  SumFunction(plan) = test[x].budget /\ \A p \in DOMAIN seen : plan[p] \in Nat
  BY Zenon DEF NextPlanAddsUp
<1> DEFINE D == ToSet(test[x].platforms)
<1>1. test[x].budget \in Nat
  BY PlatformsAre DEF ExpInv, TestsTyped
<1>2. seen \in [D -> [clicks : Nat, spend : Nat]]
  <2>1. [clicks : 0..2, spend : {0, 3}] \subseteq [clicks : Nat, spend : Nat]
    OBVIOUS
  <2> HIDE DEF D
  <2>2. seen \in [D -> [clicks : 0..2, spend : {0, 3}]]
    BY DEF D
  <2>3. QED
    BY <2>1, <2>2
<1>3. IsFiniteSet(D)
  <2>1. PICK n \in Nat : test[x].platforms \in [1 .. n -> TestChannels] \/ test[x].platforms = <<>>
    BY PlatformsAre DEF ExpInv, TestsTyped
  <2>2. CASE test[x].platforms = <<>>
    <3>1. D = {}
      BY <2>2 DEF ToSet
    <3>2. QED
      BY <3>1, FS_EmptySet
  <2>3. CASE test[x].platforms \in [1 .. n -> TestChannels]
    <3>1. ASSUME NEW list \in [1 .. n -> TestChannels] PROVE IsFiniteSet(ToSet(list))
      <4>1. IsFiniteSet(1 .. n)
        BY FS_Interval
      <4>2. list \in Surjection(1 .. n, ToSet(list))
        BY DEF Surjection, ToSet
      <4>3. QED
        BY <4>1, <4>2, FS_Surjection
    <3>2. QED
      BY <2>3, <3>1, Zenon
  <2>4. QED
    BY <2>1, <2>2, <2>3
<1>4. D # {}
  <2>1. CASE D = {}
    <3>1. seen = <<>>
      BY <2>1
    <3>2. QED
      BY <3>1
  <2>2. QED
    BY <2>1
<1>5. DOMAIN seen = D
  OBVIOUS
<1> HIDE DEF D
<1> DEFINE total == test[x].budget
<1>6. plan = Reallocated(total, seen) /\ total \in Nat
  BY <1>1
<1> HIDE DEF total
<1>7. SumFunction(plan) = total /\ \A p \in D : plan[p] \in Nat
  BY ONLY <1>2, <1>3, <1>4, <1>6, plan # None, NextPlanIsWhole
<1>8. QED
  BY <1>5, <1>7 DEF total

LEMMA ExpInvariant == ExperimentsSpec => []ExpInv
  BY ExpInit, ExpStep, PTL DEF ExperimentsSpec

LEMMA ExpTyped == ExpInv => ExperimentsTypeOK
<1> SUFFICES ASSUME ExpInv PROVE ExperimentsTypeOK
  OBVIOUS
<1>1. ASSUME NEW r \in rounds PROVE r.of \in Tests /\ \A p \in DOMAIN r.plan : r.plan[p] \in Nat
  <2>1. PICK x \in Tests : /\ x = r.of /\ test[x] # None /\ test[x].platforms # <<>>
                           /\ r.plan = PlanOf(x)
    BY DEF ExpInv, RoundsPlanned
  <2>2. PICK n \in Nat \ {0} : test[x].platforms \in [1 .. n -> TestChannels]
    BY <2>1, PlatformsAre DEF ExpInv, TestsTyped
  <2>3. test[x].budget \in Nat
    BY <2>1, PlatformsAre DEF ExpInv, TestsTyped
  <2>4. ASSUME NEW list \in [1 .. n -> TestChannels], NEW budget \in Nat
        PROVE  BudgetPlan(list, budget) \in [ToSet(list) -> Nat]
    BY BudgetPlanAddsUp
  <2>5. PlanOf(x) \in [ToSet(test[x].platforms) -> Nat]
    BY <2>2, <2>3, <2>4, Zenon DEF PlanOf
  <2>6. QED
    BY <2>1, <2>5
<1>2. QED
  BY <1>1 DEF ExpInv, TestsTyped, WorkTyped, ExperimentsTypeOK

\* Type correctness of experiments, rounds, money given out and open work, for any number of
\* experiments, requests and tasks (ExperimentEngine, ExperimentService).
THEOREM ExperimentsTypes == ExperimentsSpec => []ExperimentsTypeOK
  BY ExpInvariant, ExpTyped, PTL

\* An experiment's money is shared out once and completely, for any platforms, any budget and
\* any number of starts at once: creatives share what their platform has, platforms what the
\* test or the round has, the next plan what the last one had (_allocate_budget,
\* _create_round, _create_round_assets, _reallocate_budget).
THEOREM ExperimentsConserve == ExperimentsSpec => []BudgetConserved
<1>1. ExpInv => BudgetConserved
  BY SharesAddUpHolds, NextPlanAddsUpHolds DEF BudgetConserved
<1>2. QED
  BY <1>1, ExpInvariant, PTL

-----------------------------------------------------------------------------
(* The dashboards.  That the rows are whole, finitely many and of the       *)
(* organization they came by is all that the screens need to agree.         *)

\* Rows are whole, finitely many, and of the organization and platform they came by.
FigInv ==
  /\ owner \in [Conns \cup Exps -> Tenants] /\ channel \in [Conns -> Channels]
  /\ listed \in [Exps -> SUBSET (Channels \X Camps)]
  /\ IsFiniteSet(DOMAIN rows) /\ DOMAIN rows \subseteq Key
  /\ \A k \in DOMAIN rows : rows[k] \in Row
  /\ \A k \in DOMAIN rows : k.conn # None => k.org = owner[k.conn] /\ k.channel = channel[k.conn]
  /\ \A k \in DOMAIN rows : k.exp # None => k.org = owner[k.exp]

LEMMA FigInit == FiguresInit => FigInv
<1> SUFFICES ASSUME FiguresInit PROVE FigInv
  OBVIOUS
<1>1. DOMAIN rows = {}
  BY DEF FiguresInit
<1>2. IsFiniteSet(DOMAIN rows)
  BY <1>1, FS_EmptySet
<1>3. /\ owner \in [Conns \cup Exps -> Tenants] /\ channel \in [Conns -> Channels]
      /\ listed \in [Exps -> SUBSET (Channels \X Camps)]
  BY DEF FiguresInit
<1>4. QED
  BY <1>1, <1>2, <1>3 DEF FigInv

LEMMA PutKeeps ==
  ASSUME FigInv, NEW k \in Key, NEW v \in Row, Put(k, v),
         k.conn # None => k.org = owner[k.conn] /\ k.channel = channel[k.conn],
         k.exp # None => k.org = owner[k.exp]
  PROVE  FigInv'
<1>1. UNCHANGED <<owner, channel, listed>>
  BY DEF Put
<1>2. rows' = [j \in DOMAIN rows \cup {k} |-> IF j = k THEN v ELSE rows[j]]
  BY DEF Put
<1>3. DOMAIN rows' = DOMAIN rows \cup {k}
  BY <1>2
<1>4. \A j \in DOMAIN rows' : rows'[j] = IF j = k THEN v ELSE rows[j]
  BY <1>2
<1>5. IsFiniteSet(DOMAIN rows')
  BY <1>3, FS_AddElement DEF FigInv
<1>6. DOMAIN rows' \subseteq Key
  BY <1>3 DEF FigInv
<1>7. \A j \in DOMAIN rows' : rows'[j] \in Row
  BY <1>3, <1>4 DEF FigInv
<1>8. /\ \A j \in DOMAIN rows' : j.conn # None => j.org = owner[j.conn] /\ j.channel = channel[j.conn]
      /\ \A j \in DOMAIN rows' : j.exp # None => j.org = owner[j.exp]
  BY <1>3 DEF FigInv
<1>9. QED
  BY <1>1, <1>5, <1>6, <1>7, <1>8 DEF FigInv

LEMMA FigStep == FigInv /\ [FiguresNext]_figureVars => FigInv'
<1> SUFFICES ASSUME FigInv, [FiguresNext]_figureVars PROVE FigInv'
  OBVIOUS
<1>1. CASE UNCHANGED figureVars
  BY <1>1 DEF figureVars, FigInv
<1>2. ASSUME NEW c \in Conns, NEW x \in Exps \cup {None}, NEW level \in Levels, NEW camp \in Camps,
             NEW day \in Days, NEW v \in Row, x # None => owner[x] = owner[c],
             Put([org |-> owner[c], conn |-> c, exp |-> x, channel |-> channel[c],
                  level |-> level, camp |-> camp, day |-> day], v)
      PROVE  FigInv'
  <2> DEFINE k == [org |-> owner[c], conn |-> c, exp |-> x, channel |-> channel[c],
                   level |-> level, camp |-> camp, day |-> day]
  <2>1. k \in Key
    BY DEF Key, FigInv
  <2>2. /\ k.conn # None => k.org = owner[k.conn] /\ k.channel = channel[k.conn]
        /\ k.exp # None => k.org = owner[k.exp]
    BY <1>2
  <2>3. Put(k, v)
    BY <1>2
  <2> HIDE DEF k
  <2>4. QED
    BY <2>1, <2>2, <2>3, PutKeeps
<1>3. ASSUME NEW c \in Conns, SyncedRow(c) PROVE FigInv'
  <2>1. PICK x \in Exps \cup {None}, level \in Levels, camp \in Camps, day \in Days, v \in Row :
          LET k == [org |-> owner[c], conn |-> c, exp |-> x, channel |-> channel[c],
                    level |-> level, camp |-> camp, day |-> day]
          IN (x # None => k \in DOMAIN rows) /\ Put(k, v)
    BY <1>3, Zenon DEF SyncedRow
  <2> DEFINE k == [org |-> owner[c], conn |-> c, exp |-> x, channel |-> channel[c],
                   level |-> level, camp |-> camp, day |-> day]
  <2>2. k.exp = x /\ k.org = owner[c]
    OBVIOUS
  <2>3. (x # None => k \in DOMAIN rows) /\ Put(k, v)
    BY <2>1
  <2>4. x # None => owner[x] = owner[c]
    <3> HIDE DEF k
    <3>1. QED
      BY <2>2, <2>3 DEF FigInv
  <2>5. QED
    BY <1>2, <2>3, <2>4
<1>4. ASSUME NEW x \in Exps, ExperimentRow(x) PROVE FigInv'
  <2>1. PICK c \in Conns, camp \in Camps, day \in Days, v \in Row :
          /\ owner[c] = owner[x]
          /\ Put([org |-> owner[x], conn |-> c, exp |-> x, channel |-> channel[c],
                  level |-> "campaign", camp |-> camp, day |-> day], v)
    BY <1>4, Zenon DEF ExperimentRow
  <2>2. Put([org |-> owner[c], conn |-> c, exp |-> x, channel |-> channel[c],
             level |-> "campaign", camp |-> camp, day |-> day], v)
    BY <2>1, Zenon
  <2>3. "campaign" \in Levels
    BY DEF Levels
  <2>4. QED
    BY <1>2, <2>1, <2>2, <2>3
<1>5. QED
  BY <1>1, <1>3, <1>4, Zenon DEF FiguresNext

LEMMA FigInvariant == FiguresSpec => []FigInv
  BY FigInit, FigStep, PTL DEF FiguresSpec

\* Type correctness of the rows of daily metrics, whoever writes how many.
THEOREM FiguresTypes == FiguresSpec => []FiguresTypeOK
<1>1. FigInv => FiguresTypeOK
  BY DEF FigInv, FiguresTypeOK
<1>2. QED
  BY <1>1, FigInvariant, PTL

-----------------------------------------------------------------------------

LEMMA RowsWhole ==
  ASSUME FigInv, NEW K, K \subseteq DOMAIN rows
  PROVE  /\ IsFiniteSet(K)
         /\ \A f \in Kinds, k \in K : rows[k][f] \in Nat
         /\ \A f \in Kinds : Sum_(K)[f] \in Nat
<1>1. IsFiniteSet(K)
  BY FS_Subset DEF FigInv
<1>2. \A f \in Kinds, k \in K : rows[k][f] \in Nat
  BY FiguresAssumption DEF FigInv, Row
<1>3. ASSUME NEW f \in Kinds PROVE Sum_(K)[f] \in Nat
  <2> DEFINE h == [k \in K |-> rows[k][f]]
  <2>1. Sum_(K)[f] = SumFunction(h)
    BY DEF Sum_
  <2>2. DOMAIN h = K /\ \A k \in K : h[k] \in Nat
    BY <1>2
  <2> HIDE DEF h
  <2>3. SumFunctionOnSet(h, K) \in Nat
    BY ONLY <1>1, <2>2, SumOfNumbers
  <2>4. QED
    BY <2>1, <2>2, <2>3, Zenon DEF SumFunction
<1>4. QED
  BY <1>1, <1>2, <1>3

\* What the groups of a grouping add up to is the sum of its rows, whatever they are grouped by.
LEMMA GroupsAddUp ==
  ASSUME FigInv, NEW K, K \subseteq DOMAIN rows, NEW by, DOMAIN by = K
  PROVE  Added(GroupBy(by)) = Sum_(K)
<1> DEFINE D == Range(by)
           P == [g \in D |-> {k \in K : by[k] = g}]
<1>1. /\ IsFiniteSet(K)
      /\ \A f \in Kinds, k \in K : rows[k][f] \in Nat
  BY RowsWhole
<1>2. /\ \A k \in K : by[k] \in D
      /\ \A g \in D : \E k \in K : by[k] = g
  BY DEF Range
<1>3. \A g \in D : P[g] \subseteq K /\ \A k \in K : k \in P[g] <=> by[k] = g
  OBVIOUS
<1>4. DOMAIN GroupBy(by) = D
  BY DEF GroupBy
<1>5. ASSUME NEW f \in Kinds
      PROVE  Added(GroupBy(by))[f] = Sum_(K)[f]
  <2> DEFINE h == [k \in K |-> rows[k][f]]
             s == [g \in D |-> GroupBy(by)[g][f]]
  <2>1. Added(GroupBy(by))[f] = SumFunction(s) /\ DOMAIN s = D
    BY <1>4 DEF Added
  <2>2. Sum_(K)[f] = SumFunction(h) /\ DOMAIN h = K
    BY DEF Sum_
  <2>3. \A k \in K : h[k] = rows[k][f] /\ h[k] \in Int
    BY <1>1
  <2>4. ASSUME NEW g \in D PROVE s[g] = SumFunctionOnSet(h, P[g])
    <3> DEFINE q == [k \in P[g] |-> rows[k][f]]
    <3>1. GroupBy(by)[g] = Sum_(P[g])
      BY DEF GroupBy
    <3>2. Sum_(P[g])[f] = SumFunction(q)
      BY DEF Sum_
    <3>3. DOMAIN q = P[g] /\ \A k \in P[g] : q[k] = h[k] /\ h[k] \in Int
      BY <1>3, <2>3
    <3>4. IsFiniteSet(P[g])
      BY <1>1, <1>3, FS_Subset
    <3>5. s[g] = GroupBy(by)[g][f]
      OBVIOUS
    <3> HIDE DEF P, D, h, s, q
    <3>6. SumFunctionOnSet(q, P[g]) = SumFunctionOnSet(h, P[g])
      BY <3>3, <3>4, SumSame
    <3>7. SumFunction(q) = SumFunctionOnSet(q, P[g])
      BY <3>3, Zenon DEF SumFunction
    <3>8. QED
      BY <3>1, <3>2, <3>5, <3>6, <3>7, Zenon
  <2> HIDE DEF D, P, h, s
  <2>5. SumFunctionOnSet(s, D) = SumFunctionOnSet(h, K)
    <3>1. IsFiniteSet(K) /\ \A k \in K : h[k] \in Int
      BY <1>1, <2>3
    <3>2. Grouping(by, P, h, K, s, D)
      BY <1>2, <1>3, <2>4 DEF Grouping
    <3>3. QED
      BY <3>1, <3>2, SumOfGroups
  <2>6. QED
    BY <2>1, <2>2, <2>5, Zenon DEF SumFunction
<1>6. QED
  BY <1>5, Zenon DEF Added, Sum_

\* More rows, more of every column.
LEMMA SumGrows ==
  ASSUME FigInv, NEW K, K \subseteq DOMAIN rows, NEW L, L \subseteq K, NEW f \in Kinds
  PROVE  Sum_(L)[f] <= Sum_(K)[f]
<1> DEFINE h == [k \in K |-> rows[k][f]]
           q == [k \in L |-> rows[k][f]]
<1>1. IsFiniteSet(K) /\ IsFiniteSet(L) /\ \A k \in K : rows[k][f] \in Nat
  BY RowsWhole, FS_Subset
<1>2. Sum_(K)[f] = SumFunction(h) /\ Sum_(L)[f] = SumFunction(q)
  BY DEF Sum_
<1>3. DOMAIN h = K /\ DOMAIN q = L /\ \A k \in K : h[k] \in Nat /\ h[k] \in Int
  BY <1>1
<1>4. \A k \in L : q[k] = h[k] /\ h[k] \in Int
  BY <1>3
<1> HIDE DEF h, q
<1>5. SumFunctionOnSet(q, L) = SumFunctionOnSet(h, L)
  BY <1>1, <1>4, SumSame
<1>6. SumFunctionOnSet(h, L) <= SumFunctionOnSet(h, K)
  BY <1>1, <1>3, SumOfPart
<1>7. SumFunction(h) = SumFunctionOnSet(h, K) /\ SumFunction(q) = SumFunctionOnSet(q, L)
  BY <1>3, Zenon DEF SumFunction
<1>8. QED
  BY <1>2, <1>5, <1>6, <1>7

LEMMA DailyAddsUp ==
  ASSUME FigInv, NEW K, K \subseteq DOMAIN rows
  PROVE  Added(Daily(K)) = Sum_(K)
<1> DEFINE by == [k \in K |-> k.day]
<1>1. DOMAIN by = K
  OBVIOUS
<1> HIDE DEF by
<1>2. Added(GroupBy(by)) = Sum_(K)
  BY <1>1, GroupsAddUp
<1>3. QED
  BY <1>2, Zenon DEF by, Daily

\* The rows of some connections on some platforms, which the unified chart finds by connection.
LEMMA SelectedAre ==
  ASSUME FigInv, NEW o \in Tenants, NEW C \in SUBSET Conns, NEW from \in Days, NEW to \in Days
  PROVE  /\ \A level : Selected(o, C, from, to, level) \subseteq DOMAIN rows
         /\ \A platforms \in SUBSET Channels : KpiRows(o, C, from, to, platforms) \subseteq DOMAIN rows
         /\ KpiRows(o, C, from, to, Channels) = Selected(o, Resolved(o, C), from, to, "campaign")
         /\ Found(o, C) => \A platforms \in SUBSET Channels :
              Selected(o, UnifiedConns(o, C, platforms), from, to, "campaign")
              = KpiRows(o, C, from, to, platforms)
<1>1. \A D, level : Selected(o, D, from, to, level) \subseteq DOMAIN rows
  BY DEF Selected
<1>2. \A platforms \in SUBSET Channels : KpiRows(o, C, from, to, platforms) \subseteq DOMAIN rows
  BY <1>1 DEF KpiRows
<1>3. \A k \in DOMAIN rows : k.channel \in Channels
  BY DEF FigInv, Key
<1>4. KpiRows(o, C, from, to, Channels) = Selected(o, Resolved(o, C), from, to, "campaign")
  BY <1>1, <1>3 DEF KpiRows
<1>5. ASSUME Found(o, C), NEW platforms \in SUBSET Channels
      PROVE  Selected(o, UnifiedConns(o, C, platforms), from, to, "campaign")
             = KpiRows(o, C, from, to, platforms)
  <2>1. \A c : c \in UnifiedConns(o, C, platforms) <=>
               c \in Resolved(o, C) /\ channel[c] \in platforms
    BY <1>5 DEF UnifiedConns, Resolved, Found
  <2>2. Resolved(o, C) \subseteq Conns
    BY DEF Resolved, OwnConns
  <2>3. \A k \in DOMAIN rows : k.conn \in Resolved(o, C) => k.channel = channel[k.conn]
    BY <2>2, FiguresAssumption DEF FigInv
  <2>4. QED
    BY <2>1, <2>3 DEF Selected, KpiRows
<1>6. QED
  BY <1>1, <1>2, <1>4, <1>5

LEMMA ScreensAgreeHolds == FigInv => ScreensAgree
<1> SUFFICES ASSUME FigInv, NEW o \in Tenants, NEW C \in SUBSET Conns,
                    NEW from \in Days, NEW to \in Days, from <= to, Found(o, C)
             PROVE  /\ Added(Breakdown(o, C, from, to, "campaign")) = TimeseriesTotals(o, C, from, to)
                    /\ KpiSummary(o, C, from, to, Channels) = TimeseriesTotals(o, C, from, to)
                    /\ Added(DashboardDaily(o, C, from, to)) = TimeseriesTotals(o, C, from, to)
                    /\ C = {} => Added(DashboardConnections(o, from, to)) = TimeseriesTotals(o, C, from, to)
                    /\ \A c \in C : C = {c} => MetricsByConnection(o, c, from, to) = Timeseries(o, C, from, to)
                    /\ \A platforms \in SUBSET Channels :
                         /\ Unified(o, C, from, to, platforms) = KpiTimeseries(o, C, from, to, platforms)
                         /\ Added(KpiTimeseries(o, C, from, to, platforms)) = KpiSummary(o, C, from, to, platforms)
  BY DEF ScreensAgree
<1> DEFINE K == Selected(o, Resolved(o, C), from, to, "campaign")
           totals == TimeseriesTotals(o, C, from, to)
<1>1. K \subseteq DOMAIN rows
  BY DEF Selected
<1> HIDE DEF K
<1>2. totals = Sum_(K)
  <2>1. totals = Added(Daily(K))
    BY Zenon DEF TimeseriesTotals, Timeseries, K
  <2>2. Added(Daily(K)) = Sum_(K)
    BY <1>1, DailyAddsUp
  <2>3. QED
    BY <2>1, <2>2, Zenon
<1> HIDE DEF totals
<1>3. Added(Breakdown(o, C, from, to, "campaign")) = totals
  <2> DEFINE by == [k \in K |-> <<k.channel, k.camp>>]
  <2>1. DOMAIN by = K
    OBVIOUS
  <2>2. Breakdown(o, C, from, to, "campaign") = GroupBy(by)
    BY Zenon DEF Breakdown, K
  <2> HIDE DEF by
  <2>3. Added(GroupBy(by)) = Sum_(K)
    BY <1>1, <2>1, GroupsAddUp
  <2>4. QED
    BY <1>2, <2>2, <2>3, Zenon
<1>4. KpiSummary(o, C, from, to, Channels) = totals
  <2>1. KpiRows(o, C, from, to, Channels) = K
    BY SelectedAre DEF K
  <2>2. QED
    BY <1>2, <2>1, Zenon DEF KpiSummary
<1>5. Added(DashboardDaily(o, C, from, to)) = totals
  BY Zenon DEF DashboardDaily, totals, TimeseriesTotals, Timeseries
<1>6. ASSUME C = {} PROVE Added(DashboardConnections(o, from, to)) = totals
  <2> DEFINE by == [k \in K |-> k.conn]
  <2>1. DOMAIN by = K
    OBVIOUS
  <2>a. Resolved(o, C) = OwnConns(o)
    BY <1>6 DEF Resolved
  <2>2. DashboardConnections(o, from, to) = GroupBy(by)
    BY <2>a, Zenon DEF DashboardConnections, K
  <2> HIDE DEF by
  <2>3. Added(GroupBy(by)) = Sum_(K)
    BY <1>1, <2>1, GroupsAddUp
  <2>4. QED
    BY <1>2, <2>2, <2>3, Zenon
<1>7. ASSUME NEW c \in C, C = {c}
      PROVE  MetricsByConnection(o, c, from, to) = Timeseries(o, C, from, to)
  <2>1. Resolved(o, C) = {c}
    BY <1>7 DEF Resolved
  <2>2. QED
    BY <2>1, Zenon DEF MetricsByConnection, Timeseries
<1>8. ASSUME NEW platforms \in SUBSET Channels
      PROVE  /\ Unified(o, C, from, to, platforms) = KpiTimeseries(o, C, from, to, platforms)
             /\ Added(KpiTimeseries(o, C, from, to, platforms)) = KpiSummary(o, C, from, to, platforms)
  <2>1. Selected(o, UnifiedConns(o, C, platforms), from, to, "campaign") = KpiRows(o, C, from, to, platforms)
    BY SelectedAre
  <2>2. KpiRows(o, C, from, to, platforms) \subseteq DOMAIN rows
    BY SelectedAre
  <2>3. Added(Daily(KpiRows(o, C, from, to, platforms))) = Sum_(KpiRows(o, C, from, to, platforms))
    BY <2>2, DailyAddsUp
  <2>4. QED
    BY <2>1, <2>3, Zenon DEF Unified, KpiTimeseries, KpiSummary
<1>9. QED
  BY <1>3, <1>4, <1>5, <1>6, <1>7, <1>8, Zenon DEF totals

LEMMA ExperimentsAgreeHolds == FigInv => ExperimentsAgree
<1> SUFFICES ASSUME FigInv, NEW x \in Exps, NEW p \in Channels, NEW from \in Days, NEW to \in Days
             PROVE  LET total == ExperimentSummary(x, p, from, to)
                    IN /\ Added(ExperimentMetrics(x, p, from, to)) = total
                       /\ LET report == ExperimentReport(x, {p}, from, to)
                          IN \A f \in Reported :
                               SumFunction([g \in DOMAIN report |-> report[g][f]]) = total[f]
                       /\ PlanSummary(x, from, to) # Zero =>
                            \A f \in Kinds : total[f] <= PlanSummary(x, from, to)[f]
  BY Zenon DEF ExperimentsAgree
<1> DEFINE K == ExperimentRows(x, p, from, to)
           L == {k \in DOMAIN rows : /\ k.exp = x /\ k.org = owner[x]
                                     /\ from <= k.day /\ k.day <= to}
<1>1. K \subseteq L /\ L \subseteq DOMAIN rows
  BY FiguresAssumption DEF ExperimentRows, FigInv
<1>2. ExperimentSummary(x, p, from, to) = Sum_(K)
  BY Zenon DEF ExperimentSummary
<1>3. Added(ExperimentMetrics(x, p, from, to)) = Sum_(K)
  <2> DEFINE by == [k \in K |-> <<k.day, k.camp>>]
  <2>1. DOMAIN by = K
    OBVIOUS
  <2>2. ExperimentMetrics(x, p, from, to) = GroupBy(by)
    BY Zenon DEF ExperimentMetrics
  <2> HIDE DEF by, K, L
  <2>3. Added(GroupBy(by)) = Sum_(K)
    BY <1>1, <2>1, GroupsAddUp
  <2>4. QED
    BY <2>2, <2>3, Zenon
<1> DEFINE report == ExperimentReport(x, {p}, from, to)
<1>4. ASSUME NEW f \in Reported
      PROVE  SumFunction([g \in DOMAIN report |-> report[g][f]]) = Sum_(K)[f]
  <2> DEFINE R == UNION {ExperimentRows(x, q, from, to) : q \in {p}}
  <2> DEFINE by == [k \in R |-> <<k.channel, k.day>>]
  <2>1. R = K
    OBVIOUS
  <2>2. DOMAIN by = R
    OBVIOUS
  <2> DEFINE groups == GroupBy(by)
  <2>3. report = [g \in DOMAIN groups |-> [e \in Reported |-> groups[g][e]]]
    BY Zenon DEF ExperimentReport
  <2> HIDE DEF by, K, L, R
  <2>4. Added(groups) = Sum_(K)
    BY <1>1, <2>1, <2>2, GroupsAddUp
  <2> HIDE DEF groups, report
  <2>5. [g \in DOMAIN report |-> report[g][f]] = [g \in DOMAIN groups |-> groups[g][f]]
    BY <1>4, <2>3
  <2>6. f \in Kinds
    BY <1>4 DEF Reported
  <2>7. Added(groups)[f] = SumFunction([g \in DOMAIN groups |-> groups[g][f]])
    BY <2>6, Zenon DEF Added
  <2>8. QED
    BY <2>4, <2>5, <2>7, Zenon
<1>5. ASSUME PlanSummary(x, from, to) # Zero, NEW f \in Kinds
      PROVE  Sum_(K)[f] <= PlanSummary(x, from, to)[f]
  <2>1. PlanSummary(x, from, to) = Sum_(L)
    BY <1>5, Zenon DEF PlanSummary
  <2> HIDE DEF K, L
  <2>2. Sum_(K)[f] <= Sum_(L)[f]
    BY <1>1, SumGrows
  <2>3. QED
    BY <2>1, <2>2, Zenon
<1> HIDE DEF K
<1>6. QED
  BY <1>2, <1>3, <1>4, <1>5, Zenon DEF report

-----------------------------------------------------------------------------
LEMMA DailyFigures ==
  ASSUME FigInv, NEW K, K \subseteq DOMAIN rows
  PROVE  /\ IsFiniteSet(DOMAIN Daily(K))
         /\ \A d \in DOMAIN Daily(K), f \in Kinds : Daily(K)[d][f] \in Nat
<1> DEFINE by == [k \in K |-> k.day]
<1>1. Daily(K) = GroupBy(by) /\ DOMAIN by = K
  BY DEF Daily
<1>2. DOMAIN GroupBy(by) = Range(by)
  BY DEF GroupBy
<1>3. IsFiniteSet(K)
  BY RowsWhole
<1>4. by \in Surjection(K, Range(by))
  BY <1>1 DEF Surjection, Range
<1>5. IsFiniteSet(Range(by))
  <2> HIDE DEF by
  <2>1. QED
    BY <1>3, <1>4, FS_Surjection
<1>6. ASSUME NEW d \in Range(by), NEW f \in Kinds
      PROVE  GroupBy(by)[d][f] \in Nat
  <2> DEFINE P == {k \in DOMAIN by : by[k] = d}
  <2>1. GroupBy(by)[d] = Sum_(P)
    BY DEF GroupBy
  <2>2. P \subseteq DOMAIN rows
    BY <1>1
  <2> HIDE DEF P, by
  <2>3. Sum_(P)[f] \in Nat
    BY <2>2, RowsWhole
  <2>4. QED
    BY <2>1, <2>3, Zenon
<1> HIDE DEF by
<1>7. QED
  BY <1>1, <1>2, <1>5, <1>6, Zenon

LEMMA LargestIs ==
  ASSUME NEW series, IsFiniteSet(DOMAIN series), NEW f, \A d \in DOMAIN series : series[d][f] \in Nat
  PROVE  /\ Largest(series, f) \in Nat
         /\ \A d \in DOMAIN series : series[d][f] <= Largest(series, f)
         /\ Largest(series, f) > 0 => \E d \in DOMAIN series : series[d][f] = Largest(series, f)
<1> DEFINE V == {series[d][f] : d \in DOMAIN series}
           h == [d \in DOMAIN series |-> series[d][f]]
<1>1. IsFiniteSet(V)
  <2>1. h \in Surjection(DOMAIN series, V)
    BY DEF Surjection
  <2> HIDE DEF h, V
  <2>2. QED
    BY <2>1, FS_Surjection
<1>2. IsFiniteSet({0} \cup V)
  <2>1. {0} \cup V = V \cup {0}
    OBVIOUS
  <2>2. IsFiniteSet(V \cup {0})
    BY <1>1, FS_AddElement
  <2>3. QED
    BY <2>1, <2>2, Zenon
<1>3. \A n \in {0} \cup V : n \in Nat
  OBVIOUS
<1> DEFINE W == {0} \cup V
<1>4. W # {} /\ \A n \in W : n \in Int
  BY <1>3
<1>5. Max(W) \in W /\ \A n \in W : n <= Max(W)
  <2>1. IsFiniteSet(W)
    BY <1>2
  <2> HIDE DEF W
  <2>2. QED
    BY <1>4, <2>1, MaxIsIn
<1>6. Largest(series, f) = Max(W)
  BY Zenon DEF Largest
<1>7. \A n : n \in W <=> n = 0 \/ \E d \in DOMAIN series : n = series[d][f]
  OBVIOUS
<1> HIDE DEF W
<1>8. Largest(series, f) \in Nat
  BY <1>5, <1>6, <1>7
<1>9. \A d \in DOMAIN series : series[d][f] <= Largest(series, f)
  BY <1>5, <1>6, <1>7
<1>10. Largest(series, f) > 0 => \E d \in DOMAIN series : series[d][f] = Largest(series, f)
  BY <1>5, <1>6, <1>7, <1>8
<1>11. QED
  BY <1>8, <1>9, <1>10

LEMMA PercentIs ==
  ASSUME NEW n \in Nat, NEW max \in Nat, n <= max
  PROVE  Percent(n, max) \in 0 .. 100 /\ (n = max /\ max > 0 => Percent(n, max) = 100)
<1>1. CASE max = 0
  BY <1>1 DEF Percent
<1>2. CASE max > 0
  <2>1. max \in Nat \ {0} /\ 100 * n \in Nat
    BY <1>2
  <2>2. PICK q \in Nat, m \in 0 .. (max - 1) : q = (100 * n) \div max /\ 100 * n = max * q + m
    BY <2>1, Division
  <2>3. Percent(n, max) = q
    BY <1>2, <2>2 DEF Percent
  <2>4. q <= 100
    <3>1. SUFFICES ASSUME q >= 101 PROVE FALSE
      OBVIOUS
    <3>2. max * q >= max * 101
      BY ONLY <2>1, <3>1, q \in Nat, Z3
    <3>3. max * q \in Nat
      BY <2>1
    <3>4. QED
      BY <1>2, <2>2, <3>2, <3>3
  <2>5. ASSUME n = max PROVE q = 100
    <3>1. SUFFICES ASSUME q <= 99 PROVE FALSE
      BY <2>4
    <3>2. max * q <= max * 99
      BY ONLY <2>1, <3>1, q \in Nat, Z3
    <3>3. max * q \in Nat
      BY <2>1
    <3>4. QED
      BY <1>2, <2>2, <2>5, <3>2, <3>3
  <2>6. QED
    BY <2>3, <2>4, <2>5
<1>3. QED
  BY <1>1, <1>2

\* An average of what is at most 100.
LEMMA AverageIs ==
  ASSUME NEW S, IsFiniteSet(S), S # {}, NEW h, DOMAIN h = S, \A f \in S : h[f] \in 0 .. 100
  PROVE  SumFunction(h) \div Cardinality(S) \in 0 .. 100
<1> DEFINE G == {T \in SUBSET S : SumFunctionOnSet(h, T) <= 100 * Cardinality(T)}
<1>1. \A f \in S : h[f] \in Nat /\ h[f] \in Int /\ h[f] <= 100
  OBVIOUS
<1>2. \A T \in SUBSET S : IsFiniteSet(T) /\ Cardinality(T) \in Nat /\ SumFunctionOnSet(h, T) \in Nat
  <2>1. ASSUME NEW T \in SUBSET S
        PROVE  IsFiniteSet(T) /\ Cardinality(T) \in Nat /\ \A f \in T : h[f] \in Nat
    BY <1>1, FS_Subset, FS_CardinalityType
  <2>2. QED
    BY <2>1, SumOfNumbers
<1>3. ASSUME NEW T \in SUBSET S, \A U \in SUBSET T : U # T => U \in G
      PROVE  T \in G
  <2>1. CASE T = {}
    <3>1. SumFunctionOnSet(h, T) = 0 /\ Cardinality(T) = 0
      BY <2>1, SumEmpty, FS_EmptySet
    <3>2. QED
      BY <3>1
  <2>2. ASSUME NEW x \in T PROVE T \in G
    <3> DEFINE U == T \ {x}
    <3>1. SumFunctionOnSet(h, U) <= 100 * Cardinality(U)
      BY <1>3
    <3>2. \A f \in T : h[f] \in Int
      BY <1>1
    <3>3. SumFunctionOnSet(h, T) = h[x] + SumFunctionOnSet(h, U)
      BY ONLY <1>2, <3>2, T \in SUBSET S, x \in T, SumTake
    <3>4. Cardinality(U) = Cardinality(T) - 1
      BY ONLY <1>2, T \in SUBSET S, x \in T, FS_RemoveElement
    <3>5. U \in SUBSET S /\ x \in S
      OBVIOUS
    <3> HIDE DEF U
    <3>6. SumFunctionOnSet(h, T) <= 100 * Cardinality(T)
      BY ONLY <1>1, <1>2, <3>1, <3>3, <3>4, <3>5, T \in SUBSET S
    <3>7. QED
      BY <3>6
  <2>3. QED
    BY <2>1, <2>2
<1>4. S \in G
  <2> HIDE DEF G
  <2>1. QED
    BY <1>3, SubsetInduction
<1> DEFINE s == SumFunction(h)
           c == Cardinality(S)
<1>5. s \in Nat /\ c \in Nat /\ s <= 100 * c
  BY <1>2, <1>4, Zenon DEF SumFunction
<1>6. c # 0
  BY FS_EmptySet
<1>7. PICK q \in Nat, m \in 0 .. (c - 1) : q = s \div c /\ s = c * q + m
  <2>1. c \in Nat \ {0}
    BY <1>5, <1>6
  <2> HIDE DEF s, c
  <2>2. QED
    BY <1>5, <2>1, Division
<1>8. q <= 100
  <2> HIDE DEF s, c
  <2>1. SUFFICES ASSUME q >= 101 PROVE FALSE
    OBVIOUS
  <2>2. c * q >= c * 101
    BY ONLY <1>5, <2>1, q \in Nat, Z3
  <2>3. c * q \in Nat
    BY <1>5
  <2>4. QED
    BY <1>5, <1>6, <1>7, <2>2, <2>3
<1>9. QED
  BY <1>7, <1>8

LEMMA IndicesScaleHolds == FigInv => IndicesScale
<1> SUFFICES ASSUME FigInv, NEW o \in Tenants, NEW C \in SUBSET Conns, NEW platforms \in SUBSET Channels
             PROVE  LET series == Unified(o, C, 1, MaxDay, platforms)
                    IN /\ \A d \in DOMAIN series : UnifiedIndex(series, d) \in 0..100
                       /\ \A f \in Kinds : Largest(series, f) > 0 =>
                            \E d \in DOMAIN series : KpiIndex(series, d, f) = 100
                       /\ series # Daily({}) => platforms \cap AvailableChannels(o) # {}
  BY Zenon DEF IndicesScale
<1> DEFINE K == Selected(o, UnifiedConns(o, C, platforms), 1, MaxDay, "campaign")
           series == Unified(o, C, 1, MaxDay, platforms)
<1>1. series = Daily(K)
  BY Zenon DEF Unified
<1>2. K \subseteq DOMAIN rows
  BY DEF Selected
<1>3. /\ IsFiniteSet(DOMAIN series)
      /\ \A d \in DOMAIN series, f \in Kinds : series[d][f] \in Nat
  <2> HIDE DEF K, series
  <2>1. QED
    BY <1>1, <1>2, DailyFigures
<1>4. ASSUME K # {} PROVE platforms \cap AvailableChannels(o) # {}
  <2>1. \E c \in UnifiedConns(o, C, platforms) : TRUE
    BY <1>4 DEF Selected
  <2>2. QED
    BY <2>1 DEF UnifiedConns, AvailableChannels
<1>5. series # Daily({}) => K # {}
  <2> HIDE DEF K, series
  <2>1. QED
    BY <1>1
<1> HIDE DEF K, series
<1>6. ASSUME NEW f \in Kinds
      PROVE  /\ Largest(series, f) \in Nat
             /\ \A d \in DOMAIN series : series[d][f] <= Largest(series, f)
             /\ Largest(series, f) > 0 => \E d \in DOMAIN series : series[d][f] = Largest(series, f)
  <2>1. \A d \in DOMAIN series : series[d][f] \in Nat
    BY <1>3
  <2>2. QED
    BY <1>3, <2>1, LargestIs
<1>7. ASSUME NEW f \in Kinds, NEW d \in DOMAIN series
      PROVE  /\ KpiIndex(series, d, f) \in 0 .. 100
             /\ series[d][f] = Largest(series, f) /\ Largest(series, f) > 0 => KpiIndex(series, d, f) = 100
  <2>1. series[d][f] \in Nat /\ Largest(series, f) \in Nat /\ series[d][f] <= Largest(series, f)
    BY <1>3, <1>6
  <2>2. QED
    BY <2>1, PercentIs DEF KpiIndex
<1>8. ASSUME NEW d \in DOMAIN series PROVE UnifiedIndex(series, d) \in 0 .. 100
  <2> DEFINE h == [f \in Indexed |-> KpiIndex(series, d, f)]
  <2>1. Indexed \subseteq Kinds
    BY DEF Indexed
  <2>2. \A f \in Indexed : h[f] \in 0 .. 100
    BY <1>7, <2>1
  <2>3. IsFiniteSet(Indexed)
    <3> DEFINE S == {"impressions", "clicks", "spend", "conversions", "revenue", "leads"}
    <3>1. S = {"impressions"} \cup {"clicks"} \cup {"spend"} \cup {"conversions"} \cup {"revenue"} \cup {"leads"}
      OBVIOUS
    <3>2. \A e : IsFiniteSet({e})
      BY FS_Singleton
    <3>3. IsFiniteSet({"impressions"} \cup {"clicks"} \cup {"spend"} \cup {"conversions"} \cup {"revenue"} \cup {"leads"})
      BY <3>2, FS_Union
    <3>4. IsFiniteSet(S)
      BY <3>1, <3>3, Zenon
    <3>5. Indexed \subseteq S
      BY <2>1, FiguresAssumption
    <3> HIDE DEF S
    <3>6. QED
      BY <3>4, <3>5, FS_Subset
  <2>4. DOMAIN h = Indexed /\ Indexed # {}
    BY FiguresAssumption
  <2>5. UnifiedIndex(series, d) = SumFunction(h) \div Cardinality(Indexed)
    BY DEF UnifiedIndex
  <2> HIDE DEF h
  <2>6. SumFunction(h) \div Cardinality(Indexed) \in 0 .. 100
    BY ONLY <2>2, <2>3, <2>4, AverageIs
  <2>7. QED
    BY <2>5, <2>6, Zenon
<1>9. ASSUME NEW f \in Kinds, Largest(series, f) > 0
      PROVE  \E d \in DOMAIN series : KpiIndex(series, d, f) = 100
  BY <1>6, <1>7, <1>9
<1>10. QED
  BY <1>4, <1>5, <1>8, <1>9, Zenon DEF series

\* Screens that ask the same of the rows answer the same, for any connections, days, figures
\* and rows: the series, the breakdown, the cards, the unified chart and the experiment
\* reports add up to the same totals, and indices are between 0 and 100
\* (api/metrics.py, dashboard_service.py, dashboard_unified_service.py, metrics_service.py).
THEOREM FiguresAlwaysAgree == FiguresSpec => []FiguresAgree
<1>1. FigInv => FiguresAgree
  BY ScreensAgreeHolds, ExperimentsAgreeHolds, IndicesScaleHolds DEF FiguresAgree
<1>2. QED
  BY <1>1, FigInvariant, PTL
=============================================================================
