------------------------------- MODULE SetFolds -------------------------------
(***************************************************************************)
(* The recursive function on the subsets of a finite set behind            *)
(* MapThenFoldSet, and with it MapThenSumSet and FoldLeft, by which the    *)
(* stock and the amount of an order are summed.  CHOOSE makes it a         *)
(* function that satisfies its equation only if there is one: here is the  *)
(* proof, by smallest counterexamples in the order of strict subsets.      *)
(***************************************************************************)
EXTENDS FiniteSetTheorems, TLAPS

CONSTANTS
    Base,           \* the fold of the empty set
    Pick(_),        \* the element that is folded last
    Step(_, _, _)   \* Step(a, x, value): x added to the fold of the others; a is
                    \* whatever else it depends on

\* f is the recursive function of the fold over S.
Folds(f, a, S) ==
    f = [T \in SUBSET S |->
            IF T = {} THEN Base ELSE Step(a, Pick(T), f[T \ {Pick(T)}])]

Fold(a, S) == (CHOOSE f : Folds(f, a, S))[S]

\* Every non-empty subset of S has an element to pick.
Picks(S) == \A T \in SUBSET S : T # {} => Pick(T) \in T

\* A family of finite sets has a member that contains no other one.
LEMMA Smallest ==
    ASSUME NEW S, IsFiniteSet(S), NEW F \in SUBSET (SUBSET S), F # {}
    PROVE  \E T \in F : \A U \in SUBSET T : U # T => U \notin F
<1>1. FiniteSubsetsOf(S) = SUBSET S BY FS_FiniteSubsetsOfFinite
<1>2. IsWellFoundedOn(StrictSubsetOrdering(S), SUBSET S)
  BY <1>1, FS_StrictSubsetOrderingWellFounded
<1>3. PICK T \in F : \A U \in F : <<U, T>> \notin StrictSubsetOrdering(S)
  BY <1>2, WFMin
<1>4. ASSUME NEW U \in SUBSET T, U # T, U \in F PROVE FALSE
  <2>1. <<U, T>> \in StrictSubsetOrdering(S) BY <1>4 DEF StrictSubsetOrdering
  <2>. QED BY <1>3, <1>4, <2>1
<1>. QED BY <1>4

\* Two such functions agree on the sets they share.
LEMMA FoldsAgree ==
    ASSUME NEW a, NEW S, NEW T, IsFiniteSet(S), Picks(S), NEW f, NEW g,
           Folds(f, a, S), Folds(g, a, T), NEW U \in SUBSET S, U \subseteq T
    PROVE  f[U] = g[U]
<1> DEFINE F == {V \in SUBSET S : V \subseteq T /\ f[V] # g[V]}
<1> SUFFICES ASSUME F # {} PROVE FALSE OBVIOUS
<1>1. PICK V \in F : \A W \in SUBSET V : W # V => W \notin F
  <2>1. F \in SUBSET (SUBSET S) OBVIOUS
  <2> HIDE DEF F
  <2>. QED BY <2>1, Smallest
<1>2. /\ f[V] = IF V = {} THEN Base ELSE Step(a, Pick(V), f[V \ {Pick(V)}])
      /\ g[V] = IF V = {} THEN Base ELSE Step(a, Pick(V), g[V \ {Pick(V)}])
  BY DEF Folds
<1>3. V # {} BY <1>2
<1>4. Pick(V) \in V BY <1>3 DEF Picks
<1>5. f[V \ {Pick(V)}] = g[V \ {Pick(V)}] BY <1>1, <1>4
<1>. QED BY <1>2, <1>3, <1>5

\* There is such a function: that of a set is put together from those of its
\* subsets.
LEMMA FoldsExist ==
    ASSUME NEW a, NEW S, IsFiniteSet(S), Picks(S)
    PROVE  \E f : Folds(f, a, S)
<1> DEFINE F == {T \in SUBSET S : ~ \E f : Folds(f, a, T)}
           Part(T) == CHOOSE f : Folds(f, a, T)
<1> SUFFICES ASSUME F # {} PROVE FALSE OBVIOUS
<1>1. PICK T \in F : \A U \in SUBSET T : U # T => U \notin F
  <2>1. F \in SUBSET (SUBSET S) OBVIOUS
  <2> HIDE DEF F
  <2>. QED BY <2>1, Smallest
<1>2. ASSUME NEW U \in SUBSET T, U # T PROVE Folds(Part(U), a, U)
  <2>1. \E f : Folds(f, a, U) BY <1>1, <1>2
  <2>. QED BY <2>1
<1> DEFINE Rest(U) == Part(U)[U]
           f == [U \in SUBSET T |-> IF U = {} THEN Base
                    ELSE Step(a, Pick(U), Rest(U \ {Pick(U)}))]
<1> HIDE DEF Part
<1>3. ASSUME NEW U \in SUBSET T, U # T PROVE f[U] = Rest(U)
  <2>1. Rest(U) = IF U = {} THEN Base ELSE Step(a, Pick(U), Part(U)[U \ {Pick(U)}])
    BY <1>2, <1>3 DEF Folds
  <2>2. CASE U = {} BY <2>1, <2>2
  <2>3. CASE U # {}
    <3> DEFINE W == U \ {Pick(U)}
    <3>1. W \in SUBSET T /\ W # T /\ W \subseteq U BY <2>3 DEF Picks
    <3>2. IsFiniteSet(U) /\ Picks(U) BY FS_Subset DEF Picks
    <3>3. Part(U)[W] = Part(W)[W]
      <4>1. Folds(Part(U), a, U) /\ Folds(Part(W), a, W) BY <1>2, <1>3, <3>1
      <4> HIDE DEF W
      <4>. QED BY <3>1, <3>2, <4>1, FoldsAgree
    <3>. QED BY <2>1, <2>3, <3>3
  <2>. QED BY <2>2, <2>3
<1>4. Folds(f, a, T)
  <2>1. ASSUME NEW U \in SUBSET T, U # {}
        PROVE  f[U \ {Pick(U)}] = Rest(U \ {Pick(U)})
    <3>1. U \ {Pick(U)} \in SUBSET T /\ U \ {Pick(U)} # T BY <2>1 DEF Picks
    <3>. QED BY <1>3, <3>1
  <2> DEFINE g == [U \in SUBSET T |-> IF U = {} THEN Base
                    ELSE Step(a, Pick(U), f[U \ {Pick(U)}])]
  <2>2. \A U \in SUBSET T : f[U] = g[U] BY <2>1
  <2>3. f = g BY <2>2, Zenon
  <2>. QED BY <2>3 DEF Folds
<1>. QED BY <1>1, <1>4

\* One turn of the recursion.
LEMMA FoldTurn ==
    ASSUME NEW a, NEW S, IsFiniteSet(S), Picks(S)
    PROVE  /\ S = {} => Fold(a, S) = Base
           /\ S # {} => Fold(a, S) = Step(a, Pick(S), Fold(a, S \ {Pick(S)}))
<1> DEFINE f == CHOOSE f : Folds(f, a, S)
           T == S \ {Pick(S)}
           g == CHOOSE g : Folds(g, a, T)
<1>1. Folds(f, a, S) /\ Fold(a, S) = f[S] BY FoldsExist DEF Fold
<1>2. IsFiniteSet(T) /\ Picks(T) BY FS_Subset DEF Picks
<1>3. Folds(g, a, T) /\ Fold(a, T) = g[T] BY <1>2, FoldsExist DEF Fold
<1> HIDE DEF f, g
<1>4. f[S] = IF S = {} THEN Base ELSE Step(a, Pick(S), f[T]) BY <1>1 DEF Folds
<1>5. f[T] = g[T]
  <2>1. T \in SUBSET S /\ T \subseteq T OBVIOUS
  <2> HIDE DEF T
  <2>. QED BY <1>1, <1>3, <2>1, FoldsAgree
<1>. QED BY <1>1, <1>3, <1>4, <1>5
=============================================================================
