---------------------------- MODULE SixTreeProofs ----------------------------
(* What the 6Tree model generates, proved for any seeds, any digits, any      *)
(* verdicts, aliases and buffers.                                             *)
EXTENDS SixTree, Facts, TLAPS

-----------------------------------------------------------------------------
(* The tree of the seeds.                                                     *)

N == Cardinality(Dim)
Scope == Position \ Dim

\* The digits are finitely many numbers.
LEMMA DigitFacts ==
  /\ N \in Nat /\ Dim \subseteq Nat /\ Dim \subseteq Position /\ IsFiniteSet(Dim)
  /\ \A D \in SUBSET Dim : IsFiniteSet(D)
<1>1. IsFiniteSet(Dim) /\ Dim \subseteq Position /\ Position \subseteq Nat
  BY SixTreeAssumption
<1>2. N \in Nat
  BY <1>1, FS_CardinalityType DEF N
<1>3. \A D \in SUBSET Dim : IsFiniteSet(D)
  BY <1>1, FS_Subset
<1> QED
  BY <1>1, <1>2, <1>3

\* The first digit in which a node's seeds differ.
LEMMA FirstVariableFacts ==
  ASSUME NEW S, \E d \in Dim : ~Steady(S, d)
  PROVE  /\ FirstVariable(S) \in Dim /\ ~Steady(S, FirstVariable(S))
         /\ \A e \in Dim : e < FirstVariable(S) => Steady(S, e)
<1> DEFINE V == {d \in Dim : ~Steady(S, d)}
<1>1. V \in SUBSET Nat /\ V # {}
  BY DigitFacts
<1>2. PICK f \in V : \A d \in V : f <= d
  BY <1>1, LeastNat
<1>3. \A e \in Dim : e < f => Steady(S, e)
  BY <1>1, <1>2, DigitFacts
<1> QED
  BY <1>2, <1>3 DEF FirstVariable

\* The children of a node: its seeds by their first variable digit.
LEMMA ChildFacts ==
  ASSUME NEW S, NEW C \in Children(S)
  PROVE  LET f == FirstVariable(S) IN
         /\ C \subseteq S /\ C # {} /\ C # S
         /\ f \in Dim /\ ~Steady(S, f) /\ \A e \in Dim : e < f => Steady(S, e)
         /\ Steady(C, f)
         /\ \A a \in C, b \in S : b[f] = a[f] => b \in C
<1> DEFINE f == FirstVariable(S)
<1>1. \E d \in Dim : ~Steady(S, d)
  BY DEF Children
<1>2. f \in Dim /\ ~Steady(S, f) /\ \A e \in Dim : e < f => Steady(S, e)
  BY <1>1, FirstVariableFacts
<1>3. PICK a \in S : C = {b \in S : b[f] = a[f]}
  BY <1>1 DEF Children
<1> HIDE DEF f
<1>4. C # S
  BY <1>2, <1>3 DEF Steady
<1>5. Steady(C, f) /\ \A c \in C, b \in S : b[f] = c[f] => b \in C
  BY <1>3 DEF Steady
<1> QED
  BY <1>2, <1>3, <1>4, <1>5 DEF f

\* The children of a node that has some hold all of its seeds.
LEMMA ChildrenCover ==
  ASSUME NEW S, Children(S) # {}, NEW a \in S
  PROVE  \E C \in Children(S) : a \in C
<1> DEFINE Class(c) == {b \in S : b[FirstVariable(S)] = c[FirstVariable(S)]}
<1>1. Children(S) = {Class(c) : c \in S}
  BY DEF Children
<1>2. a \in Class(a)
  OBVIOUS
<1> HIDE DEF Class
<1> QED
  BY <1>1, <1>2

\* Two children of a node have no seed in common.
LEMMA ChildrenApart ==
  ASSUME NEW S, NEW C \in Children(S), NEW D \in Children(S), C \cap D # {}
  PROVE  C = D
<1>1. PICK a : a \in C /\ a \in D
  OBVIOUS
<1>2. PICK f : f = FirstVariable(S)
  OBVIOUS
<1>3. C \subseteq S /\ D \subseteq S /\ Steady(C, f) /\ Steady(D, f)
  BY <1>2, ChildFacts
<1>4. \A x \in S : x[f] = a[f] => x \in C /\ x \in D
  BY <1>1, <1>2, ChildFacts
<1> QED
  BY <1>1, <1>3, <1>4 DEF Steady

\* The roots: seeds that agree before their first digit.
LEMMA RootFacts ==
  /\ \A G \in Roots : G \subseteq Seeds /\ G # {} /\ \A a, b \in G : Same(a, b, Scope)
  /\ \A G, H \in Roots : G = H \/ G \cap H = {}
  /\ \A s \in Seeds : \E G \in Roots : s \in G
  /\ \A G \in Roots : \A a \in G, s \in Seeds : Same(a, s, Scope) => s \in G
<1>1. Roots = {{b \in Seeds : Same(a, b, Scope)} : a \in Seeds}
  BY DEF Roots, Scope
<1>2. \A a : Same(a, a, Scope)
  BY DEF Same
<1>3. \A a, b, c : Same(a, b, Scope) /\ Same(b, c, Scope) => Same(a, c, Scope)
  BY DEF Same
<1>4. \A a, b : Same(a, b, Scope) => Same(b, a, Scope)
  BY DEF Same
<1>5. ASSUME NEW G \in Roots, NEW s \in G
      PROVE  G = {b \in Seeds : Same(s, b, Scope)}
  BY <1>1, <1>3, <1>4
<1>6. \A G \in Roots : G \subseteq Seeds /\ G # {} /\ \A a, b \in G : Same(a, b, Scope)
  BY <1>1, <1>2, <1>3, <1>4
<1>7. \A G, H \in Roots : G = H \/ G \cap H = {}
  BY <1>5
<1>8. ASSUME NEW s \in Seeds PROVE \E G \in Roots : s \in G
  <2>1. s \in {b \in Seeds : Same(s, b, Scope)}
    BY <1>2
  <2>2. {b \in Seeds : Same(s, b, Scope)} \in Roots
    BY <1>1
  <2> QED
    BY <2>1, <2>2
<1> QED
  BY <1>5, <1>6, <1>7, <1>8

LevelsUpTo(f, m) ==
  /\ f[0] = Roots
  /\ \A n \in 1..m : f[n] = UNION {Children(S) : S \in f[n - 1]}

\* The levels of the tree, one after the other.
LEMMA LevelsFacts == LevelsUpTo(Levels, N)
<1> DEFINE Is(f) == f = [n \in 0..N |-> IF n = 0 THEN Roots ELSE UNION {Children(S) : S \in f[n - 1]}]
           K == {k \in 0..N : \E f : LevelsUpTo(f, k)}
<1>1. N \in Nat
  BY DigitFacts
<1>2. 0 \in K
  <2>1. LevelsUpTo([n \in 0..0 |-> Roots], 0)
    BY DEF LevelsUpTo
  <2> QED
    BY <1>1, <2>1
<1>3. ASSUME NEW k \in 0..(N - 1), k \in K PROVE k + 1 \in K
  <2>1. PICK f : LevelsUpTo(f, k)
    BY <1>3
  <2> DEFINE g == [n \in 0..(k + 1) |-> IF n = k + 1 THEN UNION {Children(S) : S \in f[k]} ELSE f[n]]
  <2>2. g[0] = Roots
    BY <2>1 DEF LevelsUpTo
  <2>3. ASSUME NEW n \in 1..(k + 1) PROVE g[n] = UNION {Children(S) : S \in g[n - 1]}
    <3>1. CASE n = k + 1
      <4>1. n - 1 = k /\ n - 1 \in 0..(k + 1) /\ n - 1 # k + 1
        BY <3>1
      <4>2. g[n] = UNION {Children(S) : S \in f[k]} /\ g[n - 1] = f[k]
        BY <3>1, <4>1
      <4> QED
        BY <4>2
    <3>2. CASE n # k + 1
      <4>1. n \in 1..k /\ n - 1 # k + 1 /\ n - 1 \in 0..(k + 1)
        BY <3>2
      <4>2. g[n] = f[n] /\ g[n - 1] = f[n - 1]
        BY <3>2, <4>1
      <4>3. f[n] = UNION {Children(S) : S \in f[n - 1]}
        BY <2>1, <4>1 DEF LevelsUpTo
      <4> QED
        BY <4>2, <4>3
    <3> QED
      BY <3>1, <3>2
  <2> HIDE DEF g
  <2>4. LevelsUpTo(g, k + 1)
    BY <2>2, <2>3 DEF LevelsUpTo
  <2>5. k + 1 \in 0..N
    BY <1>1
  <2> QED
    BY <2>4, <2>5
<1> HIDE DEF K
<1>4. N \in K
  BY <1>1, <1>2, <1>3, InductionUpTo
<1>5. PICK f : LevelsUpTo(f, N)
  BY <1>4 DEF K
<1> DEFINE g == [n \in 0..N |-> f[n]]
<1>6. ASSUME NEW n \in 0..N
      PROVE  g[n] = IF n = 0 THEN Roots ELSE UNION {Children(S) : S \in g[n - 1]}
  <2>1. CASE n = 0
    BY <1>5, <2>1 DEF LevelsUpTo
  <2>2. CASE n # 0
    <3>1. n \in 1..N /\ n - 1 \in 0..N
      BY <1>1, <2>2
    <3>2. f[n] = UNION {Children(S) : S \in f[n - 1]} /\ g[n] = f[n] /\ g[n - 1] = f[n - 1]
      BY <1>5, <3>1 DEF LevelsUpTo
    <3> QED
      BY <2>2, <3>2
  <2> QED
    BY <2>1, <2>2
<1>7. DOMAIN g = 0..N /\ g = [n \in DOMAIN g |-> g[n]]
  OBVIOUS
<1> HIDE DEF g
<1>8. Is(g)
  BY <1>6, <1>7, Zenon
<1>9. Is(Levels)
  BY <1>8 DEF Levels, N
<1> HIDE DEF Is
<1>10. Levels[0] = Roots /\ \A n \in 1..N : Levels[n] = UNION {Children(S) : S \in Levels[n - 1]}
  <2>1. Levels[0] = Roots
    BY <1>1, <1>9 DEF Is
  <2>2. ASSUME NEW n \in 1..N PROVE Levels[n] = UNION {Children(S) : S \in Levels[n - 1]}
    <3>1. n \in 0..N /\ n # 0
      BY <1>1
    <3> QED
      BY <1>9, <3>1 DEF Is
  <2> QED
    BY <2>1, <2>2
<1> QED
  BY <1>10 DEF LevelsUpTo
\* A node of a level holds seeds of one root.
LEMMA LevelNodes ==
  ASSUME NEW n \in 0..N, NEW S \in Levels[n]
  PROVE  S # {} /\ \E G \in Roots : S \subseteq G
<1> DEFINE Good(S1) == S1 # {} /\ \E G \in Roots : S1 \subseteq G
           K == {k \in 0..N : \A S1 \in Levels[k] : Good(S1)}
<1>1. N \in Nat /\ LevelsUpTo(Levels, N)
  BY DigitFacts, LevelsFacts
<1>2. 0 \in K
  BY <1>1, RootFacts DEF LevelsUpTo
<1>3. ASSUME NEW k \in 0..(N - 1), k \in K PROVE k + 1 \in K
  <2>1. k + 1 \in 1..N /\ (k + 1) - 1 = k /\ k + 1 \in 0..N
    BY <1>1
  <2>2. Levels[k + 1] = UNION {Children(T) : T \in Levels[k]}
    BY <1>1, <2>1 DEF LevelsUpTo
  <2>3. ASSUME NEW C \in Levels[k + 1] PROVE Good(C)
    <3>1. PICK T \in Levels[k] : C \in Children(T)
      BY <2>2
    <3>2. C \subseteq T /\ C # {}
      BY <3>1, ChildFacts
    <3> QED
      BY <1>3, <3>2
  <2> QED
    BY <2>1, <2>3
<1> HIDE DEF K
<1>4. 0..N \subseteq K
  BY <1>1, <1>2, <1>3, InductionUpTo
<1> QED
  BY <1>4 DEF K

\* Nodes of one level have no seed in common.
LEMMA LevelApart ==
  ASSUME NEW n \in 0..N, NEW S \in Levels[n], NEW T \in Levels[n], S \cap T # {}
  PROVE  S = T
<1> DEFINE Disjoint(k) == \A S1, T1 \in Levels[k] : S1 = T1 \/ S1 \cap T1 = {}
           K == {k \in 0..N : Disjoint(k)}
<1>1. N \in Nat /\ LevelsUpTo(Levels, N)
  BY DigitFacts, LevelsFacts
<1>2. 0 \in K
  <2>1. \A S1, T1 \in Roots : S1 = T1 \/ S1 \cap T1 = {}
    BY RootFacts
  <2>2. Levels[0] = Roots /\ 0 \in 0..N
    BY <1>1 DEF LevelsUpTo
  <2> QED
    BY <2>1, <2>2
<1>3. ASSUME NEW k \in 0..(N - 1), k \in K PROVE k + 1 \in K
  <2>1. k + 1 \in 1..N /\ (k + 1) - 1 = k /\ k + 1 \in 0..N
    BY <1>1
  <2>2. Levels[k + 1] = UNION {Children(U) : U \in Levels[k]}
    BY <1>1, <2>1 DEF LevelsUpTo
  <2>3. ASSUME NEW C \in Levels[k + 1], NEW D \in Levels[k + 1], C \cap D # {} PROVE C = D
    <3>1. PICK U \in Levels[k] : C \in Children(U)
      BY <2>2
    <3>2. PICK V \in Levels[k] : D \in Children(V)
      BY <2>2
    <3>3. C \subseteq U /\ D \subseteq V
      BY <3>1, <3>2, ChildFacts
    <3>4. U = V
      BY <1>3, <2>3, <3>3
    <3> QED
      BY <2>3, <3>1, <3>2, <3>4, ChildrenApart
  <2> QED
    BY <2>1, <2>3
<1> HIDE DEF K
<1>4. 0..N \subseteq K
  BY <1>1, <1>2, <1>3, InductionUpTo
<1> QED
  BY <1>4 DEF K

\* A node of a deeper level that shares a seed with a node is below a child of it.
LEMMA LevelBelow ==
  ASSUME NEW n \in 0..N, NEW m \in 0..N, m < n,
         NEW S \in Levels[n], NEW T \in Levels[m], S \cap T # {}
  PROVE  \E C \in Children(T) : C \in Levels[m + 1] /\ S \subseteq C
<1> DEFINE Good(k) == m < k => \A S1 \in Levels[k] : S1 \cap T # {} =>
                        \E C \in Children(T) : C \in Levels[m + 1] /\ S1 \subseteq C
           K == {k \in 0..N : Good(k)}
<1>1. N \in Nat /\ LevelsUpTo(Levels, N)
  BY DigitFacts, LevelsFacts
<1>2. 0 \in K
  BY <1>1
<1>3. ASSUME NEW k \in 0..(N - 1), k \in K PROVE k + 1 \in K
  <2>1. k + 1 \in 1..N /\ (k + 1) - 1 = k /\ k + 1 \in 0..N /\ k \in 0..N
    BY <1>1
  <2>2. Levels[k + 1] = UNION {Children(U) : U \in Levels[k]}
    BY <1>1, <2>1 DEF LevelsUpTo
  <2>3. ASSUME m < k + 1, NEW C \in Levels[k + 1], C \cap T # {}
        PROVE  \E D \in Children(T) : D \in Levels[m + 1] /\ C \subseteq D
    <3>1. PICK U \in Levels[k] : C \in Children(U)
      BY <2>2
    <3>2. C \subseteq U /\ U \cap T # {}
      BY <2>3, <3>1, ChildFacts
    <3>3. CASE m = k
      <4>1. U = T
        BY <2>1, <3>2, <3>3, LevelApart
      <4> QED
        BY <3>1, <3>3, <4>1
    <3>4. CASE m < k
      BY <1>3, <3>2, <3>4
    <3> QED
      BY <2>1, <2>3, <3>3, <3>4
  <2>4. Good(k + 1)
    BY <2>3
  <2> HIDE DEF Good
  <2> QED
    BY <2>1, <2>4
<1> HIDE DEF K
<1>4. 0..N \subseteq K
  BY <1>1, <1>2, <1>3, InductionUpTo
<1> QED
  BY <1>4 DEF K

\* Every node is on a level.
LEMMA NodeFacts ==
  ASSUME NEW S \in Tree
  PROVE  /\ S # {} /\ S \subseteq Seeds
         /\ \E n \in 0..N : S \in Levels[n]
         /\ \E G \in Roots : S \subseteq G
<1>1. PICK n \in 0..N : S \in Levels[n]
  BY DEF Tree, N
<1> QED
  BY <1>1, LevelNodes, RootFacts

\* Two nodes have no seed in common, or one has all of the other's.
LEMMA Laminar ==
  ASSUME NEW S \in Tree, NEW T \in Tree, S \cap T # {}
  PROVE  S \subseteq T \/ T \subseteq S
<1>1. PICK n \in 0..N : S \in Levels[n]
  BY NodeFacts
<1>2. PICK m \in 0..N : T \in Levels[m]
  BY NodeFacts
<1>3. CASE m < n
  <2>1. PICK C \in Children(T) : S \subseteq C
    BY <1>1, <1>2, <1>3, LevelBelow
  <2> QED
    BY <2>1, ChildFacts
<1>4. CASE n < m
  <2>1. PICK C \in Children(S) : T \subseteq C
    BY <1>1, <1>2, <1>4, LevelBelow
  <2> QED
    BY <2>1, ChildFacts
<1>5. CASE n = m
  BY <1>1, <1>2, <1>5, LevelApart
<1> QED
  BY <1>3, <1>4, <1>5

\* What is below a node is below one of its children, which is a node.
LEMMA BelowChild ==
  ASSUME NEW S \in Tree, NEW T \in Tree, Below(S, T)
  PROVE  \E C \in Children(T) : C \in Tree /\ S \subseteq C
<1>1. PICK n \in 0..N : S \in Levels[n]
  BY NodeFacts
<1>2. PICK m \in 0..N : T \in Levels[m]
  BY NodeFacts
<1>3. S \cap T # {} /\ S \subseteq T /\ S # T /\ N \in Nat
  BY NodeFacts, DigitFacts DEF Below
<1>4. CASE m < n
  <2>1. PICK C \in Children(T) : C \in Levels[m + 1] /\ S \subseteq C
    BY <1>1, <1>2, <1>3, <1>4, LevelBelow
  <2>2. m + 1 \in 0..N
    BY <1>3, <1>4
  <2> QED
    BY <2>1, <2>2 DEF Tree, N
<1>5. CASE n < m
  <2>1. PICK C \in Children(S) : T \subseteq C
    BY <1>1, <1>2, <1>3, <1>5, LevelBelow
  <2>2. C \subseteq S /\ C # S
    BY <2>1, ChildFacts
  <2> QED
    BY <1>3, <2>1, <2>2
<1>6. CASE n = m
  BY <1>1, <1>2, <1>3, <1>6, LevelApart
<1> QED
  BY <1>4, <1>5, <1>6

\* A node is the child of one node only.
LEMMA OneParent ==
  ASSUME NEW S, NEW T \in Tree, NEW U \in Tree, S \in Children(T), S \in Children(U)
  PROVE  T = U
<1>1. S \subseteq T /\ S \subseteq U /\ S # {} /\ S # T /\ S # U
  BY ChildFacts
<1>2. ASSUME NEW A \in Tree, NEW B \in Tree, S \in Children(A), S \in Children(B), S # A, Below(A, B)
      PROVE  FALSE
  <2>1. PICK C \in Children(B) : A \subseteq C
    BY <1>2, BelowChild
  <2>2. S \subseteq A
    BY <1>2, ChildFacts
  <2>3. S = C
    BY <1>1, <1>2, <2>1, <2>2, ChildrenApart
  <2> QED
    BY <1>2, <2>1, <2>2, <2>3
<1>3. T \subseteq U \/ U \subseteq T
  BY <1>1, Laminar
<1> QED
  BY <1>1, <1>2, <1>3 DEF Below

\* The parent of a node on a level is on the level above; it is the least node
\* above it.
LEMMA ParentFacts ==
  ASSUME NEW S \in Tree, S \notin Roots
  PROVE  /\ Parent[S] \in Tree /\ S \in Children(Parent[S]) /\ Below(S, Parent[S])
         /\ Parent[S] # NoParent /\ Parent[S] \notin Leaves
         /\ \A T \in Tree : Below(S, T) => Parent[S] \subseteq T
         /\ \A n \in 0..N : S \in Levels[n] => n \in 1..N /\ Parent[S] \in Levels[n - 1]
<1>0. N \in Nat /\ LevelsUpTo(Levels, N)
  BY DigitFacts, LevelsFacts
<1>1. ASSUME NEW n \in 0..N, S \in Levels[n]
      PROVE  n \in 1..N /\ \E P \in Levels[n - 1] : P \in Tree /\ S \in Children(P)
  <2>1. n \in 1..N /\ n - 1 \in 0..N
    BY <1>0, <1>1 DEF LevelsUpTo
  <2>2. Levels[n] = UNION {Children(U) : U \in Levels[n - 1]}
    BY <1>0, <2>1 DEF LevelsUpTo
  <2>3. PICK P \in Levels[n - 1] : S \in Children(P)
    BY <1>1, <2>2
  <2>4. P \in Tree
    BY <2>1 DEF Tree, N
  <2> QED
    BY <2>1, <2>3, <2>4
<1>2. \E P \in Tree : S \in Children(P)
  BY <1>1, NodeFacts
<1>3. Parent[S] = CHOOSE T \in Tree : S \in Children(T)
  BY DEF Parent
<1> DEFINE P == Parent[S]
<1>4. P \in Tree /\ S \in Children(P)
  BY <1>2, <1>3
<1> HIDE DEF P
<1>5. Below(S, P)
  BY <1>4, ChildFacts DEF Below
<1>6. P # NoParent
  BY <1>4, NodeFacts DEF NoParent
<1>7. ASSUME NEW T \in Tree, Below(S, T) PROVE P \subseteq T
  <2>1. S # {} /\ S \subseteq T /\ S \subseteq P
    BY <1>5, <1>7, NodeFacts DEF Below
  <2>2. P \subseteq T \/ T \subseteq P
    BY <1>4, <2>1, Laminar
  <2>3. ASSUME Below(T, P) PROVE FALSE
    <3>1. PICK C \in Children(P) : T \subseteq C
      BY <1>4, <2>3, BelowChild
    <3>2. C = S
      BY <1>4, <2>1, <3>1, ChildrenApart
    <3> QED
      BY <1>7, <3>1, <3>2 DEF Below
  <2> QED
    BY <2>2, <2>3 DEF Below
<1>8. ASSUME NEW n \in 0..N, S \in Levels[n] PROVE n \in 1..N /\ P \in Levels[n - 1]
  BY <1>1, <1>4, <1>8, OneParent
<1>9. P \notin Leaves
  BY <1>4 DEF Leaves
<1> QED
  BY <1>4, <1>5, <1>6, <1>7, <1>8, <1>9 DEF P

\* Nothing is above a root.
LEMMA RootsOnTop ==
  ASSUME NEW G \in Roots
  PROVE  G \in Tree /\ \A T \in Tree : ~Below(G, T)
<1>1. G \in Tree
  <2>1. N \in Nat /\ LevelsUpTo(Levels, N)
    BY DigitFacts, LevelsFacts
  <2>2. G \in Levels[0] /\ 0 \in 0..N
    BY <2>1 DEF LevelsUpTo
  <2> QED
    BY <2>2 DEF Tree, N
<1>2. ASSUME NEW T \in Tree, Below(G, T) PROVE FALSE
  <2>1. PICK H \in Roots : T \subseteq H
    BY NodeFacts
  <2>2. G # {} /\ (G = H \/ G \cap H = {})
    BY RootFacts
  <2> QED
    BY <1>2, <2>1, <2>2 DEF Below
<1> QED
  BY <1>1, <1>2

\* A node has a parent unless it is a root.
LEMMA HasParent ==
  ASSUME NEW S \in Tree
  PROVE  Parent[S] # NoParent <=> S \notin Roots
<1>1. S \in Roots => Parent[S] = NoParent
  BY DEF Parent
<1> QED
  BY <1>1, ParentFacts
-----------------------------------------------------------------------------
(* The stacks of digits.                                                      *)

Increasing(s) == \A i, j \in DOMAIN s : i < j => s[i] < s[j]
Lists(s, D)   == s \in [1..Cardinality(D) -> D] /\ Increasing(s) /\ Range(s) = D

\* A finite set of numbers can be listed in increasing order.
LEMMA ListsExist ==
  ASSUME NEW D \in SUBSET Nat, IsFiniteSet(D)
  PROVE  \E s : Lists(s, D)
<1> DEFINE Good(k) == \A E \in SUBSET Nat : IsFiniteSet(E) /\ Cardinality(E) = k => \E s : Lists(s, E)
           n == Cardinality(D)
           K == {k \in 0..n : Good(k)}
<1>1. n \in Nat
  BY FS_CardinalityType
<1>2. 0 \in K
  <2>1. ASSUME NEW E \in SUBSET Nat, IsFiniteSet(E), Cardinality(E) = 0 PROVE \E s : Lists(s, E)
    <3>1. E = {}
      BY <2>1, FS_EmptySet
    <3>2. Lists(<<>>, {})
      BY <2>1, <3>1 DEF Lists, Increasing, Range
    <3> QED
      BY <3>1, <3>2
  <2> HIDE DEF n
  <2> QED
    BY <1>1, <2>1
<1>3. ASSUME NEW k \in 0..(n - 1), k \in K PROVE k + 1 \in K
  <2>1. ASSUME NEW E \in SUBSET Nat, IsFiniteSet(E), Cardinality(E) = k + 1 PROVE \E s : Lists(s, E)
    <3>1. E # {}
      BY <2>1, FS_EmptySet, <1>1
    <3>2. PICK m \in E : \A x \in E : m <= x
      BY <3>1, LeastNat
    <3> DEFINE F == E \ {m}
    <3>3. IsFiniteSet(F) /\ Cardinality(F) = k /\ F \in SUBSET Nat
      <4>1. IsFiniteSet(F) /\ Cardinality(F) = Cardinality(E) - 1
        BY <2>1, <3>2, FS_RemoveElement
      <4> QED
        BY <1>1, <2>1, <4>1
    <3>4. PICK t : Lists(t, F)
      BY <1>3, <3>3
    <3> DEFINE s == [i \in 1..(k + 1) |-> IF i = 1 THEN m ELSE t[i - 1]]
    <3>5. t \in [1..k -> F] /\ Increasing(t) /\ Range(t) = F /\ DOMAIN t = 1..k
      BY <3>3, <3>4 DEF Lists
    <3>6. \A i \in 1..(k + 1) : i # 1 => i - 1 \in 1..k /\ t[i - 1] \in F
      BY <3>5
    <3>7. s \in [1..(k + 1) -> E]
      BY <3>6
    <3>8. Increasing(s)
      <4> SUFFICES ASSUME NEW i \in 1..(k + 1), NEW j \in 1..(k + 1), i < j PROVE s[i] < s[j]
        BY DEF Increasing
      <4>1. j # 1 /\ j - 1 \in 1..k /\ s[j] = t[j - 1] /\ t[j - 1] \in F
        BY <3>6
      <4>2. CASE i = 1
        <5>1. s[i] = m
          BY <4>2
        <5>2. t[j - 1] \in Nat /\ m \in Nat /\ m <= t[j - 1] /\ m # t[j - 1]
          BY <3>2, <4>1
        <5> HIDE DEF s
        <5> QED
          BY <4>1, <5>1, <5>2
      <4>3. CASE i # 1
        <5>1. i - 1 \in 1..k /\ s[i] = t[i - 1] /\ i - 1 < j - 1
          BY <3>6, <4>3
        <5> QED
          BY <3>5, <4>1, <5>1 DEF Increasing
      <4> QED
        BY <4>2, <4>3
    <3>9. Range(s) = E
      <4>1. ASSUME NEW x \in E PROVE \E i \in 1..(k + 1) : s[i] = x
        <5>1. CASE x = m
          <6>1. 1 \in 1..(k + 1) /\ s[1] = m
            BY <1>1
          <6> QED
            BY <5>1, <6>1
        <5>2. CASE x # m
          <6>1. PICK i \in 1..k : t[i] = x
            BY <3>5, <5>2 DEF Range
          <6>2. i + 1 \in 1..(k + 1) /\ s[i + 1] = t[(i + 1) - 1] /\ (i + 1) - 1 = i
            BY <1>1
          <6> QED
            BY <6>1, <6>2
        <5> QED
          BY <5>1, <5>2
      <4>2. DOMAIN s = 1..(k + 1)
        OBVIOUS
      <4> HIDE DEF s
      <4> QED
        BY <3>7, <4>1, <4>2 DEF Range
    <3> HIDE DEF s
    <3>10. Lists(s, E)
      BY <2>1, <3>7, <3>8, <3>9 DEF Lists
    <3> QED
      BY <3>10
  <2>2. k + 1 \in 0..n
    BY <1>1
  <2> HIDE DEF n
  <2> QED
    BY <2>1, <2>2
<1> HIDE DEF K, n
<1>4. n \in K
  BY <1>1, <1>2, <1>3, InductionUpTo
<1> QED
  BY <1>4 DEF K, n

\* What Ascending() returns: all elements, each once, the least first.
LEMMA AscendingFacts ==
  ASSUME NEW D \in SUBSET Nat, IsFiniteSet(D)
  PROVE  /\ Ascending(D) \in Seq(D) /\ Range(Ascending(D)) = D
         /\ Len(Ascending(D)) = Cardinality(D)
         /\ \A i, j \in 1..Len(Ascending(D)) : Ascending(D)[i] = Ascending(D)[j] => i = j
         /\ D # {} => /\ Len(Ascending(D)) > 0
                      /\ \A x \in D : Ascending(D)[1] <= x
<1> DEFINE n == Cardinality(D)
           a == Ascending(D)
           Up(s) == \A i, j \in DOMAIN s : i < j => s[i] < s[j]
<1>1. n \in Nat
  BY FS_CardinalityType
<1>2. PICK s : Lists(s, D)
  BY ListsExist
<1>3. \E t \in [1..n -> D] : Up(t)
  BY <1>2 DEF Lists, Increasing
<1>4. a = CHOOSE t \in [1..n -> D] : Up(t)
  BY DEF Ascending
<1> HIDE DEF a
<1>5. a \in [1..n -> D] /\ Up(a)
  BY <1>3, <1>4
<1> HIDE DEF n
<1>6. a \in Seq(D) /\ Len(a) = n /\ DOMAIN a = 1..n
  BY <1>1, <1>5
<1>7. \A i, j \in 1..n : a[i] = a[j] => i = j
  <2> SUFFICES ASSUME NEW i \in 1..n, NEW j \in 1..n, a[i] = a[j], i < j PROVE FALSE
    BY <1>1
  <2>1. a[i] \in Nat /\ a[i] < a[j]
    BY <1>5, <1>6
  <2> QED
    BY <2>1
<1>8. Range(a) = D
  <2>1. Numbering(a, D)
    BY <1>5, <1>7, NumberingFacts DEF n
  <2>2. \A x \in D : \E i \in 1..n : a[i] = x
    BY <2>1 DEF Numbering, n
  <2> QED
    BY <1>5, <1>6, <2>2 DEF Range
<1>9. ASSUME D # {} PROVE n > 0 /\ \A x \in D : a[1] <= x
  <2>1. ASSUME NEW x \in D PROVE n > 0 /\ a[1] <= x
    <3>1. PICK i \in 1..n : a[i] = x
      BY <1>6, <1>8 DEF Range
    <3>2. 1 \in 1..n /\ i \in Nat /\ n > 0 /\ (i = 1 \/ 1 < i)
      BY <1>1
    <3>3. a[1] \in D /\ (1 < i => a[1] < a[i])
      BY <1>5, <1>6, <3>2
    <3>4. a[1] \in Nat /\ x \in Nat
      BY <3>3
    <3> QED
      BY <3>1, <3>2, <3>3, <3>4
  <2> QED
    BY <1>9, <2>1
<1> QED
  BY <1>6, <1>7, <1>8, <1>9 DEF a, n

\* Range of two sequences after each other.
LEMMA ConcatRange ==
  ASSUME NEW T, NEW s \in Seq(T), NEW t \in Seq(T)
  PROVE  Range(s \o t) = Range(s) \cup Range(t)
<1>1. /\ s \o t \in Seq(T) /\ Len(s) \in Nat /\ Len(t) \in Nat
      /\ Len(s \o t) = Len(s) + Len(t)
      /\ \A i \in 1..Len(s) : (s \o t)[i] = s[i]
      /\ \A i \in 1..Len(t) : (s \o t)[Len(s) + i] = t[i]
  BY ConcatFacts
<1>2. DOMAIN s = 1..Len(s) /\ DOMAIN t = 1..Len(t) /\ DOMAIN (s \o t) = 1..Len(s \o t)
  BY <1>1
<1> DEFINE u == s \o t
<1> HIDE DEF u
<1>3. Range(s) \subseteq Range(u)
  <2> SUFFICES ASSUME NEW i \in 1..Len(s) PROVE s[i] \in Range(u)
    BY <1>2 DEF Range
  <2>1. i \in 1..Len(u) /\ u[i] = s[i] /\ DOMAIN u = 1..Len(u)
    BY <1>1, <1>2 DEF u
  <2> QED
    BY <2>1 DEF Range
<1>4. Range(t) \subseteq Range(u)
  <2> SUFFICES ASSUME NEW i \in 1..Len(t) PROVE t[i] \in Range(u)
    BY <1>2 DEF Range
  <2>1. Len(s) + i \in 1..Len(u) /\ u[Len(s) + i] = t[i] /\ DOMAIN u = 1..Len(u)
    BY <1>1, <1>2 DEF u
  <2> QED
    BY <2>1 DEF Range
<1>5. Range(u) \subseteq Range(s) \cup Range(t)
  <2> SUFFICES ASSUME NEW i \in 1..Len(u) PROVE u[i] \in Range(s) \cup Range(t)
    BY <1>2 DEF Range, u
  <2>1. CASE i <= Len(s)
    <3>1. i \in 1..Len(s) /\ u[i] = s[i]
      BY <1>1, <2>1 DEF u
    <3> QED
      BY <1>2, <3>1 DEF Range
  <2>2. CASE i > Len(s)
    <3>1. i - Len(s) \in 1..Len(t) /\ i = Len(s) + (i - Len(s))
      BY <1>1, <2>2 DEF u
    <3>2. u[i] = t[i - Len(s)]
      BY <1>1, <3>1 DEF u
    <3> QED
      BY <1>2, <3>1, <3>2 DEF Range
  <2> QED
    BY <1>1, <2>1, <2>2
<1> QED
  BY <1>3, <1>4, <1>5 DEF u

Distinct(s) == \A i, j \in 1..Len(s) : s[i] = s[j] => i = j

\* Sequences without repetition and without common elements, after each other.
LEMMA ConcatDistinct ==
  ASSUME NEW T, NEW s \in Seq(T), NEW t \in Seq(T), Distinct(s), Distinct(t), Range(s) \cap Range(t) = {}
  PROVE  Distinct(s \o t)
<1> DEFINE u == s \o t
<1>1. /\ Len(s) \in Nat /\ Len(t) \in Nat
      /\ Len(u) = Len(s) + Len(t)
      /\ \A i \in 1..Len(s) : u[i] = s[i]
      /\ \A i \in 1..Len(t) : u[Len(s) + i] = t[i]
  BY ConcatFacts
<1> HIDE DEF u
<1>2. DOMAIN s = 1..Len(s) /\ DOMAIN t = 1..Len(t)
  OBVIOUS
<1>3. \A i \in 1..Len(s) : u[i] \in Range(s)
  BY <1>1, <1>2 DEF Range
<1>4. ASSUME NEW i \in 1..Len(u), i > Len(s)
      PROVE  /\ i - Len(s) \in 1..Len(t) /\ u[i] = t[i - Len(s)] /\ u[i] \in Range(t)
  <2>1. i - Len(s) \in 1..Len(t) /\ i = Len(s) + (i - Len(s))
    BY <1>1, <1>4
  <2>2. u[i] = t[i - Len(s)]
    BY <1>1, <2>1
  <2> QED
    BY <1>2, <2>1, <2>2 DEF Range
<1>5. ASSUME NEW i \in 1..Len(u), NEW j \in 1..Len(u), u[i] = u[j] PROVE i = j
  <2>1. CASE i <= Len(s) /\ j <= Len(s)
    <3>1. i \in 1..Len(s) /\ j \in 1..Len(s)
      BY <1>1, <2>1
    <3> QED
      BY <1>1, <1>5, <3>1 DEF Distinct
  <2>2. CASE i > Len(s) /\ j > Len(s)
    <3>1. i - Len(s) = j - Len(s)
      BY <1>4, <1>5, <2>2 DEF Distinct
    <3> QED
      BY <1>1, <3>1
  <2>3. CASE (i <= Len(s) /\ j > Len(s)) \/ (i > Len(s) /\ j <= Len(s))
    <3>1. i \in 1..Len(s) \/ j \in 1..Len(s)
      BY <1>1, <2>3
    <3> QED
      BY <1>1, <1>3, <1>4, <1>5, <2>3, <3>1
  <2> QED
    BY <1>1, <2>1, <2>2, <2>3
<1> QED
  BY <1>5 DEF Distinct, u
Prefix(s, t) == Len(s) <= Len(t) /\ \A i \in 1..Len(s) : t[i] = s[i]
SteadyIn(S)  == {d \in Dim : Steady(S, d)}

\* The digits of a node after those of its parent.
LEMMA DigitsFacts ==
  ASSUME NEW S, NEW above \in Seq(Dim), Distinct(above), Range(above) \subseteq SteadyIn(S)
  PROVE  LET s == Digits(S, above) IN
         /\ s \in Seq(Dim) /\ Distinct(s) /\ Prefix(above, s)
         /\ SteadyIn(S) \subseteq Range(s)
         /\ S \in Leaves => Range(s) = Dim
         /\ S \notin Leaves => Range(s) = SteadyIn(S)
         /\ \A d \in SteadyIn(S) \ Range(above) :
              /\ Len(above) < Len(s) /\ s[Len(above) + 1] <= d
              /\ s[Len(above) + 1] \in SteadyIn(S) \ Range(above)
<1> DEFINE new  == {d \in Dim \ Range(above) : Steady(S, d)}
           own  == Ascending(new)
           ds   == above \o own
           rest == IF S \in Leaves THEN Ascending(Dim \ Range(ds)) ELSE <<>>
           s    == Digits(S, above)
<1>1. s = ds \o rest
  BY DEF Digits
<1>2. new \in SUBSET Dim /\ new \in SUBSET Nat /\ IsFiniteSet(new)
  BY DigitFacts
<1>3. new = SteadyIn(S) \ Range(above)
  BY DEF SteadyIn
<1> HIDE DEF new, s
<1>4. /\ own \in Seq(new) /\ Range(own) = new /\ Distinct(own)
      /\ new # {} => Len(own) > 0 /\ \A x \in new : own[1] <= x
  BY <1>2, AscendingFacts DEF Distinct
<1> HIDE DEF own
<1>5. own \in Seq(Dim)
  <2>1. Len(own) \in Nat /\ own \in [1..Len(own) -> new]
    BY <1>4
  <2>2. own \in [1..Len(own) -> Dim]
    BY <1>2, <2>1
  <2> QED
    BY <2>1, <2>2
<1>6. /\ ds \in Seq(Dim) /\ Len(ds) = Len(above) + Len(own) /\ Len(above) \in Nat /\ Len(own) \in Nat
      /\ \A i \in 1..Len(above) : ds[i] = above[i]
      /\ \A i \in 1..Len(own) : ds[Len(above) + i] = own[i]
  BY <1>5, ConcatFacts
<1>7. Range(ds) = Range(above) \cup new
  BY <1>4, <1>5, ConcatRange
<1>8. Distinct(ds)
  BY <1>3, <1>4, <1>5, ConcatDistinct
<1> HIDE DEF ds
<1>9. /\ rest \in Seq(Dim) /\ Distinct(rest) /\ Range(rest) \cap Range(ds) = {}
      /\ S \in Leaves => Range(rest) = Dim \ Range(ds)
      /\ S \notin Leaves => Range(rest) = {}
  <2>1. CASE S \in Leaves
    <3> DEFINE D == Dim \ Range(ds)
    <3>1. D \in SUBSET Dim /\ D \in SUBSET Nat /\ IsFiniteSet(D)
      BY DigitFacts
    <3>2. Ascending(D) \in Seq(D) /\ Range(Ascending(D)) = D /\ Distinct(Ascending(D))
      BY <3>1, AscendingFacts DEF Distinct
    <3>3. Ascending(D) \in Seq(Dim)
      BY <3>1, <3>2
    <3>4. rest = Ascending(D)
      BY <2>1
    <3> QED
      BY <2>1, <3>2, <3>3, <3>4
  <2>2. CASE S \notin Leaves
    <3>1. <<>> \in Seq(Dim) /\ Len(<<>>) = 0 /\ Range(<<>>) = {}
      BY DEF Range
    <3>2. rest = <<>>
      BY <2>2
    <3> HIDE DEF rest
    <3> QED
      BY <2>2, <3>1, <3>2 DEF Distinct
  <2> QED
    BY <2>1, <2>2
<1> HIDE DEF rest
<1>10. /\ s \in Seq(Dim) /\ Len(s) = Len(ds) + Len(rest) /\ Len(rest) \in Nat
       /\ \A i \in 1..Len(ds) : s[i] = ds[i]
  <2>1. ds \in Seq(Dim) /\ rest \in Seq(Dim)
    BY <1>6, <1>9
  <2>2. /\ ds \o rest \in Seq(Dim) /\ Len(ds \o rest) = Len(ds) + Len(rest) /\ Len(rest) \in Nat
        /\ \A i \in 1..Len(ds) : (ds \o rest)[i] = ds[i]
    BY <2>1, ConcatFacts
  <2> QED
    BY <1>1, <2>2
<1>11. Range(s) = Range(ds) \cup Range(rest)
  BY <1>1, <1>6, <1>9, ConcatRange
<1>12. Distinct(s)
  BY <1>1, <1>6, <1>8, <1>9, ConcatDistinct
<1>13. Prefix(above, s)
  <2>1. Len(above) <= Len(s)
    BY <1>6, <1>10
  <2>2. ASSUME NEW i \in 1..Len(above) PROVE s[i] = above[i]
    <3>1. i \in 1..Len(ds)
      BY <1>6
    <3> QED
      BY <1>6, <1>10, <3>1
  <2> QED
    BY <2>1, <2>2 DEF Prefix
<1>14. SteadyIn(S) \subseteq Range(s)
  BY <1>3, <1>7, <1>11
<1>15. S \in Leaves => Range(s) = Dim
  <2>1. Range(ds) \subseteq Dim
    BY <1>2, <1>3, <1>7 DEF SteadyIn
  <2> QED
    BY <1>9, <1>11, <2>1
<1>16. S \notin Leaves => Range(s) = SteadyIn(S)
  BY <1>3, <1>7, <1>9, <1>11
<1>17. ASSUME NEW d \in SteadyIn(S) \ Range(above)
       PROVE  /\ Len(above) < Len(s) /\ s[Len(above) + 1] <= d
              /\ s[Len(above) + 1] \in SteadyIn(S) \ Range(above)
  <2>1. Len(own) > 0 /\ own[1] <= d
    BY <1>3, <1>4
  <2>2. 1 \in 1..Len(own) /\ Len(above) + 1 \in 1..Len(ds) /\ Len(above) < Len(s)
    BY <1>6, <1>10, <2>1
  <2>3. s[Len(above) + 1] = own[1] /\ own[1] \in new
    BY <1>4, <1>6, <1>10, <2>2
  <2> QED
    BY <1>3, <2>1, <2>2, <2>3
<1> QED
  BY <1>10, <1>12, <1>13, <1>14, <1>15, <1>16, <1>17 DEF s

StacksTo(f, k) ==
  \A n \in 0..k : \A S \in Levels[n] :
    f[S] = Digits(S, IF S \in Roots THEN <<>> ELSE f[Parent[S]])

\* The stacks are those that the recursion describes.
LEMMA StackIs ==
  ASSUME NEW S \in Tree
  PROVE  Stack[S] = Digits(S, IF S \in Roots THEN <<>> ELSE Stack[Parent[S]])
<1> DEFINE Is(f) == f = [R \in Tree |-> Digits(R, IF R \in Roots THEN <<>> ELSE f[Parent[R]])]
           K == {k \in 0..N : \E f : StacksTo(f, k)}
<1>1. N \in Nat /\ LevelsUpTo(Levels, N)
  BY DigitFacts, LevelsFacts
<1>2. 0 \in K
  <2>1. Levels[0] = Roots /\ 0..0 = {0}
    BY <1>1 DEF LevelsUpTo
  <2>2. StacksTo([R \in Roots |-> Digits(R, <<>>)], 0)
    BY <2>1 DEF StacksTo
  <2> QED
    BY <1>1, <2>2
<1>3. ASSUME NEW k \in 0..(N - 1), k \in K PROVE k + 1 \in K
  <2>1. PICK f : StacksTo(f, k)
    BY <1>3
  <2> DEFINE Old  == UNION {Levels[n] : n \in 0..k}
             Next1(R) == Digits(R, IF R \in Roots THEN <<>> ELSE f[Parent[R]])
             g == [R \in Tree |-> IF R \in Old THEN f[R] ELSE Next1(R)]
  <2>2. k + 1 \in 0..N /\ \A n \in 0..(k + 1) : n \in 0..N /\ (n # 0 => n - 1 \in 0..k)
    BY <1>1
  <2>3. \A n \in 0..(k + 1) : Levels[n] \subseteq Tree
    BY <2>2 DEF Tree, N
  <2>4. ASSUME NEW n \in 0..(k + 1), NEW R \in Levels[n], R \notin Roots
        PROVE  Parent[R] \in Old /\ Parent[R] \in Tree
    <3>1. R \in Tree /\ n \in 0..N
      BY <2>2, <2>3
    <3>2. n \in 1..N /\ Parent[R] \in Levels[n - 1] /\ Parent[R] \in Tree
      BY <2>4, <3>1, ParentFacts
    <3>3. n - 1 \in 0..k
      BY <2>2, <3>2
    <3> QED
      BY <3>2, <3>3
  <2>5. ASSUME NEW n \in 0..(k + 1), NEW R \in Levels[n] PROVE g[R] = Next1(R)
    <3>1. R \in Tree
      BY <2>3
    <3>2. CASE R \in Old
      <4>1. PICK j \in 0..k : R \in Levels[j]
        BY <3>2
      <4>2. f[R] = Next1(R)
        BY <2>1, <4>1 DEF StacksTo
      <4> QED
        BY <3>1, <3>2, <4>2
    <3>3. CASE R \notin Old
      BY <3>1, <3>3
    <3> QED
      BY <3>2, <3>3
  <2>6. ASSUME NEW n \in 0..(k + 1), NEW R \in Levels[n]
        PROVE  g[R] = Digits(R, IF R \in Roots THEN <<>> ELSE g[Parent[R]])
    <3>1. CASE R \in Roots
      BY <2>5, <3>1
    <3>2. CASE R \notin Roots
      <4>1. g[Parent[R]] = f[Parent[R]]
        BY <2>4, <3>2
      <4>2. g[R] = Next1(R)
        BY <2>5
      <4> HIDE DEF g
      <4> QED
        BY <3>2, <4>1, <4>2
    <3> QED
      BY <3>1, <3>2
  <2> HIDE DEF g
  <2>7. StacksTo(g, k + 1)
    BY <2>6 DEF StacksTo
  <2> QED
    BY <2>2, <2>7
<1> HIDE DEF K
<1>4. N \in K
  BY <1>1, <1>2, <1>3, InductionUpTo
<1>5. PICK f : StacksTo(f, N)
  BY <1>4 DEF K
<1> DEFINE g == [R \in Tree |-> f[R]]
<1>6. ASSUME NEW R \in Tree
      PROVE  g[R] = Digits(R, IF R \in Roots THEN <<>> ELSE g[Parent[R]])
  <2>1. PICK n \in 0..N : R \in Levels[n]
    BY NodeFacts
  <2>2. f[R] = Digits(R, IF R \in Roots THEN <<>> ELSE f[Parent[R]])
    BY <1>5, <2>1 DEF StacksTo
  <2>3. R \notin Roots => Parent[R] \in Tree
    BY ParentFacts
  <2>4. g[R] = f[R] /\ (R \notin Roots => g[Parent[R]] = f[Parent[R]])
    BY <2>3
  <2> HIDE DEF g
  <2> QED
    BY <2>2, <2>4
<1>7. DOMAIN g = Tree /\ g = [R \in DOMAIN g |-> g[R]]
  OBVIOUS
<1> HIDE DEF g
<1>8. Is(g)
  BY <1>6, <1>7, Zenon
<1>9. Is(Stack)
  BY <1>8 DEF Stack
<1> HIDE DEF Is
<1>10. Is(Stack) => Stack[S] = Digits(S, IF S \in Roots THEN <<>> ELSE Stack[Parent[S]])
  BY DEF Is
<1> QED
  BY <1>9, <1>10

StackGood(S) ==
  /\ Stack[S] \in Seq(Dim) /\ Distinct(Stack[S])
  /\ SteadyIn(S) \subseteq Range(Stack[S])
  /\ S \in Leaves => Range(Stack[S]) = Dim
  /\ S \notin Leaves => Range(Stack[S]) = SteadyIn(S)
  /\ S \notin Roots => /\ Prefix(Stack[Parent[S]], Stack[S])
                       /\ Len(Stack[Parent[S]]) < Len(Stack[S])
                       /\ Stack[S][Len(Stack[Parent[S]]) + 1] = FirstVariable(Parent[S])

\* The stack of a node: the digits in which it is steady, and at a leaf all.  It
\* begins with that of the parent, and goes on with the digit that tells the
\* node from its siblings.
LEMMA StackFacts ==
  ASSUME NEW S \in Tree
  PROVE  StackGood(S)
<1> DEFINE K == {k \in 0..N : \A R \in Levels[k] : StackGood(R)}
<1>1. N \in Nat /\ LevelsUpTo(Levels, N)
  BY DigitFacts, LevelsFacts
<1>2. 0 \in K
  <2>1. Levels[0] = Roots
    BY <1>1 DEF LevelsUpTo
  <2>2. ASSUME NEW R \in Roots PROVE StackGood(R)
    <3>1. <<>> \in Seq(Dim) /\ Len(<<>>) = 0 /\ Range(<<>>) = {}
      BY DEF Range
    <3>2. Distinct(<<>>)
      BY <3>1 DEF Distinct
    <3>3. Stack[R] = Digits(R, <<>>)
      BY StackIs, RootsOnTop
    <3> DEFINE above == <<>>
    <3> HIDE DEF above
    <3>4. above \in Seq(Dim) /\ Distinct(above) /\ Range(above) \subseteq SteadyIn(R)
      BY <3>1, <3>2 DEF above
    <3>5. /\ Digits(R, above) \in Seq(Dim) /\ Distinct(Digits(R, above))
          /\ SteadyIn(R) \subseteq Range(Digits(R, above))
          /\ R \in Leaves => Range(Digits(R, above)) = Dim
          /\ R \notin Leaves => Range(Digits(R, above)) = SteadyIn(R)
      BY <3>4, DigitsFacts
    <3> QED
      BY <2>2, <3>3, <3>5 DEF StackGood, above
  <2> QED
    BY <1>1, <2>1, <2>2
<1>3. ASSUME NEW k \in 0..(N - 1), k \in K PROVE k + 1 \in K
  <2>1. k + 1 \in 1..N /\ (k + 1) - 1 = k /\ k + 1 \in 0..N
    BY <1>1
  <2>2. ASSUME NEW R \in Levels[k + 1] PROVE StackGood(R)
    <3>1. R \in Tree
      BY <2>1, <2>2 DEF Tree, N
    <3>2. CASE R \in Roots
      <4>1. R \in Levels[0]
        BY <1>1, <3>2 DEF LevelsUpTo
      <4> QED
        BY <1>2, <4>1
    <3>3. CASE R \notin Roots
      <4> DEFINE P == Parent[R]
                 f == FirstVariable(P)
                 above == Stack[P]
      <4>1. P \in Tree /\ R \in Children(P) /\ P \notin Leaves /\ P \in Levels[k]
        BY <2>1, <3>1, <3>3, ParentFacts
      <4>2. StackGood(P)
        BY <1>3, <4>1
      <4> HIDE DEF P
      <4>3. above \in Seq(Dim) /\ Distinct(above) /\ Range(above) = SteadyIn(P)
        BY <4>1, <4>2 DEF StackGood
      <4>4. /\ R \subseteq P /\ f \in Dim /\ ~Steady(P, f) /\ \A e \in Dim : e < f => Steady(P, e)
            /\ Steady(R, f)
        BY <4>1, ChildFacts
      <4>5. Range(above) \subseteq SteadyIn(R)
        BY <4>3, <4>4 DEF SteadyIn, Steady
      <4> HIDE DEF f, above
      <4>6. Stack[R] = Digits(R, above)
        BY <3>1, <3>3, StackIs DEF P, above
      <4>7. f \in SteadyIn(R) \ Range(above)
        BY <4>3, <4>4 DEF SteadyIn
      <4> DEFINE s == Stack[R]
                 x == s[Len(above) + 1]
      <4>8. /\ s \in Seq(Dim) /\ Distinct(s) /\ Prefix(above, s)
            /\ SteadyIn(R) \subseteq Range(s)
            /\ R \in Leaves => Range(s) = Dim
            /\ R \notin Leaves => Range(s) = SteadyIn(R)
            /\ Len(above) < Len(s) /\ x <= f
            /\ x \in SteadyIn(R) \ Range(above)
        BY <4>3, <4>5, <4>6, <4>7, DigitsFacts
      <4>9. x = f
        <5>1. x \in Dim /\ x \notin SteadyIn(P) /\ Dim \subseteq Nat
          BY <4>3, <4>8, DigitFacts DEF SteadyIn
        <5>2. ~(x < f)
          BY <4>4, <5>1 DEF SteadyIn
        <5> HIDE DEF x
        <5> QED
          BY <4>4, <4>8, <5>1, <5>2
      <4> QED
        BY <3>3, <4>8, <4>9 DEF StackGood, P, above, f
    <3> QED
      BY <3>2, <3>3
  <2> QED
    BY <2>1, <2>2
<1> HIDE DEF K
<1>4. 0..N \subseteq K
  BY <1>1, <1>2, <1>3, InductionUpTo
<1>5. PICK n \in 0..N : S \in Levels[n]
  BY NodeFacts
<1> QED
  BY <1>4, <1>5 DEF K

\* The stack of a node begins with that of each node above it.
LEMMA StackAbove ==
  ASSUME NEW S \in Tree, NEW T \in Tree, S \subseteq T
  PROVE  Prefix(Stack[T], Stack[S])
<1> DEFINE Good(R) == R \subseteq T => Prefix(Stack[T], Stack[R])
           K == {k \in 0..N : \A R \in Levels[k] : Good(R)}
<1>1. N \in Nat /\ LevelsUpTo(Levels, N)
  BY DigitFacts, LevelsFacts
<1>2. ASSUME NEW R \in Tree PROVE Stack[R] \in Seq(Dim) /\ Len(Stack[R]) \in Nat /\ Prefix(Stack[R], Stack[R])
  <2>1. Stack[R] \in Seq(Dim)
    BY StackFacts DEF StackGood
  <2> QED
    BY <2>1 DEF Prefix
<1>3. ASSUME NEW k \in 0..N, NEW R \in Levels[k], R \subseteq T, R \in Roots \/ k - 1 \in K
      PROVE  Prefix(Stack[T], Stack[R])
  <2>1. R \in Tree
    BY DEF Tree, N
  <2>2. CASE R = T
    BY <1>2, <2>2
  <2>3. CASE R # T
    <3>1. Below(R, T)
      BY <1>3, <2>3 DEF Below
    <3>2. R \notin Roots
      BY <3>1, RootsOnTop
    <3> DEFINE P == Parent[R]
    <3>3. P \in Tree /\ P \subseteq T /\ P \in Levels[k - 1]
      BY <2>1, <3>1, <3>2, ParentFacts
    <3>4. Prefix(Stack[P], Stack[R])
      BY <2>1, <3>2, StackFacts DEF StackGood
    <3> HIDE DEF P
    <3>5. Prefix(Stack[T], Stack[P])
      BY <1>3, <3>2, <3>3
    <3> DEFINE s == Stack[R]
               p == Stack[P]
               t == Stack[T]
    <3>6. Len(s) \in Nat /\ Len(p) \in Nat /\ Len(t) \in Nat
      BY <1>2, <2>1, <3>3
    <3> HIDE DEF s, p, t
    <3>7. Prefix(p, s) /\ Prefix(t, p) => Prefix(t, s)
      BY <3>6 DEF Prefix
    <3> QED
      BY <3>4, <3>5, <3>7 DEF s, p, t
  <2> QED
    BY <2>2, <2>3
<1>4. 0 \in K
  BY <1>1, <1>3 DEF LevelsUpTo
<1>5. ASSUME NEW k \in 0..(N - 1), k \in K PROVE k + 1 \in K
  <2>1. k + 1 \in 0..N /\ (k + 1) - 1 = k
    BY <1>1
  <2>2. ASSUME NEW R \in Levels[k + 1] PROVE Good(R)
    BY <1>3, <1>5, <2>1
  <2> HIDE DEF Good
  <2> QED
    BY <2>1, <2>2
<1> HIDE DEF K
<1>6. 0..N \subseteq K
  BY <1>1, <1>4, <1>5, InductionUpTo
<1>7. PICK n \in 0..N : S \in Levels[n]
  BY NodeFacts
<1> QED
  BY <1>6, <1>7 DEF K

-----------------------------------------------------------------------------
(* The regions: what a node scans, and the part of the space that is its own. *)

Around(S, s) == {b \in Addr : \E a \in S : Same(a, b, Scope \cup Range(s))}
Area(S) == {b \in Addr : \E a \in S :
              /\ Same(a, b, Scope)
              /\ \A T \in Tree : Below(S, T) => b[FirstVariable(T)] = a[FirstVariable(T)]}
Room(S) == IF S \in Roots THEN 0 ELSE Len(Stack[Parent[S]])

\* The digits that tell a node from others come first on its stack.
LEMMA FirstOnStack ==
  ASSUME NEW S \in Tree, NEW T \in Tree, Below(S, T)
  PROVE  /\ S \notin Roots
         /\ \E i \in 1..(Room(S) + 1) : i <= Len(Stack[S]) /\ Stack[S][i] = FirstVariable(T)
<1>1. S \notin Roots
  BY RootsOnTop
<1>2. PICK C \in Children(T) : C \in Tree /\ S \subseteq C
  BY BelowChild
<1>3. Below(C, T)
  BY <1>2, ChildFacts DEF Below
<1>4. C \notin Roots
  BY <1>2, <1>3, RootsOnTop
<1>5. Parent[C] = T
  BY <1>2, <1>4, ParentFacts, OneParent
<1> DEFINE i == Len(Stack[T]) + 1
<1>6. Len(Stack[T]) < Len(Stack[C]) /\ Stack[C][i] = FirstVariable(T)
  BY <1>2, <1>4, <1>5, StackFacts DEF StackGood
<1>7. Prefix(Stack[C], Stack[S])
  BY <1>2, StackAbove
<1>8. Len(Stack[T]) \in Nat /\ Len(Stack[C]) \in Nat /\ Len(Stack[S]) \in Nat
  <2>1. Stack[T] \in Seq(Dim) /\ Stack[C] \in Seq(Dim) /\ Stack[S] \in Seq(Dim)
    BY <1>2, StackFacts DEF StackGood
  <2> QED
    BY <2>1
<1>9. Room(S) \in Nat /\ i <= Room(S) + 1
  <2>1. CASE S = C
    BY <1>1, <1>5, <1>8, <2>1 DEF Room
  <2>2. CASE S # C
    <3>1. Parent[S] \in Tree /\ Parent[S] \subseteq C
      BY <1>1, <1>2, <2>2, ParentFacts DEF Below
    <3>2. Prefix(Stack[C], Stack[Parent[S]]) /\ Stack[Parent[S]] \in Seq(Dim)
      BY <1>2, <3>1, StackAbove, StackFacts DEF StackGood
    <3>3. Len(Stack[C]) <= Len(Stack[Parent[S]]) /\ Len(Stack[Parent[S]]) \in Nat
      BY <3>2 DEF Prefix
    <3> QED
      BY <1>1, <1>6, <1>8, <3>3 DEF Room
  <2> QED
    BY <2>1, <2>2
<1>10. i \in 1..Len(Stack[C]) /\ i <= Len(Stack[S]) /\ i \in 1..(Room(S) + 1)
  BY <1>6, <1>7, <1>8, <1>9 DEF Prefix
<1>11. Stack[S][i] = FirstVariable(T)
  BY <1>6, <1>7, <1>10 DEF Prefix
<1> QED
  BY <1>1, <1>10, <1>11

\* What a node scans before it has widened over its siblings is its own.
LEMMA AroundInArea ==
  ASSUME NEW S \in Tree, NEW s \in Seq(Dim), Prefix(s, Stack[S]),
         S \in Roots \/ Len(s) > Room(S)
  PROVE  Around(S, s) \subseteq Area(S)
<1> SUFFICES ASSUME NEW b \in Addr, NEW a \in S, Same(a, b, Scope \cup Range(s))
             PROVE  b \in Area(S)
  BY DEF Around
<1>1. Same(a, b, Scope)
  BY DEF Same
<1>2. ASSUME NEW T \in Tree, Below(S, T) PROVE b[FirstVariable(T)] = a[FirstVariable(T)]
  <2>1. PICK i \in 1..(Room(S) + 1) : i <= Len(Stack[S]) /\ Stack[S][i] = FirstVariable(T)
    BY <1>2, FirstOnStack
  <2>2. S \notin Roots /\ Len(s) > Room(S)
    BY <1>2, FirstOnStack
  <2>3. Len(s) \in Nat /\ Room(S) \in Nat
    <3>1. Stack[Parent[S]] \in Seq(Dim)
      BY <2>2, ParentFacts, StackFacts DEF StackGood
    <3> QED
      BY <2>2, <3>1 DEF Room
  <2>4. i \in 1..Len(s)
    BY <2>1, <2>2, <2>3
  <2>5. s[i] = FirstVariable(T)
    BY <2>1, <2>4 DEF Prefix
  <2>6. FirstVariable(T) \in Range(s)
    BY <2>4, <2>5 DEF Range
  <2> QED
    BY <2>6 DEF Same
<1> QED
  BY <1>1, <1>2 DEF Area

\* Nodes that have no seed in common have nothing else in common.
LEMMA AreaApart ==
  ASSUME NEW S \in Tree, NEW T \in Tree, S \cap T = {}
  PROVE  Area(S) \cap Area(T) = {}
<1> SUFFICES ASSUME NEW b \in Area(S), b \in Area(T) PROVE FALSE
  OBVIOUS
<1>1. PICK a \in S : /\ Same(a, b, Scope)
                     /\ \A U \in Tree : Below(S, U) => b[FirstVariable(U)] = a[FirstVariable(U)]
  BY DEF Area
<1>2. PICK c \in T : /\ Same(c, b, Scope)
                     /\ \A U \in Tree : Below(T, U) => b[FirstVariable(U)] = c[FirstVariable(U)]
  BY DEF Area
<1>3. S # {} /\ T # {} /\ S \subseteq Seeds /\ T \subseteq Seeds
  BY NodeFacts
<1>4. PICK n \in 0..N : S \in Levels[n]
  BY NodeFacts
<1>5. N \in Nat /\ LevelsUpTo(Levels, N)
  BY DigitFacts, LevelsFacts
<1> DEFINE K == {k \in 0..n : \E U \in Levels[k] : S \subseteq U /\ T \subseteq U}
<1>6. 0 \in K
  <2>1. PICK G \in Roots : S \subseteq G
    BY NodeFacts
  <2>2. PICK H \in Roots : T \subseteq H
    BY NodeFacts
  <2>3. Same(a, c, Scope)
    BY <1>1, <1>2 DEF Same
  <2>4. c \in G
    BY <1>3, <2>1, <2>3, RootFacts
  <2>5. G = H
    BY <2>2, <2>4, RootFacts
  <2>6. G \in Levels[0] /\ 0 \in 0..n
    BY <1>5 DEF LevelsUpTo
  <2> QED
    BY <2>1, <2>2, <2>5, <2>6
<1>7. ASSUME NEW k \in 0..(n - 1), k \in K PROVE k + 1 \in K
  <2>1. PICK U \in Levels[k] : S \subseteq U /\ T \subseteq U
    BY <1>7
  <2>2. k \in 0..N /\ k + 1 \in 1..N /\ (k + 1) - 1 = k /\ k + 1 \in 0..n
    BY <1>5
  <2>3. U \in Tree
    BY <2>2 DEF Tree, N
  <2>4. Below(S, U) /\ Below(T, U)
    BY <1>3, <2>1 DEF Below
  <2>5. PICK C \in Children(U) : S \subseteq C
    BY <2>3, <2>4, BelowChild
  <2>6. PICK D \in Children(U) : T \subseteq D
    BY <2>3, <2>4, BelowChild
  <2>7. a[FirstVariable(U)] = c[FirstVariable(U)]
    BY <1>1, <1>2, <2>3, <2>4
  <2>8. c \in C
    BY <2>1, <2>5, <2>7, ChildFacts
  <2>9. C = D
    BY <2>5, <2>6, <2>8, ChildrenApart
  <2>10. C \in Levels[k + 1]
    <3>1. Levels[k + 1] = UNION {Children(V) : V \in Levels[k]}
      BY <1>5, <2>2 DEF LevelsUpTo
    <3> QED
      BY <3>1
  <2> QED
    BY <2>2, <2>5, <2>6, <2>9, <2>10
<1> HIDE DEF K
<1>8. n \in K
  BY <1>6, <1>7, InductionUpTo
<1>9. PICK U \in Levels[n] : S \subseteq U /\ T \subseteq U
  BY <1>8 DEF K
<1>10. S = U
  BY <1>3, <1>4, <1>9, LevelApart
<1> QED
  BY <1>3, <1>9, <1>10

\* A node's part of the space is in that of the nodes above it.
LEMMA AreaAbove ==
  ASSUME NEW S \in Tree, NEW T \in Tree, S \subseteq T
  PROVE  Area(S) \subseteq Area(T)
<1>1. \A U \in Tree : Below(T, U) => Below(S, U)
  BY DEF Below
<1> QED
  BY <1>1 DEF Area

\* A leaf scans its seeds at first.
LEMMA AroundLeaf ==
  ASSUME NEW S \in Tree, S \in Leaves
  PROVE  Around(S, Stack[S]) = S
<1>1. Range(Stack[S]) = Dim /\ Scope \cup Dim = Position /\ S \subseteq Addr
  BY StackFacts, NodeFacts, SixTreeAssumption DEF StackGood, Scope
<1>2. \A a, b \in Addr : Same(a, b, Position) <=> a = b
  <2>1. ASSUME NEW a \in Addr, NEW b \in Addr, Same(a, b, Position) PROVE a = b
    <3>1. DOMAIN a = Position /\ DOMAIN b = Position
      BY DEF Addr
    <3>2. a = [p \in Position |-> a[p]] /\ b = [p \in Position |-> b[p]]
      BY DEF Addr
    <3> QED
      BY <2>1, <3>2, Zenon DEF Same
  <2> QED
    BY <2>1 DEF Same
<1> QED
  BY <1>1, <1>2 DEF Around

\* Nodes below a node scan as much as it does, by its digits.
LEMMA AroundAbove ==
  ASSUME NEW S \in Tree, NEW T \in Tree, S \subseteq T, T \notin Leaves
  PROVE  Around(S, Stack[T]) = Around(T, Stack[T])
<1>1. Range(Stack[T]) = SteadyIn(T)
  BY StackFacts DEF StackGood
<1>2. \A a, b \in T : Same(a, b, Scope)
  BY NodeFacts, RootFacts
<1>3. \A a, b \in T : Same(a, b, Scope \cup SteadyIn(T))
  BY <1>2 DEF Same, SteadyIn, Steady
<1>4. \A a, b, c : Same(a, b, Scope \cup SteadyIn(T)) /\ Same(b, c, Scope \cup SteadyIn(T))
                     => Same(a, c, Scope \cup SteadyIn(T))
  BY DEF Same
<1>5. S # {}
  BY NodeFacts
<1> QED
  BY <1>1, <1>3, <1>4, <1>5 DEF Around

\* Fewer digits and more seeds: a larger region.
LEMMA AroundGrows ==
  ASSUME NEW S, NEW T, S \subseteq T, NEW s \in Seq(Dim), NEW t \in Seq(Dim), Prefix(t, s)
  PROVE  Around(S, s) \subseteq Around(T, t)
<1>1. Range(t) \subseteq Range(s)
  <2>1. \A i \in 1..Len(t) : i \in 1..Len(s) /\ s[i] = t[i]
    BY DEF Prefix
  <2>2. DOMAIN s = 1..Len(s) /\ DOMAIN t = 1..Len(t)
    OBVIOUS
  <2> QED
    BY <2>1, <2>2 DEF Range
<1> QED
  BY <1>1 DEF Around, Same

\* Without digits all of the space that its root's digits reach.
LEMMA AroundAll ==
  ASSUME NEW S \in Tree, NEW G \in Roots, S \subseteq G, NEW s \in G, NEW b \in Addr, Same(b, s, Scope)
  PROVE  b \in Around(S, <<>>)
<1>1. PICK a : a \in S
  BY NodeFacts
<1>2. Same(a, s, Scope)
  BY <1>1, RootFacts
<1>3. Same(a, b, Scope)
  BY <1>2 DEF Same
<1>4. Range(<<>>) = {}
  BY DEF Range
<1> QED
  BY <1>1, <1>3, <1>4 DEF Around

\* The first elements of a sequence.
LEMMA PrefixFacts ==
  ASSUME NEW T, NEW s \in Seq(T), NEW n \in 0..Len(s)
  PROVE  /\ SubSeq(s, 1, n) \in Seq(T) /\ Len(SubSeq(s, 1, n)) = n
         /\ \A i \in 1..n : SubSeq(s, 1, n)[i] = s[i]
<1>1. SubSeq(s, 1, n) \in Seq(T)
  OBVIOUS
<1>2. Len(SubSeq(s, 1, n)) = n
  OBVIOUS
<1>3. \A i \in 1..n : SubSeq(s, 1, n)[i] = s[i]
  OBVIOUS
<1> QED
  BY <1>1, <1>2, <1>3

\* The last elements of a sequence.
LEMMA SuffixFacts ==
  ASSUME NEW T, NEW s \in Seq(T), NEW m \in 1..(Len(s) + 1)
  PROVE  LET t == SubSeq(s, m, Len(s)) IN
         /\ t \in Seq(T) /\ Len(t) = Len(s) - m + 1
         /\ \A i \in 1..(Len(s) - m + 1) : t[i] = s[m + i - 1]
<1>1. SubSeq(s, m, Len(s)) \in Seq(T)
  OBVIOUS
<1>2. Len(SubSeq(s, m, Len(s))) = Len(s) - m + 1
  OBVIOUS
<1>3. \A i \in 1..(Len(s) - m + 1) : SubSeq(s, m, Len(s))[i] = s[m + i - 1]
  OBVIOUS
<1> QED
  BY <1>1, <1>2, <1>3

\* The last element of a sequence, and the others.
LEMMA FrontFacts ==
  ASSUME NEW T, NEW s \in Seq(T), s # <<>>
  PROVE  /\ Front(s) \in Seq(T) /\ Len(s) \in Nat /\ Len(Front(s)) \in Nat /\ Len(Front(s)) = Len(s) - 1
         /\ Last(s) = s[Len(s)] /\ Last(s) \in T /\ Len(s) \in 1..Len(s)
         /\ \A i \in 1..(Len(s) - 1) : Front(s)[i] = s[i]
         /\ Range(s) = Range(Front(s)) \cup {Last(s)}
<1>1. Len(s) \in Nat /\ Len(s) > 0
  OBVIOUS
<1>2. Front(s) = SubSeq(s, 1, Len(s) - 1) /\ Last(s) = s[Len(s)]
  BY DEF Front, Last
<1> DEFINE f == Front(s)
<1>3. f \in Seq(T) /\ Len(f) = Len(s) - 1 /\ \A i \in 1..(Len(s) - 1) : f[i] = s[i]
  <2>1. f = SubSeq(s, 1, Len(s) - 1) /\ Len(s) - 1 \in 0..Len(s)
    BY <1>1, <1>2
  <2> HIDE DEF f
  <2> QED
    BY <1>1, <2>1, PrefixFacts
<1> HIDE DEF f
<1>4. s[Len(s)] \in T /\ Len(s) \in 1..Len(s)
  BY <1>1
<1>5. DOMAIN s = 1..Len(s) /\ DOMAIN f = 1..(Len(s) - 1)
  BY <1>3
<1>6. \A i \in 1..Len(s) : i = Len(s) \/ i \in 1..(Len(s) - 1)
  BY <1>1
<1>7. Range(s) = Range(f) \cup {s[Len(s)]}
  <2>1. Range(s) \subseteq Range(f) \cup {s[Len(s)]}
    BY <1>3, <1>5, <1>6 DEF Range
  <2>2. Range(f) \subseteq Range(s)
    BY <1>1, <1>3, <1>5 DEF Range
  <2>3. s[Len(s)] \in Range(s)
    BY <1>4, <1>5 DEF Range
  <2> QED
    BY <2>1, <2>2, <2>3
<1> QED
  BY <1>1, <1>2, <1>3, <1>4, <1>7 DEF f

\* To widen a region by the last digit is to give that digit up.
LEMMA WidenedFacts ==
  ASSUME NEW S \in Tree, NEW s \in Seq(Dim), s # <<>>, Distinct(s)
  PROVE  Widened(Around(S, s), Last(s)) = Around(S, Front(s))
<1> DEFINE f == Front(s)
           d == Last(s)
<1>1. /\ f \in Seq(Dim) /\ Len(s) \in Nat /\ Len(f) = Len(s) - 1
      /\ d = s[Len(s)] /\ d \in Dim /\ Len(s) \in 1..Len(s)
      /\ \A i \in 1..(Len(s) - 1) : f[i] = s[i]
      /\ Range(s) = Range(f) \cup {d}
  BY FrontFacts
<1> HIDE DEF f, d
<1>2. d \notin Range(f) /\ Range(f) \subseteq Dim
  <2>1. DOMAIN f = 1..(Len(s) - 1) /\ \A i \in 1..(Len(s) - 1) : i \in 1..Len(s) /\ i # Len(s)
    BY <1>1
  <2>2. \A i \in 1..(Len(s) - 1) : f[i] # d
    BY <1>1, <2>1 DEF Distinct
  <2>3. \A i \in 1..(Len(s) - 1) : f[i] \in Dim
    BY <1>1
  <2> QED
    BY <2>1, <2>2, <2>3 DEF Range
<1> DEFINE F == Scope \cup Range(f)
<1>3. d \notin F /\ F \subseteq Position \ {d} /\ d \in Position /\ Scope \cup Range(s) = F \cup {d}
  BY <1>1, <1>2, SixTreeAssumption DEF Scope
<1> HIDE DEF F
<1>4. ASSUME NEW b \in Addr, NEW c \in Addr, NEW a \in S, Same(a, c, F \cup {d}), Same(c, b, Position \ {d})
      PROVE  Same(a, b, F)
  BY <1>3, <1>4 DEF Same
<1>5. ASSUME NEW b \in Addr, NEW a \in S, Same(a, b, F)
      PROVE  \E c \in Addr : Same(a, c, F \cup {d}) /\ Same(c, b, Position \ {d})
  <2> DEFINE c == [p \in Position |-> IF p = d THEN a[d] ELSE b[p]]
  <2>1. S \subseteq Addr
    BY NodeFacts, SixTreeAssumption
  <2>2. a \in Addr
    BY <2>1
  <2>3. c \in Addr
    BY <1>3, <2>2 DEF Addr
  <2>4. c[d] = a[d] /\ \A p \in Position \ {d} : c[p] = b[p]
    BY <1>3
  <2> HIDE DEF c
  <2>5. Same(a, c, F \cup {d}) /\ Same(c, b, Position \ {d})
    BY <1>3, <1>5, <2>4 DEF Same
  <2> QED
    BY <2>3, <2>5
<1>6. Around(S, s) = {b \in Addr : \E a \in S : Same(a, b, F \cup {d})}
  BY <1>3 DEF Around
<1>7. Around(S, f) = {b \in Addr : \E a \in S : Same(a, b, F)}
  BY DEF Around, F
<1>8. Widened(Around(S, s), d) = Around(S, f)
  BY <1>4, <1>5, <1>6, <1>7 DEF Widened
<1> QED
  BY <1>8 DEF f, d

\* Below each root there is a leaf.
LEMMA SomeLeaf ==
  ASSUME NEW G \in Roots
  PROVE  \E S \in Leaves : S \subseteq G
<1> SUFFICES ASSUME \A S \in Leaves : ~(S \subseteq G) PROVE FALSE
  OBVIOUS
<1> DEFINE Good(k) == \E S \in Levels[k] : S \subseteq G /\ Cardinality(SteadyIn(S)) >= k
           K == {k \in 0..N : Good(k)}
<1>1. N \in Nat /\ LevelsUpTo(Levels, N)
  BY DigitFacts, LevelsFacts
<1>2. ASSUME NEW S
      PROVE  IsFiniteSet(SteadyIn(S)) /\ Cardinality(SteadyIn(S)) \in Nat
  <2>1. IsFiniteSet(SteadyIn(S))
    BY DigitFacts DEF SteadyIn
  <2> QED
    BY <2>1, FS_CardinalityType
<1>3. 0 \in K
  <2>1. G \in Levels[0] /\ G \subseteq G /\ Cardinality(SteadyIn(G)) >= 0
    BY <1>1, <1>2 DEF LevelsUpTo
  <2> QED
    BY <1>1, <2>1
<1>4. ASSUME NEW k \in 0..N, NEW S \in Levels[k], S \subseteq G, Cardinality(SteadyIn(S)) >= k
      PROVE  \E C \in Children(S) : /\ C \subseteq G /\ Cardinality(SteadyIn(C)) >= k + 1
                                    /\ \E f \in Dim : f \notin SteadyIn(S)
  <2>1. S \in Tree /\ S \notin Leaves
    BY <1>4 DEF Tree, N
  <2>2. PICK C \in Children(S) : TRUE
    BY <2>1 DEF Leaves
  <2> DEFINE f == FirstVariable(S)
  <2>3. C \subseteq S /\ f \in Dim /\ ~Steady(S, f) /\ Steady(C, f)
    BY <2>2, ChildFacts
  <2> HIDE DEF f
  <2>4. SteadyIn(S) \cup {f} \subseteq SteadyIn(C) /\ f \notin SteadyIn(S)
    BY <2>3 DEF SteadyIn, Steady
  <2> DEFINE A == SteadyIn(S)
             B == A \cup {f}
  <2>5. IsFiniteSet(A) /\ Cardinality(A) \in Nat /\ Cardinality(A) >= k
    BY <1>2, <1>4
  <2>6. IsFiniteSet(SteadyIn(C)) /\ Cardinality(SteadyIn(C)) \in Nat
    BY <1>2
  <2> HIDE DEF A
  <2>7. f \notin A
    BY <2>4 DEF A
  <2>8. Cardinality(B) = Cardinality(A) + 1
    BY <2>5, <2>7, FS_AddElement
  <2>9. B \in SUBSET SteadyIn(C)
    BY <2>4 DEF A
  <2> HIDE DEF B
  <2>10. Cardinality(B) <= Cardinality(SteadyIn(C))
    BY <2>6, <2>9, FS_Subset
  <2>11. Cardinality(SteadyIn(C)) >= k + 1
    BY <2>5, <2>6, <2>8, <2>10
  <2> QED
    BY <1>4, <2>2, <2>3, <2>7, <2>11 DEF A
<1>5. ASSUME NEW k \in 0..(N - 1), k \in K PROVE k + 1 \in K
  <2>1. k + 1 \in 1..N /\ (k + 1) - 1 = k /\ k \in 0..N /\ k + 1 \in 0..N
    BY <1>1
  <2>2. PICK S \in Levels[k] : S \subseteq G /\ Cardinality(SteadyIn(S)) >= k
    BY <1>5
  <2>3. PICK C \in Children(S) : C \subseteq G /\ Cardinality(SteadyIn(C)) >= k + 1
    BY <1>4, <2>1, <2>2
  <2>4. Levels[k + 1] = UNION {Children(V) : V \in Levels[k]}
    BY <1>1, <2>1 DEF LevelsUpTo
  <2>5. C \in Levels[k + 1]
    BY <2>2, <2>4
  <2> QED
    BY <2>1, <2>3, <2>5
<1> HIDE DEF K
<1>6. N \in K
  BY <1>1, <1>3, <1>5, InductionUpTo
<1>7. PICK S \in Levels[N] : S \subseteq G /\ Cardinality(SteadyIn(S)) >= N
  BY <1>6 DEF K
<1>8. \E f \in Dim : f \notin SteadyIn(S)
  <2>1. N \in 0..N
    BY <1>1
  <2> QED
    BY <1>4, <1>7, <2>1
<1>9. SteadyIn(S) = Dim
  <2> DEFINE A == SteadyIn(S)
  <2>1. A \in SUBSET Dim /\ IsFiniteSet(Dim)
    BY DigitFacts DEF SteadyIn
  <2>2. Cardinality(A) >= Cardinality(Dim) /\ Cardinality(A) \in Nat /\ Cardinality(Dim) \in Nat
    BY <1>1, <1>2, <1>7 DEF N
  <2> HIDE DEF A
  <2>3. /\ Cardinality(A) <= Cardinality(Dim)
        /\ Cardinality(A) = Cardinality(Dim) => A = Dim
    BY <2>1, FS_Subset
  <2>4. Cardinality(A) = Cardinality(Dim)
    BY <2>2, <2>3
  <2> QED
    BY <2>3, <2>4 DEF A
<1> QED
  BY <1>8, <1>9

-----------------------------------------------------------------------------
(* The elements of the queues.                                                *)

\* Outside() leaves out the elements of a set.
LEMMA OutsideRange ==
  ASSUME NEW T, NEW s \in Seq(T), NEW S
  PROVE  Outside(s, S) \in Seq(T) /\ Range(Outside(s, S)) = Range(s) \ S
<1>1. ASSUME NEW t \in Seq(T), NEW a PROVE a \in Range(t) <=> Occurrences(t, a) # 0
  <2> DEFINE P == {i \in DOMAIN t : t[i] = a}
  <2>1. IsFiniteSet(P)
    BY OccurrencesType
  <2>2. Cardinality(P) = 0 <=> P = {}
    BY <2>1, FS_EmptySet
  <2>3. a \in Range(t) <=> P # {}
    BY DEF Range
  <2> QED
    BY <2>2, <2>3 DEF Occurrences
<1> DEFINE o == Outside(s, S)
<1>2. /\ o \in Seq(T \ S)
      /\ \A a : Occurrences(o, a) = IF a \in S THEN 0 ELSE Occurrences(s, a)
  <2>1. \A S1 : /\ Outside(s, S1) \in Seq(T \ S1)
                /\ Len(Outside(s, S1)) <= Len(s)
                /\ \A a : Occurrences(Outside(s, S1), a)
                            = IF a \in S1 THEN 0 ELSE Occurrences(s, a)
    BY OutsideFacts, Zenon
  <2> QED
    BY <2>1
<1> HIDE DEF o
<1>3. o \in Seq(T)
  <2>1. Len(o) \in Nat /\ o \in [1..Len(o) -> T \ S]
    BY <1>2
  <2>2. o \in [1..Len(o) -> T]
    BY <2>1
  <2> QED
    BY <2>1, <2>2
<1>4. \A a : a \in Range(o) <=> a \in Range(s) /\ a \notin S
  BY <1>1, <1>2, <1>3
<1> QED
  BY <1>3, <1>4 DEF o

\* A sequence is cut in two.
LEMMA SplitRange ==
  ASSUME NEW T, NEW s \in Seq(T), NEW n \in 0..Len(s)
  PROVE  /\ SubSeq(s, 1, n) \in Seq(T) /\ SubSeq(s, n + 1, Len(s)) \in Seq(T)
         /\ Range(s) = Range(SubSeq(s, 1, n)) \cup Range(SubSeq(s, n + 1, Len(s)))
<1> DEFINE f == SubSeq(s, 1, n)
           g == SubSeq(s, n + 1, Len(s))
<1>1. Len(s) \in Nat /\ n \in Nat /\ n + 1 \in 1..(Len(s) + 1) /\ Len(s) - (n + 1) + 1 = Len(s) - n
  OBVIOUS
<1>2. f \in Seq(T) /\ Len(f) = n /\ \A i \in 1..n : f[i] = s[i]
  BY PrefixFacts
<1>3. /\ g \in Seq(T) /\ Len(g) = Len(s) - n
      /\ \A i \in 1..(Len(s) - n) : g[i] = s[(n + 1) + i - 1]
  BY <1>1, SuffixFacts
<1> HIDE DEF f, g
<1>4. DOMAIN s = 1..Len(s) /\ DOMAIN f = 1..n /\ DOMAIN g = 1..(Len(s) - n)
  BY <1>1, <1>2, <1>3
<1>5. ASSUME NEW i \in 1..Len(s) PROVE s[i] \in Range(f) \cup Range(g)
  <2>1. CASE i <= n
    <3>1. i \in 1..n
      BY <1>1, <2>1
    <3> QED
      BY <1>2, <1>4, <3>1 DEF Range
  <2>2. CASE i > n
    <3>1. i - n \in 1..(Len(s) - n) /\ (n + 1) + (i - n) - 1 = i
      BY <1>1, <2>2
    <3>2. g[i - n] = s[i]
      BY <1>3, <3>1
    <3> QED
      BY <1>4, <3>1, <3>2 DEF Range
  <2> QED
    BY <1>1, <2>1, <2>2
<1>6. \A i \in 1..n : i \in 1..Len(s)
  BY <1>1
<1>7. \A i \in 1..(Len(s) - n) : (n + 1) + i - 1 \in 1..Len(s)
  BY <1>1
<1>8. Range(f) \subseteq Range(s)
  BY <1>2, <1>4, <1>6 DEF Range
<1>9. Range(g) \subseteq Range(s)
  BY <1>3, <1>4, <1>7 DEF Range
<1>10. Range(s) \subseteq Range(f) \cup Range(g)
  BY <1>4, <1>5 DEF Range
<1> QED
  BY <1>2, <1>3, <1>8, <1>9, <1>10 DEF f, g

\* The element that is taken out, and the others.
LEMMA RemoveRange ==
  ASSUME NEW T, NEW s \in Seq(T), NEW i \in 1..Len(s)
  PROVE  RemoveAt(s, i) \in Seq(T) /\ Range(s) = Range(RemoveAt(s, i)) \cup {s[i]}
<1> DEFINE f == SubSeq(s, 1, i - 1)
           g == SubSeq(s, i, Len(s))
           h == SubSeq(s, i + 1, Len(s))
<1>1. i - 1 \in 0..Len(s) /\ i \in 0..Len(s) /\ (i - 1) + 1 = i /\ Len(s) \in Nat
  OBVIOUS
<1>2. f \in Seq(T) /\ g \in Seq(T) /\ Range(s) = Range(f) \cup Range(g)
  BY <1>1, SplitRange
<1>3. h \in Seq(T)
  BY <1>1, SplitRange
<1>4. /\ Len(g) = Len(s) - i + 1
      /\ \A j \in 1..(Len(s) - i + 1) : g[j] = s[i + j - 1]
  BY <1>1, SuffixFacts
<1>5. /\ Len(h) = Len(s) - (i + 1) + 1
      /\ \A j \in 1..(Len(s) - (i + 1) + 1) : h[j] = s[(i + 1) + j - 1]
  <2>1. i + 1 \in 1..(Len(s) + 1)
    BY <1>1
  <2> QED
    BY <2>1, SuffixFacts
<1> HIDE DEF f, g, h
<1>6. Range(g) = Range(h) \cup {s[i]}
  <2>1. DOMAIN g = 1..(Len(s) - i + 1) /\ DOMAIN h = 1..(Len(s) - i)
    BY <1>1, <1>2, <1>3, <1>4, <1>5
  <2>2. \A j \in 1..(Len(s) - i + 1) : j = 1 \/ j - 1 \in 1..(Len(s) - i)
    BY <1>1
  <2>3. \A j \in 1..(Len(s) - i) : h[j] = s[i + j] /\ g[j + 1] = s[i + j] /\ j + 1 \in 1..(Len(s) - i + 1)
    <3> TAKE j \in 1..(Len(s) - i)
    <3>1. j \in 1..(Len(s) - (i + 1) + 1) /\ (i + 1) + j - 1 = i + j
      BY <1>1
    <3>2. j + 1 \in 1..(Len(s) - i + 1) /\ i + (j + 1) - 1 = i + j
      BY <1>1
    <3> QED
      BY <1>4, <1>5, <3>1, <3>2
  <2>4. 1 \in 1..(Len(s) - i + 1) /\ g[1] = s[i]
    <3>1. 1 \in 1..(Len(s) - i + 1) /\ i + 1 - 1 = i
      BY <1>1
    <3> QED
      BY <1>4, <3>1
  <2>5. ASSUME NEW j \in 1..(Len(s) - i + 1) PROVE g[j] \in Range(h) \cup {s[i]}
    <3>1. CASE j = 1
      BY <2>4, <3>1
    <3>2. CASE j # 1
      <4>1. j - 1 \in 1..(Len(s) - i) /\ (j - 1) + 1 = j
        BY <2>2, <3>2
      <4>2. h[j - 1] = g[j]
        BY <2>3, <4>1
      <4> QED
        BY <2>1, <4>1, <4>2 DEF Range
    <3> QED
      BY <3>1, <3>2
  <2>6. ASSUME NEW j \in 1..(Len(s) - i) PROVE h[j] \in Range(g)
    BY <2>1, <2>3 DEF Range
  <2>7. s[i] \in Range(g)
    BY <2>1, <2>4 DEF Range
  <2>8. Range(g) \subseteq Range(h) \cup {s[i]}
    BY <2>1, <2>5 DEF Range
  <2>9. Range(h) \subseteq Range(g)
    BY <2>1, <2>6 DEF Range
  <2> QED
    BY <2>7, <2>8, <2>9
<1>7. f \o h \in Seq(T) /\ Range(f \o h) = Range(f) \cup Range(h)
  BY <1>2, <1>3, ConcatRange
<1> QED
  BY <1>2, <1>6, <1>7 DEF RemoveAt, f, h

\* The element that is put in, and the others.
LEMMA InsertRange ==
  ASSUME NEW T, NEW s \in Seq(T), NEW i \in 1..(Len(s) + 1), NEW x \in T
  PROVE  InsertAt(s, i, x) \in Seq(T) /\ Range(InsertAt(s, i, x)) = Range(s) \cup {x}
<1> DEFINE f == SubSeq(s, 1, i - 1)
           g == SubSeq(s, i, Len(s))
<1>1. i - 1 \in 0..Len(s) /\ (i - 1) + 1 = i /\ Len(s) \in Nat
  OBVIOUS
<1>2. f \in Seq(T) /\ g \in Seq(T) /\ Range(s) = Range(f) \cup Range(g)
  BY <1>1, SplitRange
<1> HIDE DEF f, g
<1> DEFINE w == <<x>>
<1>3. w \in Seq(T) /\ Range(w) = {x}
  BY DEF Range
<1> HIDE DEF w
<1> DEFINE u == f \o w
<1>4. u \in Seq(T) /\ Range(u) = Range(f) \cup {x}
  <2>1. u \in Seq(T)
    BY <1>2, <1>3, ConcatFacts
  <2>2. Range(u) = Range(f) \cup Range(w)
    BY <1>2, <1>3, ConcatRange
  <2> QED
    BY <1>3, <2>1, <2>2
<1> HIDE DEF u
<1>5. u \o g \in Seq(T) /\ Range(u \o g) = Range(u) \cup Range(g)
  BY <1>2, <1>4, ConcatRange
<1> QED
  BY <1>2, <1>4, <1>5 DEF InsertAt, f, g, u, w

\* A merged queue has the elements of both.
LEMMA MergesRange ==
  ASSUME NEW T, NEW ns, NEW b \in Seq(T), NEW q \in Seq(T), NEW m \in Merges(ns, b, q)
  PROVE  m \in Seq(T) /\ Range(m) = Range(b) \cup Range(q)
<1> DEFINE c == b \o q
           n == Len(c)
<1>1. c \in Seq(T) /\ n \in Nat /\ DOMAIN c = 1..n /\ Range(c) = Range(b) \cup Range(q)
  <2>1. c \in Seq(T)
    BY ConcatFacts
  <2> QED
    BY <2>1, ConcatRange
<1> DEFINE places == DOMAIN c
           orders == {p \in [places -> places] :
                       /\ \A k, l \in places : k < l => Goes(ns, b, q, p[k], p[l])
                       /\ \A i \in places : \E k \in places : p[k] = i}
<1>2. Merges(ns, b, q) = {[k \in places |-> c[p[k]]] : p \in orders}
  BY DEF Merges
<1>3. PICK p \in orders : m = [k \in places |-> c[p[k]]]
  BY <1>2
<1>4. p \in [places -> places] /\ \A i \in places : \E k \in places : p[k] = i
  BY <1>3
<1> HIDE DEF orders, c, n
<1>5. p \in [1..n -> 1..n] /\ m = [k \in 1..n |-> c[p[k]]] /\ \A i \in 1..n : \E k \in 1..n : p[k] = i
  BY <1>1, <1>3, <1>4
<1>6. \A k \in 1..n : c[p[k]] \in T /\ c[p[k]] \in Range(c)
  BY <1>1, <1>5 DEF n, Range
<1>7. m \in [1..n -> T]
  BY <1>5, <1>6
<1>8. m \in Seq(T)
  BY <1>1, <1>7
<1>9. DOMAIN m = 1..n /\ \A k \in 1..n : m[k] = c[p[k]]
  BY <1>5
<1>10. Range(m) = Range(c)
  <2>1. Range(m) \subseteq Range(c)
    BY <1>6, <1>9 DEF Range
  <2>2. ASSUME NEW i \in 1..n PROVE c[i] \in Range(m)
    <3>1. PICK k \in 1..n : p[k] = i
      BY <1>5
    <3> QED
      BY <1>9, <3>1 DEF Range
  <2>3. Range(c) \subseteq Range(m)
    BY <1>1, <2>2 DEF Range
  <2> QED
    BY <2>1, <2>3
<1> QED
  BY <1>1, <1>8, <1>10

-----------------------------------------------------------------------------
(* Nodes.                                                                     *)

Outcome == {"Skipped", "Inactive", "Active"}
Outcomes == UNION {[D -> Outcome] : D \in SUBSET Addr}
Node == [stack : Seq(Dim), targets : SUBSET Addr, scanned : SUBSET Addr, partial : Outcomes,
         probed : SUBSET Addr, active : SUBSET Addr, lastExpanded : Nat, aliasChecked : BOOLEAN]

\* The outcomes a node remembers are of addresses.
LEMMA OutcomesFacts ==
  /\ NoOutcome \in Outcomes /\ DOMAIN NoOutcome = {}
  /\ \A f \in Outcomes : DOMAIN f \subseteq Addr
<1>1. NoOutcome \in [{} -> Outcome] /\ DOMAIN NoOutcome = {}
  BY DEF NoOutcome
<1>2. [{} -> Outcome] \in {[D -> Outcome] : D \in SUBSET Addr}
  OBVIOUS
<1>3. ASSUME NEW f \in Outcomes PROVE DOMAIN f \subseteq Addr
  <2>1. PICK D \in SUBSET Addr : f \in [D -> Outcome]
    BY DEF Outcomes
  <2> QED
    BY <2>1
<1> QED
  BY <1>1, <1>2, <1>3 DEF Outcomes

\* A new node has seen nothing.
LEMMA NewNodeFacts ==
  ASSUME NEW s \in Seq(Dim)
  PROVE  /\ NewNode(s) \in Node /\ NewNode(s).stack = s /\ Seen(NewNode(s)) = {}
<1> DEFINE n == NewNode(s)
<1>1. n = [stack |-> s, targets |-> {}, scanned |-> {}, partial |-> NoOutcome,
           probed |-> {}, active |-> {}, lastExpanded |-> 0, aliasChecked |-> FALSE]
  BY DEF NewNode
<1> HIDE DEF n
<1>2. NoOutcome \in Outcomes /\ DOMAIN NoOutcome = {}
  BY OutcomesFacts
<1>3. n \in Node
  BY <1>1, <1>2 DEF Node
<1>4. n.stack = s /\ n.scanned = {} /\ n.partial = NoOutcome
  BY <1>1
<1> QED
  BY <1>2, <1>3, <1>4 DEF Seen, n

\* Widening touches the stack and the region only.
LEMMA ExpandedFacts ==
  ASSUME NEW n \in Node
  PROVE  /\ Expanded(n) \in Node
         /\ Expanded(n).scanned = n.scanned /\ Expanded(n).partial = n.partial
         /\ n.stack = <<>> => Expanded(n) = n
         /\ n.stack # <<>> => /\ Expanded(n).stack = Front(n.stack)
                              /\ Expanded(n).targets = Widened(n.targets, Last(n.stack))
<1>1. CASE n.stack = <<>>
  BY <1>1 DEF Expanded
<1>2. CASE n.stack # <<>>
  <2> DEFINE f == Front(n.stack)
             d == Last(n.stack)
             W == Widened(n.targets, d)
             e == [n EXCEPT !.stack = f, !.targets = W, !.lastExpanded = d, !.aliasChecked = FALSE]
  <2>1. n.stack \in Seq(Dim)
    BY DEF Node
  <2>2. f \in Seq(Dim) /\ d \in Nat
    BY <1>2, <2>1, FrontFacts, DigitFacts
  <2>3. W \in SUBSET Addr
    BY DEF Widened
  <2>4. Expanded(n) = e
    BY <1>2 DEF Expanded
  <2> HIDE DEF f, d, W
  <2>5. e \in Node
    BY <2>2, <2>3 DEF Node
  <2>6. e.stack = f /\ e.targets = W /\ e.scanned = n.scanned /\ e.partial = n.partial
    BY DEF Node
  <2> QED
    BY <1>2, <2>4, <2>5, <2>6 DEF f, d, W
<1> QED
  BY <1>1, <1>2

\* A node that has finished its round has scanned what it had to.
LEMMA FinishedFacts ==
  ASSUME NEW n \in Node
  PROVE  /\ Finished(n) \in Node /\ Seen(Finished(n)) = n.targets
         /\ n.stack = <<>> => Finished(n).stack = n.stack /\ Finished(n).targets = n.targets
         /\ n.stack # <<>> => /\ Finished(n).stack = Front(n.stack)
                              /\ Finished(n).targets = Widened(n.targets, Last(n.stack))
<1> DEFINE P == n.probed \cup Probed(n)
           m == [n EXCEPT !.probed = P, !.scanned = n.targets, !.partial = NoOutcome]
<1>1. Finished(n) = Expanded(m)
  BY DEF Finished
<1>2. P \in SUBSET Addr
  <2>1. DOMAIN n.partial \subseteq Addr
    BY OutcomesFacts DEF Node
  <2> QED
    BY <2>1 DEF Probed, Frontier, Responses, Node
<1> HIDE DEF P
<1>3. NoOutcome \in Outcomes /\ DOMAIN NoOutcome = {}
  BY OutcomesFacts
<1>4. m \in Node
  BY <1>2, <1>3 DEF Node
<1>5. m.stack = n.stack /\ m.targets = n.targets /\ m.scanned = n.targets /\ m.partial = NoOutcome
  BY DEF Node
<1> HIDE DEF m
<1>6. /\ Expanded(m) \in Node
      /\ Expanded(m).scanned = m.scanned /\ Expanded(m).partial = m.partial
      /\ m.stack = <<>> => Expanded(m) = m
      /\ m.stack # <<>> => /\ Expanded(m).stack = Front(m.stack)
                           /\ Expanded(m).targets = Widened(m.targets, Last(m.stack))
  BY <1>4, ExpandedFacts
<1>7. Seen(Expanded(m)) = n.targets
  BY <1>3, <1>5, <1>6 DEF Seen
<1> QED
  BY <1>1, <1>5, <1>6, <1>7

\* A parent that takes the place of others has seen what they have.
LEMMA InheritedFacts ==
  ASSUME NEW n \in Node, NEW source \in Node, NEW gone \in SUBSET Node
  PROVE  /\ Inherited(n, source, gone) \in Node
         /\ Inherited(n, source, gone).stack = n.stack
         /\ Inherited(n, source, gone).targets = source.targets
         /\ Seen(Inherited(n, source, gone)) = UNION {Seen(g) : g \in gone}
<1> DEFINE S == UNION {g.scanned \cup DOMAIN g.partial : g \in gone}
           P == UNION {g.probed \cup Responses(g) : g \in gone}
           A == UNION {g.active : g \in gone}
           m == [n EXCEPT !.targets = source.targets, !.lastExpanded = source.lastExpanded,
                          !.aliasChecked = source.aliasChecked, !.scanned = S,
                          !.partial = NoOutcome, !.probed = P, !.active = A]
<1>1. Inherited(n, source, gone) = m
  BY DEF Inherited
<1>2. ASSUME NEW g \in gone PROVE g \in Node /\ DOMAIN g.partial \subseteq Addr /\ g.scanned \subseteq Addr
                                  /\ g.probed \subseteq Addr /\ g.active \subseteq Addr
  BY OutcomesFacts DEF Node
<1>3. S \in SUBSET Addr
  BY <1>2
<1>4. P \in SUBSET Addr
  BY <1>2 DEF Responses
<1>5. A \in SUBSET Addr
  BY <1>2
<1>6. S = UNION {Seen(g) : g \in gone}
  BY DEF Seen
<1> HIDE DEF S, P, A
<1>7. NoOutcome \in Outcomes /\ DOMAIN NoOutcome = {}
  BY OutcomesFacts
<1>8. m \in Node
  BY <1>3, <1>4, <1>5, <1>7 DEF Node
<1>9. m.stack = n.stack /\ m.targets = source.targets /\ m.scanned = S /\ m.partial = NoOutcome
  BY DEF Node
<1> HIDE DEF m
<1>10. Seen(m) = S
  BY <1>7, <1>9 DEF Seen
<1> QED
  BY <1>1, <1>6, <1>8, <1>9, <1>10

\* A retired node is a node.
LEMMA RetiredFacts ==
  ASSUME NEW n \in Node
  PROVE  Retired(n) \in Node
<1> DEFINE m == NewNode(n.stack)
<1>1. n.stack \in Seq(Dim) /\ n.lastExpanded \in Nat /\ n.aliasChecked \in BOOLEAN
  BY DEF Node
<1>2. m \in Node
  BY <1>1, NewNodeFacts
<1> HIDE DEF m
<1>3. [m EXCEPT !.lastExpanded = n.lastExpanded, !.aliasChecked = n.aliasChecked] \in Node
  BY <1>1, <1>2 DEF Node
<1> QED
  BY <1>3 DEF Retired, m

-----------------------------------------------------------------------------
(* Parents that take the place of nodes below them.                           *)

LiveIn(st) == Range(st.batch) \cup Range(st.queue)

\* Nodes that take part have no seed in common; those above them do not take
\* part yet; and each scans what the rest of its stack says.
Sound(ns, L) ==
  /\ ns \in [Tree -> Node] /\ L \subseteq Tree
  /\ \A S, T \in L : S = T \/ S \cap T = {}
  /\ \A S \in L, T \in Tree : Below(S, T) => ns[T] = NewNode(Stack[T])
  /\ \A S \in L : /\ Prefix(ns[S].stack, Stack[S])
                  /\ ns[S].targets = Around(S, ns[S].stack)
Structured(st) ==
  st.batch \in Seq(Tree) /\ st.queue \in Seq(Tree) /\ Sound(st.nodes, LiveIn(st))

\* What is below a node is on a deeper level.
LEMMA LevelOrder ==
  ASSUME NEW S \in Tree, NEW T \in Tree, Below(S, T),
         NEW n \in 0..N, S \in Levels[n], NEW m \in 0..N, T \in Levels[m]
  PROVE  m < n
<1>1. S \cap T # {} /\ T \cap S # {} /\ S \subseteq T /\ S # T /\ N \in Nat
  BY NodeFacts, DigitFacts DEF Below
<1>2. n # m
  BY <1>1, LevelApart
<1>3. ASSUME n < m PROVE FALSE
  <2>1. PICK C \in Children(S) : T \subseteq C
    BY <1>1, <1>3, LevelBelow
  <2>2. C \subseteq S /\ C # S
    BY <2>1, ChildFacts
  <2> QED
    BY <1>1, <2>1, <2>2
<1> QED
  BY <1>1, <1>2, <1>3

\* What takes part are nodes of the tree.
LEMMA LiveFacts ==
  ASSUME NEW st, Structured(st)
  PROVE  /\ LiveIn(st) \subseteq Tree
         /\ \A S \in Range(st.batch) : S \in LiveIn(st)
         /\ \A S \in Tree : st.nodes[S] \in Node /\ st.nodes[S].stack \in Seq(Dim)
<1>1. Range(st.batch) \subseteq Tree /\ Range(st.queue) \subseteq Tree
  BY DEF Structured, Sound, Range
<1>2. \A S \in Tree : st.nodes[S] \in Node
  BY DEF Structured, Sound
<1>3. \A S \in Tree : st.nodes[S].stack \in Seq(Dim)
  BY <1>2 DEF Node
<1> QED
  BY <1>1, <1>2, <1>3 DEF LiveIn

\* A node reaches its parent when its stack has shrunk to the parent's.
LEMMA Reaching ==
  ASSUME NEW st, Structured(st), NEW S \in LiveIn(st)
  PROVE  /\ ReachesParent(st, S) <=> S \notin Roots /\ Len(st.nodes[S].stack) = Room(S)
         /\ S \notin Roots => /\ Parent[S] \in Tree
                              /\ st.nodes[Parent[S]] = NewNode(Stack[Parent[S]])
                              /\ st.nodes[Parent[S]].stack = Stack[Parent[S]]
<1>1. S \in Tree /\ st.nodes[S].stack \in Seq(Dim)
  BY LiveFacts
<1>2. CASE S \in Roots
  BY <1>1, <1>2, HasParent DEF ReachesParent
<1>3. CASE S \notin Roots
  <2> DEFINE P == Parent[S]
             s == st.nodes[S].stack
  <2>1. P \in Tree /\ Below(S, P) /\ P # NoParent
    BY <1>1, <1>3, ParentFacts
  <2>2. Stack[P] \in Seq(Dim) /\ Stack[S] \in Seq(Dim)
    BY <1>1, <2>1, StackFacts DEF StackGood
  <2>3. Prefix(Stack[P], Stack[S])
    BY <1>1, <1>3, StackFacts DEF StackGood
  <2>4. st.nodes[P] = NewNode(Stack[P])
    BY <2>1 DEF Structured, Sound
  <2>5. st.nodes[P].stack = Stack[P]
    BY <2>2, <2>4, NewNodeFacts
  <2>6. Prefix(s, Stack[S])
    BY DEF Structured, Sound
  <2>7. Room(S) = Len(Stack[P])
    BY <1>3 DEF Room
  <2>8. ASSUME Len(s) = Len(Stack[P]) PROVE s = Stack[P]
    <3>1. \A i \in 1..Len(s) : s[i] = Stack[P][i]
      BY <2>3, <2>6, <2>8 DEF Prefix
    <3> QED
      BY <1>1, <2>2, <2>8, <3>1, SameSequence
  <2> QED
    BY <1>3, <2>1, <2>4, <2>5, <2>7, <2>8 DEF ReachesParent
<1> QED
  BY <1>2, <1>3

\* The parents that take the place are those that no other such parent is above.
LEMMA PromotionsFacts ==
  ASSUME NEW st, Structured(st)
  PROVE  /\ IsFiniteSet(Sources(st)) /\ Sources(st) \in SUBSET Nat /\ Sources(st) \subseteq DOMAIN st.batch
         /\ \A T \in Promotions(st) :
              /\ T \in Tree /\ Source(st, T) \in Range(st.batch)
              /\ ReachesParent(st, Source(st, T)) /\ Parent[Source(st, T)] = T
         /\ \A T, U \in Promotions(st) : ~Below(T, U)
         /\ \A S \in Range(st.batch) : ReachesParent(st, S) => \E T \in Promotions(st) : Parent[S] \subseteq T
<1> DEFINE reaches == {i \in DOMAIN st.batch : ReachesParent(st, st.batch[i])}
           up(i)   == Parent[st.batch[i]]
           I       == Sources(st)
<1>1. I = {i \in reaches : /\ \A j \in reaches : j < i => up(j) # up(i)
                           /\ \A j \in reaches : ~Below(up(i), up(j))}
  BY DEF Sources
<1>2. st.batch \in Seq(Tree) /\ DOMAIN st.batch = 1..Len(st.batch) /\ Len(st.batch) \in Nat
  BY DEF Structured, Sound
<1>3. ASSUME NEW i \in reaches
      PROVE  st.batch[i] \in Range(st.batch) /\ ReachesParent(st, st.batch[i]) /\ up(i) \in Tree
  <2>1. st.batch[i] \in Range(st.batch) /\ ReachesParent(st, st.batch[i])
    BY DEF Range
  <2>2. st.batch[i] \in LiveIn(st)
    BY <2>1 DEF LiveIn
  <2> QED
    BY <2>1, <2>2, Reaching
<1>4. \A S \in Range(st.batch) : ReachesParent(st, S) => \E i \in reaches : st.batch[i] = S
  BY DEF Range
<1>5. reaches \subseteq DOMAIN st.batch
  OBVIOUS
<1> HIDE DEF reaches, I
<1>6. I \subseteq reaches /\ \A i, j \in I : ~Below(up(i), up(j))
  BY <1>1
<1>7. I \in SUBSET (1..Len(st.batch)) /\ IsFiniteSet(1..Len(st.batch))
  BY <1>2, <1>5, <1>6, FS_Interval
<1>8. IsFiniteSet(I)
  BY <1>7, FS_Subset
<1>9. ASSUME NEW i \in reaches PROVE \E j \in I : up(i) \subseteq up(j)
  <2> DEFINE M == {n \in 0..N : \E j \in reaches : up(j) \in Levels[n] /\ up(i) \subseteq up(j)}
  <2>1. PICK n0 \in 0..N : up(i) \in Levels[n0]
    BY <1>3, NodeFacts
  <2>2. M \in SUBSET Nat /\ M # {}
    BY <2>1
  <2>3. PICK n \in M : \A k \in M : n <= k
    BY <2>2, LeastNat
  <2>4. PICK k \in reaches : up(k) \in Levels[n] /\ up(i) \subseteq up(k)
    BY <2>3
  <2> DEFINE J == {j \in reaches : up(j) = up(k)}
  <2>5. J \in SUBSET Nat /\ J # {}
    BY <1>2, <1>5, <2>4
  <2>6. PICK j \in J : \A l \in J : j <= l
    BY <2>5, LeastNat
  <2>7. ASSUME NEW l \in reaches, l < j PROVE up(l) # up(j)
    <3>1. l \in Nat /\ j \in Nat
      BY <2>5, <1>2, <1>5
    <3> QED
      BY <2>6, <2>7, <3>1
  <2>8. ASSUME NEW l \in reaches, Below(up(j), up(l)) PROVE FALSE
    <3>1. up(i) \subseteq up(l) /\ up(j) = up(k)
      BY <2>4, <2>8 DEF Below
    <3>2. PICK m \in 0..N : up(l) \in Levels[m]
      BY <1>3, NodeFacts
    <3>3. m \in M
      BY <3>1, <3>2
    <3>4. up(j) \in Tree /\ up(l) \in Tree /\ up(j) \in Levels[n] /\ n \in 0..N
      BY <1>3, <2>3, <2>4, <3>1
    <3>5. m < n
      BY <2>8, <3>2, <3>4, LevelOrder
    <3>6. n <= m /\ n \in Nat /\ m \in Nat
      BY <2>3, <3>3
    <3> QED
      BY <3>5, <3>6
  <2>9. j \in I
    BY <1>1, <2>7, <2>8
  <2> QED
    BY <2>4, <2>9
<1>10. Promotions(st) = {up(i) : i \in I}
  BY DEF Promotions, I
<1>11. ASSUME NEW T \in Promotions(st)
       PROVE  /\ T \in Tree /\ Source(st, T) \in Range(st.batch)
              /\ ReachesParent(st, Source(st, T)) /\ Parent[Source(st, T)] = T
  <2> DEFINE c == CHOOSE i \in I : up(i) = T
  <2>1. \E i \in I : up(i) = T
    BY <1>10
  <2>2. c \in I /\ up(c) = T
    BY <2>1
  <2>3. Source(st, T) = st.batch[c]
    BY DEF Source, I
  <2> HIDE DEF c
  <2> QED
    BY <1>3, <1>6, <2>2, <2>3
<1>12. \A T, U \in Promotions(st) : ~Below(T, U)
  BY <1>6, <1>10
<1>13. ASSUME NEW S \in Range(st.batch), ReachesParent(st, S)
       PROVE  \E T \in Promotions(st) : Parent[S] \subseteq T
  <2>1. PICK i \in reaches : st.batch[i] = S
    BY <1>4, <1>13
  <2>2. PICK j \in I : up(i) \subseteq up(j)
    BY <1>9
  <2>3. up(j) \in Promotions(st)
    BY <1>10
  <2> QED
    BY <2>1, <2>2, <2>3
<1>14. I \in SUBSET Nat /\ I \subseteq DOMAIN st.batch
  BY <1>2, <1>7
<1> QED
  BY <1>8, <1>11, <1>12, <1>13, <1>14 DEF I

Gone(st) == UNION {Lower(st, T) : T \in Promotions(st)}

\* What replace_descendants() makes of the queues, and of each node.
LEMMA ReplacedParts ==
  ASSUME NEW st, Structured(st)
  PROVE  LET r == Replaced(st) IN
         /\ r.batch \in Seq(Tree) /\ Range(r.batch) = (Range(st.batch) \ Gone(st)) \cup Promotions(st)
         /\ r.queue \in Seq(Tree) /\ Range(r.queue) = Range(st.queue) \ Gone(st)
         /\ r.nodes = [R \in Tree |->
                        IF R \in Promotions(st)
                          THEN Inherited(st.nodes[R], st.nodes[Source(st, R)],
                                         {st.nodes[Q] : Q \in Lower(st, R)})
                        ELSE IF R \in Gone(st) THEN Retired(st.nodes[R]) ELSE st.nodes[R]]
<1> DEFINE I     == Sources(st)
           order == Ascending(I)
           up    == [k \in DOMAIN order |-> Parent[st.batch[order[k]]]]
           ns    == [R \in Tree |->
                      IF R \in Promotions(st)
                        THEN Inherited(st.nodes[R], st.nodes[Source(st, R)],
                                       {st.nodes[Q] : Q \in Lower(st, R)})
                      ELSE IF R \in Gone(st) THEN Retired(st.nodes[R]) ELSE st.nodes[R]]
           b     == Outside(st.batch, Gone(st)) \o up
           q     == Outside(st.queue, Gone(st))
<1>1. Replaced(st) = [nodes |-> ns, batch |-> b, queue |-> q]
  BY DEF Replaced, Gone
<1>2. Replaced(st).nodes = ns /\ Replaced(st).batch = b /\ Replaced(st).queue = q
  BY <1>1
<1>3. st.batch \in Seq(Tree) /\ st.queue \in Seq(Tree)
  BY DEF Structured, Sound
<1>4. q \in Seq(Tree) /\ Range(q) = Range(st.queue) \ Gone(st)
  BY <1>3, OutsideRange
<1> DEFINE o == Outside(st.batch, Gone(st))
<1>5. o \in Seq(Tree) /\ Range(o) = Range(st.batch) \ Gone(st)
  BY <1>3, OutsideRange
<1>6. up \in Seq(Tree) /\ Range(up) = Promotions(st)
  <2>1. I \in SUBSET Nat /\ IsFiniteSet(I)
    BY PromotionsFacts
  <2>2. order \in Seq(I) /\ Range(order) = I
    BY <2>1, AscendingFacts
  <2>3. Promotions(st) = {Parent[st.batch[i]] : i \in I} /\ Promotions(st) \subseteq Tree
    BY PromotionsFacts DEF Promotions
  <2> HIDE DEF order, I
  <2>4. DOMAIN order = 1..Len(order) /\ Len(order) \in Nat /\ \A k \in 1..Len(order) : order[k] \in I
    BY <2>2
  <2>5. \A i \in I : \E k \in 1..Len(order) : order[k] = i
    BY <2>2, <2>4 DEF Range
  <2>6. DOMAIN up = 1..Len(order) /\ \A k \in 1..Len(order) : up[k] = Parent[st.batch[order[k]]]
    BY <2>4
  <2>7. up = [k \in 1..Len(order) |-> up[k]]
    BY <2>4
  <2> HIDE DEF up
  <2>8. \A k \in 1..Len(order) : up[k] \in Promotions(st) /\ up[k] \in Tree
    BY <2>3, <2>4, <2>6
  <2>9. up \in [1..Len(order) -> Tree]
    BY <2>7, <2>8
  <2>10. up \in Seq(Tree)
    BY <2>4, <2>9
  <2>11. Range(up) \subseteq Promotions(st)
    BY <2>6, <2>8 DEF Range
  <2>12. Promotions(st) \subseteq Range(up)
    BY <2>3, <2>5, <2>6 DEF Range
  <2> QED
    BY <2>10, <2>11, <2>12
<1> HIDE DEF up, o
<1>7. o \o up \in Seq(Tree) /\ Range(o \o up) = Range(o) \cup Range(up)
  BY <1>5, <1>6, ConcatRange, ConcatFacts
<1>8. b = o \o up
  BY DEF o
<1> HIDE DEF b, q, ns
<1>9. b \in Seq(Tree) /\ Range(b) = (Range(st.batch) \ Gone(st)) \cup Promotions(st)
  BY <1>5, <1>6, <1>7, <1>8
<1>10. Replaced(st).nodes = [R \in Tree |->
                      IF R \in Promotions(st)
                        THEN Inherited(st.nodes[R], st.nodes[Source(st, R)],
                                       {st.nodes[Q] : Q \in Lower(st, R)})
                      ELSE IF R \in Gone(st) THEN Retired(st.nodes[R]) ELSE st.nodes[R]]
  BY <1>2 DEF ns
<1> QED
  BY <1>2, <1>4, <1>9, <1>10

\* Which nodes take part afterwards, and what they have scanned.
LEMMA ReplacedFacts ==
  ASSUME NEW st, Structured(st)
  PROVE  LET r == Replaced(st) IN
         /\ Structured(r)
         /\ LiveIn(r) = (LiveIn(st) \ Gone(st)) \cup Promotions(st)
         /\ Range(r.batch) = (Range(st.batch) \ Gone(st)) \cup Promotions(st)
         /\ \A R \in Tree : R \notin Promotions(st) /\ R \notin Gone(st) => r.nodes[R] = st.nodes[R]
         /\ \A R \in LiveIn(st) \ Gone(st) : R \notin Promotions(st)
         /\ \A R \in Promotions(st) :
              /\ r.nodes[R].stack = Stack[R]
              /\ Seen(r.nodes[R]) = UNION {Seen(st.nodes[Q]) : Q \in Lower(st, R)}
              /\ st.nodes[R] = NewNode(Stack[R])
              /\ \E S \in LiveIn(st) : Below(S, R)
         /\ \A Q \in Gone(st) : Q \in LiveIn(st) /\ \E T \in Promotions(st) : Q \in Lower(st, T) /\ Below(Q, T)
<1> DEFINE P == Promotions(st)
           G == Gone(st)
           L == LiveIn(st)
           r == Replaced(st)
<1>1. /\ r.batch \in Seq(Tree) /\ Range(r.batch) = (Range(st.batch) \ G) \cup P
      /\ r.queue \in Seq(Tree) /\ Range(r.queue) = Range(st.queue) \ G
      /\ r.nodes = [R \in Tree |->
                     IF R \in P
                       THEN Inherited(st.nodes[R], st.nodes[Source(st, R)],
                                      {st.nodes[Q] : Q \in Lower(st, R)})
                     ELSE IF R \in G THEN Retired(st.nodes[R]) ELSE st.nodes[R]]
  BY ReplacedParts
<1> HIDE DEF r
<1>2. LiveIn(r) = (L \ G) \cup P
  BY <1>1 DEF LiveIn
<1>3. L \subseteq Tree /\ \A S \in Tree : st.nodes[S] \in Node
  BY LiveFacts
<1>4. /\ \A Q \in G : Q \in L /\ \E T \in P : Q \in Lower(st, T) /\ Below(Q, T)
      /\ \A T \in P, Q \in L : Below(Q, T) => Q \in G /\ Q \in Lower(st, T)
      /\ \A T \in P : Lower(st, T) \subseteq L
  BY DEF Gone, Lower, LiveIn
<1>5. ASSUME NEW T \in P
      PROVE  /\ T \in Tree /\ T \notin Leaves
             /\ \E S \in L : /\ S = Source(st, T) /\ Below(S, T) /\ S \in G /\ S \notin Roots /\ Parent[S] = T
                             /\ st.nodes[S].stack = Stack[T]
             /\ st.nodes[T] = NewNode(Stack[T])
  <2> DEFINE S == Source(st, T)
  <2>1. T \in Tree /\ S \in Range(st.batch) /\ ReachesParent(st, S) /\ Parent[S] = T
    BY PromotionsFacts
  <2> HIDE DEF S
  <2>2. S \in L /\ S \in Tree
    BY <1>3, <2>1, LiveFacts
  <2>3. S \notin Roots
    BY <2>1, <2>2, Reaching
  <2>4. Below(S, T) /\ T \notin Leaves
    BY <2>1, <2>2, <2>3, ParentFacts
  <2>5. st.nodes[S].stack = Stack[T] /\ st.nodes[T] = NewNode(Stack[T])
    BY <2>1, <2>2, <2>3, Reaching DEF ReachesParent
  <2>6. S \in G
    BY <1>4, <2>2, <2>4
  <2> QED
    BY <2>1, <2>2, <2>3, <2>4, <2>5, <2>6 DEF S
<1>6. \A S, T \in L : S = T \/ S \cap T = {}
  BY DEF Structured, Sound
<1>7. \A T \in L : T \notin P
  <2> SUFFICES ASSUME NEW T \in L, T \in P PROVE FALSE
    OBVIOUS
  <2>1. PICK S \in L : Below(S, T)
    BY <1>5
  <2>2. S # {}
    BY <1>3, NodeFacts
  <2> QED
    BY <1>6, <2>1, <2>2 DEF Below
<1>8. ASSUME NEW R \in Tree, R \notin P, R \notin G PROVE r.nodes[R] = st.nodes[R]
  BY <1>1, <1>8
<1>9. ASSUME NEW R \in P
      PROVE  /\ r.nodes[R] \in Node
             /\ r.nodes[R].stack = Stack[R]
             /\ r.nodes[R].targets = Around(R, Stack[R])
             /\ Seen(r.nodes[R]) = UNION {Seen(st.nodes[Q]) : Q \in Lower(st, R)}
  <2> DEFINE n == st.nodes[R]
             S == Source(st, R)
             source == st.nodes[S]
             gone == {st.nodes[Q] : Q \in Lower(st, R)}
             m == Inherited(n, source, gone)
  <2>1. R \in Tree /\ R \notin Leaves /\ S \in L /\ Below(S, R) /\ source.stack = Stack[R] /\ n = NewNode(Stack[R])
    BY <1>5
  <2>2. r.nodes[R] = m
    BY <1>1, <2>1
  <2>3. n \in Node /\ source \in Node /\ gone \in SUBSET Node
    BY <1>3, <1>4, <2>1
  <2>4. Stack[R] \in Seq(Dim)
    BY <2>1, StackFacts DEF StackGood
  <2>5. n.stack = Stack[R]
    BY <2>1, <2>4, NewNodeFacts
  <2>6. source.targets = Around(S, source.stack)
    BY <2>1 DEF Structured, Sound
  <2>7. S \in Tree /\ S \subseteq R
    BY <1>3, <2>1 DEF Below
  <2>8. source.targets = Around(R, Stack[R])
    BY <2>1, <2>6, <2>7, AroundAbove
  <2>9. UNION {Seen(g) : g \in gone} = UNION {Seen(st.nodes[Q]) : Q \in Lower(st, R)}
    OBVIOUS
  <2> HIDE DEF n, source, gone
  <2>10. /\ m \in Node /\ m.stack = n.stack /\ m.targets = source.targets
         /\ Seen(m) = UNION {Seen(g) : g \in gone}
    BY <2>3, InheritedFacts
  <2> QED
    BY <2>2, <2>5, <2>8, <2>9, <2>10
<1>10. \A R \in L \ G : r.nodes[R] = st.nodes[R]
  BY <1>3, <1>7, <1>8
<1>11. r.nodes \in [Tree -> Node]
  <2> SUFFICES ASSUME NEW R \in Tree PROVE r.nodes[R] \in Node
    BY <1>1
  <2>1. CASE R \in P
    BY <1>9, <2>1
  <2>2. CASE R \notin P /\ R \in G
    <3>1. r.nodes[R] = Retired(st.nodes[R])
      BY <1>1, <2>2
    <3> QED
      BY <1>3, <3>1, RetiredFacts
  <2>3. CASE R \notin P /\ R \notin G
    BY <1>3, <1>8, <2>3
  <2> QED
    BY <2>1, <2>2, <2>3
<1>12. ASSUME NEW R \in (L \ G) \cup P, NEW T \in Tree, Below(R, T)
       PROVE  T \notin P /\ T \notin G /\ st.nodes[T] = NewNode(Stack[T])
  <2>1. PICK S \in L : S \subseteq R /\ (S = R \/ R \in P)
    BY <1>5 DEF Below
  <2>2. Below(S, T) /\ S # {}
    BY <1>3, <1>12, <2>1, NodeFacts DEF Below
  <2>3. st.nodes[T] = NewNode(Stack[T])
    BY <2>2 DEF Structured, Sound
  <2>4. T \notin G
    BY <1>4, <1>6, <2>2 DEF Below
  <2>5. ASSUME T \in P PROVE FALSE
    <3>1. CASE R \in P
      BY <1>12, <2>5, <3>1, PromotionsFacts
    <3>2. CASE R \in L \ G
      BY <1>4, <1>12, <2>5, <3>2
    <3> QED
      BY <3>1, <3>2
  <2> QED
    BY <2>3, <2>4, <2>5
<1>13. ASSUME NEW R \in (L \ G) \cup P, NEW T \in P, R # T PROVE R \cap T = {}
  <2> SUFFICES ASSUME R \cap T # {} PROVE FALSE
    OBVIOUS
  <2>1. R \in Tree /\ T \in Tree
    BY <1>3, <1>5
  <2>2. CASE R \subseteq T
    <3>1. Below(R, T)
      BY <1>13, <2>2 DEF Below
    <3> QED
      BY <1>12, <2>1, <3>1
  <2>3. CASE T \subseteq R
    <3>1. Below(T, R)
      BY <1>13, <2>3 DEF Below
    <3>2. R \notin P
      BY <3>1, PromotionsFacts
    <3>3. PICK S \in L : Below(S, T)
      BY <1>5
    <3>4. S # {} /\ S \subseteq R /\ R \in L /\ S # R
      BY <1>3, <2>3, <3>2, <3>3, <1>13, NodeFacts DEF Below
    <3> QED
      BY <1>6, <3>4
  <2> QED
    BY <2>1, <2>2, <2>3, Laminar
<1>14. Structured(r)
  <2>1. \A S, T \in LiveIn(r) : S = T \/ S \cap T = {}
    BY <1>2, <1>6, <1>13
  <2>2. \A S \in LiveIn(r), T \in Tree : Below(S, T) => r.nodes[T] = NewNode(Stack[T])
    BY <1>2, <1>8, <1>12
  <2>3. ASSUME NEW R \in LiveIn(r)
        PROVE  Prefix(r.nodes[R].stack, Stack[R]) /\ r.nodes[R].targets = Around(R, r.nodes[R].stack)
    <3>1. CASE R \in P
      <4>1. Stack[R] \in Seq(Dim)
        BY <1>5, <3>1, StackFacts DEF StackGood
      <4>2. Prefix(Stack[R], Stack[R])
        BY <4>1 DEF Prefix
      <4> QED
        BY <1>9, <3>1, <4>2
    <3>2. CASE R \in L \ G
      BY <1>10, <3>2 DEF Structured, Sound
    <3> QED
      BY <1>2, <3>1, <3>2
  <2>4. LiveIn(r) \subseteq Tree
    BY <1>2, <1>3, <1>5
  <2> QED
    BY <1>1, <1>11, <2>1, <2>2, <2>3, <2>4 DEF Structured, Sound
<1>15. \A R \in P : /\ r.nodes[R].stack = Stack[R]
                    /\ Seen(r.nodes[R]) = UNION {Seen(st.nodes[Q]) : Q \in Lower(st, R)}
                    /\ st.nodes[R] = NewNode(Stack[R])
                    /\ \E S \in L : Below(S, R)
  BY <1>5, <1>9
<1> QED
  BY <1>1, <1>2, <1>4, <1>7, <1>8, <1>14, <1>15 DEF r

-----------------------------------------------------------------------------
(* What the nodes that take part have seen, and whom they stand for.          *)

\* They have seen nothing but what has been judged, or is an alias.
Known(ns, L, done) == \A S \in L : Seen(ns[S]) \subseteq done

\* Below each root there is one, unless all of the root's space is done.
Covers(L, done) ==
  \A G \in Roots : \/ \E S \in L : S \subseteq G
                   \/ \A s \in G, b \in Addr : Same(b, s, Scope) => b \in done

\* Each has widened to its siblings' part of the space at most, and has seen
\* only what is its own.
Owned(ns, L) ==
  \A S \in L : /\ Room(S) <= Len(ns[S].stack)
               /\ Seen(ns[S]) \subseteq ns[S].targets /\ Seen(ns[S]) \subseteq Area(S)

\* Those that are scanned have not widened over their siblings.
Narrow(ns, B) == \A S \in B : S \in Roots \/ Len(ns[S].stack) > Room(S)

\* A node that is dropped from the queue.
Idle(n, al) == n.stack = <<>> /\ n.targets \subseteq Seen(n) \cup al

\* Some node has seen the address: one that takes part or that was dropped.
Recalls(ns, L, al, a) == \E S \in Tree : a \in Seen(ns[S]) /\ (S \in L \/ Idle(ns[S], al))

\* A stack is longer than the parent's.
LEMMA RoomFacts ==
  ASSUME NEW S \in Tree
  PROVE  Room(S) \in Nat /\ (S \notin Roots => Room(S) < Len(Stack[S])) /\ Len(Stack[S]) \in Nat
<1>1. Stack[S] \in Seq(Dim)
  BY StackFacts DEF StackGood
<1>2. ASSUME S \notin Roots PROVE Room(S) \in Nat /\ Room(S) < Len(Stack[S])
  <2>1. Stack[Parent[S]] \in Seq(Dim)
    BY <1>2, ParentFacts, StackFacts DEF StackGood
  <2>2. Len(Stack[Parent[S]]) < Len(Stack[S])
    BY <1>2, StackFacts DEF StackGood
  <2> QED
    BY <1>2, <2>1, <2>2 DEF Room
<1> QED
  BY <1>1, <1>2 DEF Room

\* What schedule_next_batch() drops has nothing left to widen and nothing to ask for.
LEMMA AliveIdle ==
  ASSUME NEW n
  PROVE  ~Alive(n) <=> Idle(n, aliases)
BY DEF Alive, Idle, HasFrontier, Frontier, Seen

\* The parents stand for what they replace, and have seen what that has seen.
LEMMA ReplacedKnown ==
  ASSUME NEW st, Structured(st), NEW done
  PROVE  LET r == Replaced(st) IN
         /\ Known(st.nodes, LiveIn(st), done) => Known(r.nodes, LiveIn(r), done)
         /\ Covers(LiveIn(st), done) => Covers(LiveIn(r), done)
         /\ Range(r.batch) = {} => Range(st.batch) = {} /\ Range(r.queue) = Range(st.queue)
<1> DEFINE P == Promotions(st)
           G == Gone(st)
           L == LiveIn(st)
           r == Replaced(st)
<1>1. /\ LiveIn(r) = (L \ G) \cup P
      /\ Range(r.batch) = (Range(st.batch) \ G) \cup P
      /\ \A R \in Tree : R \notin P /\ R \notin G => r.nodes[R] = st.nodes[R]
      /\ \A R \in L \ G : R \notin P
      /\ \A R \in P : Seen(r.nodes[R]) = UNION {Seen(st.nodes[Q]) : Q \in Lower(st, R)}
      /\ \A Q \in G : Q \in L /\ \E T \in P : Q \in Lower(st, T) /\ Below(Q, T)
  BY ReplacedFacts
<1>2. L \subseteq Tree /\ P \subseteq Tree /\ \A T \in P : Lower(st, T) \subseteq L
  BY LiveFacts, PromotionsFacts DEF Lower, LiveIn
<1>3. Range(r.queue) = Range(st.queue) \ G
  BY ReplacedParts
<1> HIDE DEF P, G, L, r
<1>4. ASSUME Known(st.nodes, L, done) PROVE Known(r.nodes, LiveIn(r), done)
  <2>1. ASSUME NEW R \in P PROVE Seen(r.nodes[R]) \subseteq done
    <3>1. \A Q \in Lower(st, R) : Seen(st.nodes[Q]) \subseteq done
      BY <1>2, <1>4 DEF Known
    <3> QED
      BY <1>1, <3>1
  <2>2. \A R \in L \ G : Seen(r.nodes[R]) \subseteq done
    BY <1>1, <1>2, <1>4 DEF Known
  <2> QED
    BY <1>1, <2>1, <2>2 DEF Known
<1>5. ASSUME Covers(L, done) PROVE Covers(LiveIn(r), done)
  <2> SUFFICES ASSUME NEW H \in Roots, NEW S \in L, S \subseteq H PROVE \E R \in LiveIn(r) : R \subseteq H
    BY <1>5 DEF Covers
  <2>1. CASE S \notin G
    BY <1>1, <2>1
  <2>2. CASE S \in G
    <3>1. PICK T \in P : Below(S, T)
      BY <1>1, <2>2
    <3>2. PICK U \in Roots : T \subseteq U
      BY <1>2, <3>1, NodeFacts
    <3>3. S # {} /\ S \subseteq U /\ S \subseteq H
      BY <1>2, <3>1, <3>2, NodeFacts DEF Below
    <3>4. U = H
      BY <3>3, RootFacts
    <3> QED
      BY <1>1, <3>1, <3>2, <3>4
  <2> QED
    BY <2>1, <2>2
<1>6. ASSUME Range(r.batch) = {} PROVE Range(st.batch) = {} /\ Range(r.queue) = Range(st.queue)
  <2>1. P = {}
    BY <1>1, <1>6
  <2>2. G = {}
    BY <1>1, <2>1
  <2> QED
    BY <1>1, <1>3, <1>6, <2>1, <2>2
<1> QED
  BY <1>4, <1>5, <1>6 DEF r, L

\* A node that is replaced has scanned nothing that its parent would not.
LEMMA ReplacedOwned ==
  ASSUME NEW st, Structured(st), Owned(st.nodes, LiveIn(st)), NEW al
  PROVE  LET r == Replaced(st) IN
         /\ Owned(r.nodes, LiveIn(r)) /\ Narrow(r.nodes, Range(r.batch))
         /\ \A a : Recalls(st.nodes, LiveIn(st), al, a) => Recalls(r.nodes, LiveIn(r), al, a)
<1> DEFINE P == Promotions(st)
           G == Gone(st)
           L == LiveIn(st)
           r == Replaced(st)
<1>1. /\ LiveIn(r) = (L \ G) \cup P
      /\ Range(r.batch) = (Range(st.batch) \ G) \cup P
      /\ \A R \in Tree : R \notin P /\ R \notin G => r.nodes[R] = st.nodes[R]
      /\ \A R \in L \ G : R \notin P
      /\ \A R \in P : /\ r.nodes[R].stack = Stack[R]
                      /\ Seen(r.nodes[R]) = UNION {Seen(st.nodes[Q]) : Q \in Lower(st, R)}
                      /\ st.nodes[R] = NewNode(Stack[R])
      /\ \A Q \in G : Q \in L /\ \E T \in P : Q \in Lower(st, T) /\ Below(Q, T)
  BY ReplacedFacts
<1>2. L \subseteq Tree /\ P \subseteq Tree /\ \A T \in P : Lower(st, T) \subseteq L
  BY LiveFacts, PromotionsFacts DEF Lower, LiveIn
<1>3. \A R \in LiveIn(r) : r.nodes[R].targets = Around(R, r.nodes[R].stack)
  BY ReplacedFacts DEF Structured, Sound
<1>4. \A S \in L : /\ Prefix(st.nodes[S].stack, Stack[S]) /\ st.nodes[S].stack \in Seq(Dim)
                   /\ st.nodes[S].targets = Around(S, st.nodes[S].stack)
  BY LiveFacts DEF Structured, Sound
<1>5. \A T \in P : \A Q \in Lower(st, T) : Q \in L /\ Below(Q, T)
  BY <1>2 DEF Lower
<1>6. \A S \in Range(st.batch) : S \in L
  BY LiveFacts
<1>7. \A S \in L : ReachesParent(st, S) <=> S \notin Roots /\ Len(st.nodes[S].stack) = Room(S)
  BY Reaching
<1>8. \A S \in Range(st.batch) : ReachesParent(st, S) => \E T \in P : Parent[S] \subseteq T
  BY PromotionsFacts
<1>9. \A T \in P, Q \in L : Below(Q, T) => Q \in G
  BY DEF Gone, Lower, LiveIn
<1> HIDE DEF P, G, L, r
<1>10. ASSUME NEW R \in P
       PROVE  /\ Room(R) <= Len(r.nodes[R].stack)
              /\ R \in Roots \/ Len(r.nodes[R].stack) > Room(R)
              /\ Seen(r.nodes[R]) \subseteq r.nodes[R].targets
              /\ Seen(r.nodes[R]) \subseteq Area(R)
  <2>1. R \in Tree /\ r.nodes[R].stack = Stack[R] /\ r.nodes[R].targets = Around(R, Stack[R])
    BY <1>1, <1>2, <1>3
  <2>2. Room(R) \in Nat /\ (R \notin Roots => Room(R) < Len(Stack[R])) /\ Len(Stack[R]) \in Nat
    BY <2>1, RoomFacts
  <2>3. ASSUME NEW Q \in Lower(st, R)
        PROVE  Seen(st.nodes[Q]) \subseteq Around(R, Stack[R]) /\ Seen(st.nodes[Q]) \subseteq Area(R)
    <3>1. Q \in L /\ Below(Q, R) /\ Q \in Tree
      BY <1>2, <1>5
    <3> DEFINE s == st.nodes[Q].stack
    <3>2. /\ Prefix(s, Stack[Q]) /\ s \in Seq(Dim) /\ st.nodes[Q].targets = Around(Q, s)
          /\ Room(Q) <= Len(s)
          /\ Seen(st.nodes[Q]) \subseteq Around(Q, s) /\ Seen(st.nodes[Q]) \subseteq Area(Q)
      BY <1>4, <3>1 DEF Owned, L
    <3> HIDE DEF s
    <3>3. Area(Q) \subseteq Area(R)
      BY <2>1, <3>1, AreaAbove DEF Below
    <3>4. Prefix(Stack[R], s)
      <4>1. Q \notin Roots
        BY <2>1, <3>1, RootsOnTop
      <4>2. Parent[Q] \in Tree /\ Parent[Q] \subseteq R
        BY <2>1, <3>1, <4>1, ParentFacts
      <4>3. Prefix(Stack[R], Stack[Parent[Q]]) /\ Prefix(Stack[R], Stack[Q])
        BY <2>1, <3>1, <4>2, StackAbove DEF Below
      <4>4. Stack[Parent[Q]] \in Seq(Dim) /\ Room(Q) = Len(Stack[Parent[Q]])
        BY <4>1, <4>2, StackFacts DEF StackGood, Room
      <4>5. Len(Stack[R]) <= Len(Stack[Parent[Q]])
        BY <4>3 DEF Prefix
      <4>6. Len(Stack[Parent[Q]]) \in Nat /\ Len(s) \in Nat
        BY <3>2, <4>4
      <4>7. Len(Stack[R]) <= Len(s)
        BY <2>2, <3>2, <4>4, <4>5, <4>6
      <4>8. ASSUME NEW i \in 1..Len(Stack[R]) PROVE s[i] = Stack[R][i]
        <5>1. i \in 1..Len(s)
          BY <2>2, <4>6, <4>7
        <5>2. Stack[Q][i] = s[i]
          BY <3>2, <5>1 DEF Prefix
        <5>3. Stack[Q][i] = Stack[R][i]
          BY <4>3 DEF Prefix
        <5> QED
          BY <5>2, <5>3
      <4> QED
        BY <4>7, <4>8 DEF Prefix
    <3>5. Around(Q, s) \subseteq Around(R, Stack[R])
      <4>1. Stack[R] \in Seq(Dim) /\ Q \subseteq R
        BY <2>1, <3>1, StackFacts DEF StackGood, Below
      <4> QED
        BY <3>2, <3>4, <4>1, AroundGrows
    <3> QED
      BY <3>2, <3>3, <3>5
  <2>4. Seen(r.nodes[R]) = UNION {Seen(st.nodes[Q]) : Q \in Lower(st, R)}
    BY <1>1
  <2>5. Seen(r.nodes[R]) \subseteq Around(R, Stack[R]) /\ Seen(r.nodes[R]) \subseteq Area(R)
    BY <2>3, <2>4
  <2>6. Room(R) <= Len(Stack[R]) /\ (R \in Roots \/ Len(Stack[R]) > Room(R))
    <3>1. R \in Roots => Room(R) = 0
      BY DEF Room
    <3> QED
      BY <2>2, <3>1
  <2> QED
    BY <2>1, <2>5, <2>6
<1>11. Owned(r.nodes, LiveIn(r))
  <2>1. \A R \in L \ G : r.nodes[R] = st.nodes[R]
    BY <1>1, <1>2
  <2> QED
    BY <1>1, <1>10, <2>1 DEF Owned, L
<1>12. Narrow(r.nodes, Range(r.batch))
  <2> SUFFICES ASSUME NEW S \in Range(st.batch) \ G, S \notin Roots
               PROVE  Len(r.nodes[S].stack) > Room(S)
    BY <1>1, <1>10 DEF Narrow
  <2>1. S \in L /\ S \in Tree /\ r.nodes[S] = st.nodes[S]
    BY <1>1, <1>2, <1>6
  <2>2. Room(S) <= Len(st.nodes[S].stack) /\ Len(st.nodes[S].stack) \in Nat /\ Room(S) \in Nat
    BY <1>4, <2>1, RoomFacts DEF Owned, L
  <2>3. ASSUME Len(st.nodes[S].stack) = Room(S) PROVE FALSE
    <3>1. PICK T \in P : Parent[S] \subseteq T
      BY <1>7, <1>8, <2>1, <2>3
    <3>2. Below(S, Parent[S])
      BY <2>1, ParentFacts
    <3>3. Below(S, T)
      BY <3>1, <3>2 DEF Below
    <3> QED
      BY <1>9, <2>1, <3>3
  <2> QED
    BY <2>1, <2>2, <2>3
<1>13. ASSUME NEW a, Recalls(st.nodes, L, al, a) PROVE Recalls(r.nodes, LiveIn(r), al, a)
  <2>1. PICK S \in Tree : a \in Seen(st.nodes[S]) /\ (S \in L \/ Idle(st.nodes[S], al))
    BY <1>13 DEF Recalls
  <2>2. CASE S \in G
    <3>1. PICK T \in P : S \in Lower(st, T)
      BY <1>1, <2>2
    <3>2. a \in Seen(r.nodes[T]) /\ T \in LiveIn(r) /\ T \in Tree
      BY <1>1, <1>2, <2>1, <3>1
    <3> QED
      BY <3>2 DEF Recalls
  <2>3. CASE S \notin G
    <3>1. S \notin P
      <4>1. ASSUME S \in P PROVE FALSE
        <5>1. st.nodes[S] = NewNode(Stack[S]) /\ Stack[S] \in Seq(Dim)
          BY <1>1, <4>1, StackFacts DEF StackGood
        <5>2. Seen(st.nodes[S]) = {}
          BY <5>1, NewNodeFacts
        <5> QED
          BY <2>1, <5>2
      <4> QED
        BY <4>1
    <3>2. r.nodes[S] = st.nodes[S]
      BY <1>1, <2>3, <3>1
    <3>3. S \in L => S \in LiveIn(r)
      BY <1>1, <2>3
    <3> QED
      BY <2>1, <3>2, <3>3 DEF Recalls
  <2> QED
    BY <2>2, <2>3
<1> QED
  BY <1>11, <1>12, <1>13 DEF r, L

-----------------------------------------------------------------------------
(* The next batch.                                                            *)

\* Nodes may drop out.
LEMMA SoundLess ==
  ASSUME NEW ns, NEW L, NEW M \in SUBSET L, Sound(ns, L)
  PROVE  Sound(ns, M)
BY DEF Sound

\* Some nodes are scanned, if there are any.
LEMMA BatchSizeFacts ==
  ASSUME NEW len \in Nat
  PROVE  BatchSize(len) \in 0..len /\ (len # 0 => BatchSize(len) # 0)
<1> DEFINE x == (len * BatchPercent) \div 100
           m == Max({x, 1})
<1>1. BatchPercent \in Nat /\ BatchPercent \in 1..100
  BY SixTreeAssumption
<1>2. x \in Nat
  <2>1. len * BatchPercent \in Nat
    BY <1>1
  <2> QED
    BY <2>1
<1> HIDE DEF x
<1>3. \E y \in {x, 1} : \A z \in {x, 1} : y >= z
  <2>1. x >= 1 \/ 1 >= x
    BY <1>2
  <2> QED
    BY <1>2, <2>1
<1>4. m \in {x, 1} /\ m >= 1
  BY <1>3 DEF Max
<1>5. m \in Nat
  BY <1>2, <1>4
<1> HIDE DEF m
<1>6. {m, len} \in SUBSET Nat /\ {m, len} # {}
  BY <1>5
<1> DEFINE b == Min({m, len})
<1>7. b \in {m, len} /\ b <= len
  BY <1>6, MinFacts
<1> HIDE DEF b
<1>8. b \in 0..len /\ (len # 0 => b # 0)
  BY <1>4, <1>5, <1>7
<1> QED
  BY <1>8 DEF BatchSize, b, m, x

Tests(ns, K) ==
  /\ detection /\ phase' = "Detecting" /\ nodes' = ns
  /\ batch' \in Seq(Tree) /\ queue' \in Seq(Tree)
  /\ batch' # <<>> /\ Range(batch') = {batch'[1]}
  /\ Range(batch') \cup Range(queue') = K

Scans(ns, K, st) ==
  /\ Structured(st) /\ st.nodes = ns /\ LiveIn(st) = K
  /\ Range(st.batch) = {} => Range(st.queue) = {}
  /\ nodes' = Replaced(st).nodes /\ batch' = Replaced(st).batch /\ queue' = Replaced(st).queue

\* A suspicious node alone, or a part of the queue whose parents take its place.
LEMMA ScheduleParts ==
  ASSUME NEW ns, NEW q \in Seq(Tree), Sound(ns, Range(q)), Schedule(ns, q),
         NEW K, K = {S \in Range(q) : Alive(ns[S])}
  PROVE  /\ generation' = NoCursor
         /\ \/ Tests(ns, K)
            \/ phase' = "Scanning" /\ \E st : Scans(ns, K, st)
<1> DEFINE D       == {S \in Range(q) : ~Alive(ns[S])}
           kept    == Outside(q, D)
           suspect == {i \in DOMAIN kept : detection /\ Suspicious(ns[kept[i]])}
           count   == BatchSize(Len(kept))
           front   == SubSeq(kept, 1, count)
           back    == SubSeq(kept, count + 1, Len(kept))
           st      == [nodes |-> ns, batch |-> front, queue |-> back]
           i       == Min(suspect)
<1>1. \/ /\ suspect # {}
         /\ nodes' = ns
         /\ batch' = <<kept[i]>>
         /\ queue' = RemoveAt(kept, i)
         /\ StartDetection(ns[kept[i]])
      \/ /\ suspect = {}
         /\ nodes' = Replaced(st).nodes /\ batch' = Replaced(st).batch /\ queue' = Replaced(st).queue
         /\ phase' = "Scanning" /\ probes' = NoProbes /\ generation' = NoCursor
  BY DEF Schedule
<1>2. kept \in Seq(Tree) /\ Range(kept) = Range(q) \ D
  BY OutsideRange
<1>3. Range(kept) = K
  BY <1>2
<1>4. DOMAIN kept = 1..Len(kept) /\ Len(kept) \in Nat
  BY <1>2
<1> HIDE DEF D, kept
<1>5. CASE suspect # {}
  <2>1. suspect \in SUBSET Nat /\ suspect \in SUBSET (1..Len(kept))
    BY <1>4
  <2>2. i \in suspect
    BY <1>5, <2>1, MinFacts
  <2>3. i \in 1..Len(kept) /\ detection
    BY <2>1, <2>2
  <2>4. batch' = <<kept[i]>> /\ queue' = RemoveAt(kept, i) /\ nodes' = ns /\ StartDetection(ns[kept[i]])
    BY <1>1, <1>5
  <2> HIDE DEF i, suspect
  <2>5. RemoveAt(kept, i) \in Seq(Tree) /\ Range(kept) = Range(RemoveAt(kept, i)) \cup {kept[i]}
    BY <1>2, <2>3, RemoveRange
  <2>6. kept[i] \in Tree
    BY <1>2, <2>3
  <2>7. /\ <<kept[i]>> \in Seq(Tree) /\ <<kept[i]>> # <<>> /\ <<kept[i]>>[1] = kept[i]
        /\ Range(<<kept[i]>>) = {kept[i]}
    BY <2>6 DEF Range
  <2>8. phase' = "Detecting" /\ generation' = NoCursor
    BY <2>4 DEF StartDetection
  <2> QED
    BY <1>3, <2>3, <2>4, <2>5, <2>7, <2>8 DEF Tests
<1>6. CASE suspect = {}
  <2>1. count \in 0..Len(kept) /\ (Len(kept) # 0 => count # 0)
    BY <1>4, BatchSizeFacts
  <2>2. /\ nodes' = Replaced(st).nodes /\ batch' = Replaced(st).batch /\ queue' = Replaced(st).queue
        /\ phase' = "Scanning" /\ generation' = NoCursor
    BY <1>1, <1>6
  <2> HIDE DEF count, suspect
  <2>3. front \in Seq(Tree) /\ back \in Seq(Tree) /\ Range(kept) = Range(front) \cup Range(back)
    BY <1>2, <2>1, SplitRange
  <2>4. ASSUME Range(front) = {} PROVE Range(back) = {}
    <3>1. Len(front) = count
      BY <1>2, <2>1, PrefixFacts
    <3>2. DOMAIN front = 1..count
      BY <2>3, <3>1
    <3>3. count = 0
      <4>1. ASSUME count # 0 PROVE FALSE
        <5>1. 1 \in DOMAIN front
          BY <2>1, <3>2, <4>1
        <5> HIDE DEF front
        <5> QED
          BY <2>4, <5>1 DEF Range
      <4> QED
        BY <4>1
    <3>4. Len(kept) = 0
      BY <2>1, <3>3
    <3>5. Range(kept) = {}
      BY <1>4, <3>4 DEF Range
    <3> QED
      BY <2>3, <3>5
  <2> HIDE DEF front, back
  <2>5. st.nodes = ns /\ st.batch = front /\ st.queue = back
    OBVIOUS
  <2> HIDE DEF st
  <2>6. LiveIn(st) = K
    BY <1>3, <2>3, <2>5 DEF LiveIn
  <2>7. Sound(ns, K)
    <3>1. K \in SUBSET Range(q)
      OBVIOUS
    <3> QED
      BY <3>1, SoundLess
  <2>8. Structured(st)
    BY <2>3, <2>5, <2>6, <2>7 DEF Structured
  <2> QED
    BY <2>2, <2>4, <2>5, <2>6, <2>8 DEF Scans
<1> QED
  BY <1>5, <1>6

\* Only the empty sequence has no elements.
LEMMA EmptyRange ==
  ASSUME NEW T, NEW s \in Seq(T)
  PROVE  Range(s) = {} <=> s = <<>>
<1>1. DOMAIN s = 1..Len(s) /\ Len(s) \in Nat /\ (s = <<>> <=> Len(s) = 0)
  OBVIOUS
<1>2. ASSUME Len(s) # 0 PROVE Range(s) # {}
  <2>1. 1 \in DOMAIN s
    BY <1>1, <1>2
  <2> QED
    BY <2>1 DEF Range
<1>3. ASSUME Len(s) = 0 PROVE Range(s) = {}
  BY <1>1, <1>3 DEF Range
<1> QED
  BY <1>1, <1>2, <1>3

\* What holds of the queue holds of the next batch and queue.
LEMMA ScheduleFacts ==
  ASSUME NEW ns, NEW q \in Seq(Tree), Sound(ns, Range(q)), Schedule(ns, q),
         NEW done, aliases \subseteq done, Known(ns, Range(q), done), Covers(Range(q), done),
         NEW L, L = Range(batch') \cup Range(queue')
  PROVE  /\ batch' \in Seq(Tree) /\ queue' \in Seq(Tree) /\ Sound(nodes', L)
         /\ Known(nodes', L, done) /\ Covers(L, done)
         /\ batch' = <<>> => queue' = <<>>
         /\ phase' \in {"Scanning", "Detecting"} /\ generation' = NoCursor
         /\ phase' = "Detecting" => batch' # <<>> /\ Range(batch') = {batch'[1]}
<1> DEFINE K == {S \in Range(q) : Alive(ns[S])}
<1>1. K \in SUBSET Range(q) /\ Range(q) \subseteq Tree
  BY DEF Sound
<1>2. Sound(ns, K)
  BY <1>1, SoundLess
<1>3. Known(ns, K, done)
  BY <1>1 DEF Known
<1>4. Covers(K, done)
  <2> SUFFICES ASSUME NEW G \in Roots, ~\E S \in K : S \subseteq G, NEW s \in G, NEW b \in Addr, Same(b, s, Scope)
               PROVE  b \in done
    BY DEF Covers
  <2>1. CASE \E S \in Range(q) : S \subseteq G
    <3>1. PICK S \in Range(q) : S \subseteq G
      BY <2>1
    <3>2. S \in Tree /\ ~Alive(ns[S])
      BY <1>1, <3>1
    <3>3. ns[S].stack = <<>> /\ ns[S].targets \subseteq Seen(ns[S]) \cup aliases
      BY <3>2, AliveIdle DEF Idle
    <3>4. ns[S].targets = Around(S, <<>>)
      BY <3>3 DEF Sound
    <3>5. b \in Around(S, <<>>)
      BY <3>1, <3>2, AroundAll
    <3>6. Seen(ns[S]) \subseteq done
      BY DEF Known
    <3> QED
      BY <3>3, <3>4, <3>5, <3>6
  <2>2. CASE ~\E S \in Range(q) : S \subseteq G
    BY <2>2 DEF Covers
  <2> QED
    BY <2>1, <2>2
<1>a. K = {S \in Range(q) : Alive(ns[S])}
  OBVIOUS
<1> HIDE DEF K
<1>5. generation' = NoCursor /\ (Tests(ns, K) \/ (phase' = "Scanning" /\ \E st : Scans(ns, K, st)))
  BY <1>a, ScheduleParts
<1>6. CASE Tests(ns, K)
  BY <1>2, <1>3, <1>4, <1>5, <1>6 DEF Tests
<1>7. CASE phase' = "Scanning" /\ \E st : Scans(ns, K, st)
  <2>0. PICK st : Scans(ns, K, st)
    BY <1>7
  <2>1. /\ Structured(st) /\ st.nodes = ns /\ LiveIn(st) = K
        /\ Range(st.batch) = {} => Range(st.queue) = {}
        /\ nodes' = Replaced(st).nodes /\ batch' = Replaced(st).batch /\ queue' = Replaced(st).queue
    BY <2>0 DEF Scans
  <2> DEFINE r == Replaced(st)
  <2>2. Structured(r)
    BY <2>1, ReplacedFacts
  <2>3. /\ Known(st.nodes, LiveIn(st), done) => Known(r.nodes, LiveIn(r), done)
        /\ Covers(LiveIn(st), done) => Covers(LiveIn(r), done)
        /\ Range(r.batch) = {} => Range(st.batch) = {} /\ Range(r.queue) = Range(st.queue)
    BY <2>1, ReplacedKnown
  <2>4. nodes' = r.nodes /\ batch' = r.batch /\ queue' = r.queue
    BY <2>1
  <2> HIDE DEF r
  <2>5. L = LiveIn(r)
    BY <2>4 DEF LiveIn
  <2>6. r.batch \in Seq(Tree) /\ r.queue \in Seq(Tree) /\ Sound(r.nodes, LiveIn(r))
    BY <2>2 DEF Structured
  <2>7. Known(r.nodes, LiveIn(r), done) /\ Covers(LiveIn(r), done)
    BY <1>3, <1>4, <2>1, <2>3
  <2>8. r.batch = <<>> => r.queue = <<>>
    BY <2>1, <2>3, <2>6, EmptyRange
  <2> QED
    BY <1>5, <1>7, <2>4, <2>5, <2>6, <2>7, <2>8
<1> QED
  BY <1>5, <1>6, <1>7

\* Without detection each node of the next batch is narrow, and nothing that has
\* been seen is forgotten but by nodes that are dropped.
LEMMA SchedulePlain ==
  ASSUME NEW ns, NEW q \in Seq(Tree), Sound(ns, Range(q)), Schedule(ns, q),
         ~detection, Owned(ns, Range(q)),
         NEW L, L = Range(batch') \cup Range(queue')
  PROVE  /\ phase' = "Scanning" /\ Owned(nodes', L) /\ Narrow(nodes', Range(batch'))
         /\ \A a : Recalls(ns, Range(q), aliases, a) => Recalls(nodes', L, aliases, a)
<1> DEFINE K == {S \in Range(q) : Alive(ns[S])}
<1>2. Owned(ns, K)
  BY DEF Owned
<1>3. ASSUME NEW a, Recalls(ns, Range(q), aliases, a) PROVE Recalls(ns, K, aliases, a)
  <2>1. PICK S \in Tree : a \in Seen(ns[S]) /\ (S \in Range(q) \/ Idle(ns[S], aliases))
    BY <1>3 DEF Recalls
  <2>2. S \in Range(q) => S \in K \/ Idle(ns[S], aliases)
    BY AliveIdle
  <2> QED
    BY <2>1, <2>2 DEF Recalls
<1>a. K = {S \in Range(q) : Alive(ns[S])}
  OBVIOUS
<1> HIDE DEF K
<1>0. Tests(ns, K) \/ (phase' = "Scanning" /\ \E st : Scans(ns, K, st))
  BY <1>a, ScheduleParts
<1>1. phase' = "Scanning" /\ \E st : Scans(ns, K, st)
  BY <1>0 DEF Tests
<1>4. PICK st : /\ Structured(st) /\ st.nodes = ns /\ LiveIn(st) = K
                /\ nodes' = Replaced(st).nodes
                /\ batch' = Replaced(st).batch /\ queue' = Replaced(st).queue
  BY <1>1 DEF Scans
<1> DEFINE r == Replaced(st)
<1>5. /\ Owned(r.nodes, LiveIn(r)) /\ Narrow(r.nodes, Range(r.batch))
      /\ \A a : Recalls(st.nodes, LiveIn(st), aliases, a) => Recalls(r.nodes, LiveIn(r), aliases, a)
  BY <1>2, <1>4, ReplacedOwned
<1>6. nodes' = r.nodes /\ batch' = r.batch /\ queue' = r.queue
  BY <1>4
<1> HIDE DEF r
<1>7. L = LiveIn(r)
  BY <1>6 DEF LiveIn
<1> QED
  BY <1>1, <1>3, <1>4, <1>5, <1>6, <1>7

-----------------------------------------------------------------------------
(* The inductive invariant.                                                   *)

ProbeRounds == UNION {[D -> Outcome \cup {"none"}] : D \in SUBSET Addr}

SixTreeTypes ==
  /\ nodes \in [Tree -> Node] /\ batch \in Seq(Tree) /\ queue \in Seq(Tree)
  /\ phase \in {"Scanning", "Detecting"} /\ pc \in {"idle", "fed", "asked"}
  /\ generation \in [on : BOOLEAN, left : SUBSET Addr]
  /\ probes \in ProbeRounds
  /\ detected \subseteq SUBSET Addr /\ detection \in BOOLEAN
  /\ aliases \subseteq Addr /\ outstanding \subseteq Addr /\ issued \subseteq Addr /\ judged \subseteq Addr

\* With and without alias detection.
SixTreeNodes ==
  /\ Sound(nodes, Live)
  /\ Known(nodes, Live, judged \cup aliases)
  /\ Covers(Live, judged \cup aliases)
  /\ batch = <<>> => queue = <<>>
  /\ phase = "Detecting" => batch # <<>> /\ Range(batch) = {batch[1]}

\* Without it: also what the cursor has left, and what has been issued.
SixTreePlain ==
  ~detection =>
    /\ phase = "Scanning"
    /\ Owned(nodes, Live) /\ Narrow(nodes, Range(batch))
    /\ generation.on => /\ generation.left \subseteq BatchFrontier
                        /\ BatchFrontier \subseteq generation.left \cup outstanding
    /\ generation.on /\ pc = "idle" => ~RoundDone
    /\ \A a \in issued : \/ a \in aliases
                         \/ Recalls(nodes, Live, aliases, a)
                         \/ a \in outstanding /\ \E S \in Range(batch) : a \in nodes[S].targets

SixTreeIInv == SixTreeTypes /\ SixTreeNodes /\ SixTreePlain

\* Changes to nodes that take part, and to no others.
LEMMA SoundChange ==
  ASSUME NEW ns, NEW ms \in [Tree -> Node], NEW L, Sound(ns, L),
         \A S \in Tree \ L : ms[S] = ns[S],
         \A S \in L : Prefix(ms[S].stack, Stack[S]) /\ ms[S].targets = Around(S, ms[S].stack)
  PROVE  Sound(ms, L)
<1>1. ASSUME NEW S \in L, NEW T \in Tree, Below(S, T) PROVE ms[T] = NewNode(Stack[T])
  <2>1. S \in Tree /\ S # {}
    BY NodeFacts DEF Sound
  <2>2. T \notin L
    BY <1>1, <2>1 DEF Sound, Below
  <2> QED
    BY <1>1, <2>2 DEF Sound
<1> QED
  BY <1>1 DEF Sound

\* A node that is widened scans what the rest of its stack says.
LEMMA WidenedShape ==
  ASSUME NEW S \in Tree, NEW n \in Node, n.stack # <<>>,
         Prefix(n.stack, Stack[S]), n.targets = Around(S, n.stack)
  PROVE  LET f == Front(n.stack) IN
         /\ Prefix(f, Stack[S]) /\ Widened(n.targets, Last(n.stack)) = Around(S, f)
         /\ f \in Seq(Dim) /\ Len(f) = Len(n.stack) - 1 /\ Len(n.stack) \in Nat
         /\ n.targets \subseteq Around(S, f)
<1> DEFINE s == n.stack
           f == Front(s)
<1>1. s \in Seq(Dim) /\ s # <<>> /\ Prefix(s, Stack[S]) /\ n.targets = Around(S, s)
  BY DEF Node
<1>2. Stack[S] \in Seq(Dim) /\ Distinct(Stack[S]) /\ Len(Stack[S]) \in Nat
  BY StackFacts DEF StackGood
<1> HIDE DEF s
<1>3. /\ f \in Seq(Dim) /\ Len(s) \in Nat /\ Len(f) \in Nat /\ Len(f) = Len(s) - 1
      /\ \A i \in 1..(Len(s) - 1) : f[i] = s[i]
  BY <1>1, FrontFacts
<1>4. Distinct(s)
  <2>1. \A i \in 1..Len(s) : i \in 1..Len(Stack[S]) /\ Stack[S][i] = s[i]
    BY <1>1, <1>2, <1>3 DEF Prefix
  <2> QED
    BY <1>2, <2>1 DEF Distinct
<1>5. Widened(Around(S, s), Last(s)) = Around(S, f)
  BY <1>1, <1>4, WidenedFacts
<1> HIDE DEF f
<1>6. Prefix(f, s)
  BY <1>3 DEF Prefix
<1>7. Prefix(f, Stack[S])
  <2>1. \A i \in 1..Len(f) : i \in 1..Len(s)
    BY <1>3
  <2> QED
    BY <1>1, <1>2, <1>3, <1>6, <2>1 DEF Prefix
<1>8. Around(S, s) \subseteq Around(S, f)
  BY <1>1, <1>3, <1>6, AroundGrows
<1> QED
  BY <1>1, <1>3, <1>5, <1>7, <1>8 DEF f, s

\* The invariant, read for the nodes that take part.
LEMMA LiveNow ==
  ASSUME SixTreeTypes, SixTreeNodes
  PROVE  /\ Live \subseteq Tree /\ Range(batch) \subseteq Live /\ Range(queue) \subseteq Live
         /\ \A S \in Tree : nodes[S] \in Node /\ nodes[S].stack \in Seq(Dim) /\ Len(nodes[S].stack) \in Nat
         /\ \A S \in Live : /\ Prefix(nodes[S].stack, Stack[S])
                            /\ nodes[S].targets = Around(S, nodes[S].stack)
<1>1. \A S \in Tree : nodes[S] \in Node
  BY DEF SixTreeTypes
<1>2. \A S \in Tree : nodes[S].stack \in Seq(Dim)
  BY <1>1 DEF Node
<1>3. Live \subseteq Tree /\ Range(batch) \subseteq Live /\ Range(queue) \subseteq Live
  BY DEF SixTreeNodes, Sound, Live
<1>4. \A S \in Live : /\ Prefix(nodes[S].stack, Stack[S])
                      /\ nodes[S].targets = Around(S, nodes[S].stack)
  BY DEF SixTreeNodes, Sound
<1> QED
  BY <1>1, <1>2, <1>3, <1>4

\* What a node of the batch scans is its own.
LEMMA BatchTargets ==
  ASSUME SixTreeTypes, SixTreeNodes, Narrow(nodes, Range(batch)), NEW S \in Range(batch)
  PROVE  nodes[S].targets \subseteq Area(S)
<1>1. S \in Live /\ S \in Tree
  BY LiveNow
<1>2. Prefix(nodes[S].stack, Stack[S]) /\ nodes[S].targets = Around(S, nodes[S].stack) /\ nodes[S].stack \in Seq(Dim)
  BY <1>1, LiveNow
<1>3. S \in Roots \/ Len(nodes[S].stack) > Room(S)
  BY DEF Narrow
<1> QED
  BY <1>1, <1>2, <1>3, AroundInArea

\* A round has ended: its nodes are widened, and have scanned what they had to.
LEMMA FinishRoundNodes ==
  ASSUME SixTreeTypes, SixTreeNodes, SixTreePlain, RoundDone,
         NEW ns, ns = [S \in Tree |-> IF S \in Range(batch) THEN Finished(nodes[S]) ELSE nodes[S]]
  PROVE  /\ Sound(ns, Live) /\ Known(ns, Live, judged \cup aliases)
         /\ ~detection => /\ Owned(ns, Live)
                          /\ \A a \in issued : a \in aliases \/ Recalls(ns, Live, aliases, a)
<1>1. /\ Live \subseteq Tree /\ Range(batch) \subseteq Live
      /\ \A S \in Tree : nodes[S] \in Node /\ nodes[S].stack \in Seq(Dim) /\ Len(nodes[S].stack) \in Nat
      /\ \A S \in Live : /\ Prefix(nodes[S].stack, Stack[S])
                         /\ nodes[S].targets = Around(S, nodes[S].stack)
  BY LiveNow
<1>2. ASSUME NEW S \in Range(batch)
      PROVE  /\ ns[S] \in Node /\ Seen(ns[S]) = nodes[S].targets
             /\ Prefix(ns[S].stack, Stack[S]) /\ ns[S].targets = Around(S, ns[S].stack)
             /\ nodes[S].targets \subseteq ns[S].targets
             /\ nodes[S].stack = <<>> => ns[S].stack = <<>>
             /\ nodes[S].stack # <<>> => Len(ns[S].stack) = Len(nodes[S].stack) - 1
  <2> DEFINE n == nodes[S]
  <2>1. S \in Live /\ S \in Tree /\ ns[S] = Finished(n)
    BY <1>1
  <2>2. n \in Node /\ Prefix(n.stack, Stack[S]) /\ n.targets = Around(S, n.stack)
    BY <1>1, <2>1
  <2> HIDE DEF n
  <2>3. /\ Finished(n) \in Node /\ Seen(Finished(n)) = n.targets
        /\ n.stack = <<>> => Finished(n).stack = n.stack /\ Finished(n).targets = n.targets
        /\ n.stack # <<>> => /\ Finished(n).stack = Front(n.stack)
                             /\ Finished(n).targets = Widened(n.targets, Last(n.stack))
    BY <2>2, FinishedFacts
  <2>4. CASE n.stack = <<>>
    BY <2>1, <2>2, <2>3, <2>4 DEF n
  <2>5. CASE n.stack # <<>>
    <3>1. LET f == Front(n.stack) IN
          /\ Prefix(f, Stack[S]) /\ Widened(n.targets, Last(n.stack)) = Around(S, f)
          /\ f \in Seq(Dim) /\ Len(f) = Len(n.stack) - 1 /\ Len(n.stack) \in Nat
          /\ n.targets \subseteq Around(S, f)
      BY <2>1, <2>2, <2>5, WidenedShape
    <3> QED
      BY <2>1, <2>3, <2>5, <3>1 DEF n
  <2> QED
    BY <2>4, <2>5
<1>3. \A S \in Tree \ Range(batch) : ns[S] = nodes[S]
  OBVIOUS
<1>4. ns \in [Tree -> Node]
  <2>1. \A S \in Tree : ns[S] \in Node
    BY <1>1, <1>2, <1>3
  <2> QED
    BY <2>1
<1> HIDE DEF Live
<1>5. Sound(ns, Live)
  <2>1. \A S \in Tree \ Live : ns[S] = nodes[S]
    BY <1>1, <1>3
  <2>2. \A S \in Live : Prefix(ns[S].stack, Stack[S]) /\ ns[S].targets = Around(S, ns[S].stack)
    BY <1>1, <1>2, <1>3
  <2>3. Sound(nodes, Live)
    BY DEF SixTreeNodes
  <2> QED
    BY <1>4, <2>1, <2>2, <2>3, SoundChange
<1>6. ASSUME NEW S \in Range(batch) PROVE nodes[S].targets \subseteq Seen(nodes[S]) \cup aliases
  <2>1. PICK i \in DOMAIN batch : batch[i] = S
    BY DEF Range
  <2>2. ~HasFrontier(nodes[S])
    BY <2>1 DEF RoundDone
  <2> QED
    BY <2>2 DEF HasFrontier, Frontier, Seen
<1>7. Known(ns, Live, judged \cup aliases)
  <2>1. \A S \in Live : Seen(nodes[S]) \subseteq judged \cup aliases
    BY DEF SixTreeNodes, Known
  <2>2. ASSUME NEW S \in Live PROVE Seen(ns[S]) \subseteq judged \cup aliases
    <3>1. CASE S \in Range(batch)
      BY <1>2, <1>6, <2>1, <3>1
    <3>2. CASE S \notin Range(batch)
      BY <1>1, <1>3, <2>1, <3>2
    <3> QED
      BY <3>1, <3>2
  <2> QED
    BY <2>2 DEF Known
<1>8. ASSUME ~detection
      PROVE  Owned(ns, Live) /\ \A a \in issued : a \in aliases \/ Recalls(ns, Live, aliases, a)
  <2>1. /\ Owned(nodes, Live) /\ Narrow(nodes, Range(batch))
        /\ \A a \in issued : \/ a \in aliases
                             \/ Recalls(nodes, Live, aliases, a)
                             \/ a \in outstanding /\ \E S \in Range(batch) : a \in nodes[S].targets
    BY <1>8 DEF SixTreePlain
  <2>2. ASSUME NEW S \in Range(batch)
        PROVE  /\ Room(S) <= Len(ns[S].stack)
               /\ Seen(ns[S]) \subseteq ns[S].targets /\ Seen(ns[S]) \subseteq Area(S)
    <3>1. nodes[S].targets \subseteq Area(S)
      BY <2>1, BatchTargets
    <3>2. S \in Tree /\ Room(S) \in Nat /\ Len(nodes[S].stack) \in Nat
      BY <1>1, RoomFacts
    <3>3. S \in Roots => Room(S) = 0
      BY DEF Room
    <3>4. CASE nodes[S].stack = <<>>
      <4>1. Len(nodes[S].stack) = 0 /\ ns[S].stack = nodes[S].stack
        BY <1>2, <3>4
      <4>2. S \in Roots
        BY <2>1, <3>2, <4>1 DEF Narrow
      <4> QED
        BY <1>2, <3>1, <3>3, <4>1, <4>2
    <3>5. CASE nodes[S].stack # <<>>
      <4> DEFINE s == nodes[S].stack
      <4>0. s \in Seq(Dim) /\ s # <<>> /\ Len(ns[S].stack) = Len(s) - 1
        BY <1>1, <1>2, <3>2, <3>5
      <4> HIDE DEF s
      <4>a. Len(s) # 0
        BY <4>0
      <4>1. Len(ns[S].stack) = Len(nodes[S].stack) - 1 /\ Len(nodes[S].stack) # 0
        BY <4>0, <4>a DEF s
      <4>2. Room(S) <= Len(ns[S].stack)
        BY <2>1, <3>2, <3>3, <4>1 DEF Narrow
      <4> QED
        BY <1>2, <3>1, <4>2
    <3> QED
      BY <3>4, <3>5
  <2>3. Owned(ns, Live)
    BY <1>1, <1>3, <2>1, <2>2 DEF Owned
  <2>4. ASSUME NEW a \in issued, a \notin aliases PROVE Recalls(ns, Live, aliases, a)
    <3>1. CASE Recalls(nodes, Live, aliases, a)
      <4>1. PICK S \in Tree : a \in Seen(nodes[S]) /\ (S \in Live \/ Idle(nodes[S], aliases))
        BY <3>1 DEF Recalls
      <4>2. CASE S \in Range(batch)
        <5>1. Seen(nodes[S]) \subseteq nodes[S].targets /\ S \in Live
          BY <1>1, <2>1, <4>2 DEF Owned
        <5>2. a \in Seen(ns[S])
          BY <1>2, <4>1, <4>2, <5>1
        <5> QED
          BY <5>1, <5>2, <4>1 DEF Recalls
      <4>3. CASE S \notin Range(batch)
        BY <1>3, <4>1, <4>3 DEF Recalls
      <4> QED
        BY <4>2, <4>3
    <3>2. CASE \E S \in Range(batch) : a \in nodes[S].targets
      <4>1. PICK S \in Range(batch) : a \in nodes[S].targets
        BY <3>2
      <4>2. a \in Seen(ns[S]) /\ S \in Live /\ S \in Tree
        BY <1>1, <1>2, <4>1
      <4> QED
        BY <4>2 DEF Recalls
    <3> QED
      BY <2>1, <2>4, <3>1, <3>2
  <2> QED
    BY <2>3, <2>4
<1> QED
  BY <1>5, <1>7, <1>8

\* The probes of a round are addresses with or without an outcome.
LEMMA RoundsFacts ==
  /\ NoProbes \in ProbeRounds
  /\ \A D \in SUBSET Addr : \A f \in [D -> Outcome \cup {"none"}] : f \in ProbeRounds
  /\ \A f \in ProbeRounds : /\ DOMAIN f \in SUBSET Addr
                            /\ \A a \in DOMAIN f : f[a] \in Outcome \cup {"none"}
<1>1. ASSUME NEW D \in SUBSET Addr, NEW f \in [D -> Outcome \cup {"none"}] PROVE f \in ProbeRounds
  BY DEF ProbeRounds
<1>2. NoProbes \in [{} -> Outcome \cup {"none"}] /\ {} \in SUBSET Addr
  BY DEF NoProbes
<1>3. ASSUME NEW f \in ProbeRounds
      PROVE  DOMAIN f \in SUBSET Addr /\ \A a \in DOMAIN f : f[a] \in Outcome \cup {"none"}
  <2>1. PICK D \in SUBSET Addr : f \in [D -> Outcome \cup {"none"}]
    BY DEF ProbeRounds
  <2> QED
    BY <2>1
<1> QED
  BY <1>1, <1>2, <1>3

\* A test sends probes to addresses of the node.
LEMMA StartFacts ==
  ASSUME NEW n \in Node, StartDetection(n)
  PROVE  probes' \in ProbeRounds /\ phase' = "Detecting" /\ generation' = NoCursor
<1>1. PICK X \in Samples(n) : probes' = [a \in X |-> IF a \in aliases THEN "Skipped" ELSE "none"]
  BY DEF StartDetection
<1>2. X \in SUBSET Addr
  BY DEF Samples, Node
<1>3. probes' \in [X -> Outcome \cup {"none"}]
  BY <1>1 DEF Outcome
<1> QED
  BY <1>2, <1>3, RoundsFacts DEF StartDetection

\* A scheduled round of probes is well formed.
LEMMA ScheduleProbes ==
  ASSUME NEW ns \in [Tree -> Node], NEW q \in Seq(Tree), Schedule(ns, q)
  PROVE  probes' \in ProbeRounds
<1> DEFINE D       == {S \in Range(q) : ~Alive(ns[S])}
           kept    == Outside(q, D)
           suspect == {i \in DOMAIN kept : detection /\ Suspicious(ns[kept[i]])}
           i       == Min(suspect)
<1>1. \/ suspect # {} /\ StartDetection(ns[kept[i]])
      \/ probes' = NoProbes
  BY DEF Schedule
<1>2. kept \in Seq(Tree)
  BY OutsideRange
<1>3. DOMAIN kept = 1..Len(kept) /\ Len(kept) \in Nat
  BY <1>2
<1> HIDE DEF D, kept
<1>4. CASE suspect # {} /\ StartDetection(ns[kept[i]])
  <2>1. suspect \in SUBSET Nat /\ suspect \in SUBSET (1..Len(kept))
    BY <1>3
  <2>2. i \in 1..Len(kept)
    BY <1>4, <2>1, MinFacts
  <2> HIDE DEF i, suspect
  <2>3. kept[i] \in Tree
    BY <1>2, <2>2
  <2>4. ns[kept[i]] \in Node
    BY <2>3
  <2> QED
    BY <1>4, <2>4, StartFacts
<1>5. CASE probes' = NoProbes
  BY <1>5, RoundsFacts
<1> QED
  BY <1>1, <1>4, <1>5

\* A new round has no cursor.
LEMMA NoCursorType == NoCursor \in [on : BOOLEAN, left : SUBSET Addr] /\ NoCursor.on = FALSE
BY DEF NoCursor

\* A finished round keeps the invariant: the batch is widened, merged and replaced.
LEMMA FinishRoundStep ==
  ASSUME SixTreeIInv, FinishRound
  PROVE  SixTreeIInv'
<1> DEFINE ns == [S \in Tree |-> IF S \in Range(batch) THEN Finished(nodes[S]) ELSE nodes[S]]
           done == judged \cup aliases
           L == Range(batch') \cup Range(queue')
<1>1. /\ phase = "Scanning" /\ RoundDone
      /\ \E q \in Merges(ns, batch, queue) : Schedule(ns, q)
      /\ UNCHANGED <<aliases, detected, detection, pc, outstanding, issued, judged>>
  BY DEF FinishRound
<1>2. SixTreeTypes /\ SixTreeNodes /\ SixTreePlain
  BY DEF SixTreeIInv
<1>3. /\ Sound(ns, Live) /\ Known(ns, Live, done)
      /\ ~detection => /\ Owned(ns, Live)
                       /\ \A a \in issued : a \in aliases \/ Recalls(ns, Live, aliases, a)
  BY <1>1, <1>2, FinishRoundNodes
<1> HIDE DEF ns
<1>4. PICK q \in Merges(ns, batch, queue) : Schedule(ns, q)
  BY <1>1
<1>5. batch \in Seq(Tree) /\ queue \in Seq(Tree)
  BY <1>2 DEF SixTreeTypes
<1>6. q \in Seq(Tree) /\ Range(q) = Range(batch) \cup Range(queue)
  BY <1>5, MergesRange
<1>7. Range(q) = Live
  BY <1>6 DEF Live
<1>8. aliases \subseteq done /\ Covers(Live, done)
  BY <1>2 DEF SixTreeNodes
<1> HIDE DEF done
<1>a. L = Range(batch') \cup Range(queue')
  OBVIOUS
<1> HIDE DEF L
<1>9. /\ batch' \in Seq(Tree) /\ queue' \in Seq(Tree) /\ Sound(nodes', L)
      /\ Known(nodes', L, done) /\ Covers(L, done)
      /\ batch' = <<>> => queue' = <<>>
      /\ phase' \in {"Scanning", "Detecting"} /\ generation' = NoCursor
      /\ phase' = "Detecting" => batch' # <<>> /\ Range(batch') = {batch'[1]}
  BY <1>3, <1>4, <1>6, <1>7, <1>8, <1>a, ScheduleFacts
<1>10. ~detection => /\ phase' = "Scanning" /\ Owned(nodes', L) /\ Narrow(nodes', Range(batch'))
                     /\ \A a : Recalls(ns, Live, aliases, a) => Recalls(nodes', L, aliases, a)
  BY <1>3, <1>4, <1>6, <1>7, <1>a, SchedulePlain
<1>11. SixTreeTypes'
  <2>1. probes' \in ProbeRounds
    BY <1>3, <1>4, <1>6, ScheduleProbes DEF Sound
  <2>2. nodes' \in [Tree -> Node]
    BY <1>9 DEF Sound
  <2> QED
    BY <1>1, <1>2, <1>9, <2>1, <2>2, NoCursorType DEF SixTreeTypes
<1>12. L = Live' /\ done = (judged \cup aliases)'
  BY <1>1, <1>a DEF Live, done
<1>13. SixTreeNodes'
  BY <1>9, <1>12 DEF SixTreeNodes
<1>14. SixTreePlain'
  BY <1>1, <1>3, <1>9, <1>10, <1>12, NoCursorType DEF SixTreePlain
<1> QED
  BY <1>11, <1>13, <1>14 DEF SixTreeIInv

\* The node that is tested, and what it is marked with.
LEMMA CheckedFacts ==
  ASSUME SixTreeTypes, SixTreeNodes, phase = "Detecting"
  PROVE  /\ batch # <<>> /\ Range(batch) = {batch[1]} /\ batch[1] \in Live /\ batch[1] \in Tree
         /\ nodes[batch[1]] \in Node
         /\ Checked \in [Tree -> Node] /\ Sound(Checked, Live)
         /\ Known(Checked, Live, judged \cup aliases)
<1> DEFINE x == batch[1]
           m == [nodes[x] EXCEPT !.aliasChecked = TRUE]
<1>1. batch # <<>> /\ Range(batch) = {x}
  BY DEF SixTreeNodes
<1>2. x \in Live /\ x \in Tree
  BY <1>1, LiveNow
<1> HIDE DEF x
<1>3. nodes[x] \in Node /\ nodes \in [Tree -> Node]
  BY <1>2 DEF SixTreeTypes
<1>4. /\ m \in Node /\ m.stack = nodes[x].stack /\ m.targets = nodes[x].targets
      /\ m.scanned = nodes[x].scanned /\ m.partial = nodes[x].partial
  BY <1>3 DEF Node
<1>5. Seen(m) = Seen(nodes[x])
  BY <1>4 DEF Seen
<1>6. Checked = [nodes EXCEPT ![x] = m]
  BY DEF Checked, x
<1> HIDE DEF m
<1>7. /\ Checked \in [Tree -> Node] /\ Checked[x] = m
      /\ \A S \in Tree : S # x => Checked[S] = nodes[S]
  BY <1>2, <1>3, <1>4, <1>6
<1>8. Sound(nodes, Live) /\ Known(nodes, Live, judged \cup aliases)
  BY DEF SixTreeNodes
<1>9. Live \subseteq Tree /\ \A S \in Live : /\ Prefix(nodes[S].stack, Stack[S])
                                            /\ nodes[S].targets = Around(S, nodes[S].stack)
  BY LiveNow
<1> HIDE DEF Live
<1>10. \A S \in Live : Prefix(Checked[S].stack, Stack[S]) /\ Checked[S].targets = Around(S, Checked[S].stack)
  BY <1>4, <1>7, <1>9
<1>11. \A S \in Tree \ Live : Checked[S] = nodes[S]
  BY <1>2, <1>7
<1>12. Sound(Checked, Live)
  BY <1>7, <1>8, <1>10, <1>11, SoundChange
<1>13. Known(Checked, Live, judged \cup aliases)
  <2>1. \A S \in Live : Seen(Checked[S]) = Seen(nodes[S])
    BY <1>5, <1>7, <1>9
  <2> QED
    BY <1>8, <2>1 DEF Known
<1> QED
  BY <1>1, <1>2, <1>3, <1>7, <1>12, <1>13 DEF x

\* A cleared node is scanned: the invariant holds of the same batch.
LEMMA ClearSuspectStep ==
  ASSUME SixTreeIInv, ClearSuspect
  PROVE  SixTreeIInv'
<1>1. /\ phase = "Detecting" /\ nodes' = Checked
      /\ phase' = "Scanning" /\ probes' = NoProbes /\ generation' = NoCursor
      /\ UNCHANGED <<queue, batch, aliases, detected, detection, pc, outstanding, issued, judged>>
  BY DEF ClearSuspect
<1>2. SixTreeTypes /\ SixTreeNodes /\ SixTreePlain
  BY DEF SixTreeIInv
<1>3. /\ Checked \in [Tree -> Node] /\ Sound(Checked, Live)
      /\ Known(Checked, Live, judged \cup aliases)
  BY <1>1, <1>2, CheckedFacts
<1>4. detection
  BY <1>1, <1>2 DEF SixTreePlain
<1>5. SixTreeTypes'
  BY <1>1, <1>2, <1>3, NoCursorType, RoundsFacts DEF SixTreeTypes
<1>6. Live' = Live
  BY <1>1 DEF Live
<1>7. SixTreeNodes'
  BY <1>1, <1>2, <1>3, <1>6 DEF SixTreeNodes
<1>8. SixTreePlain'
  BY <1>1, <1>4 DEF SixTreePlain
<1> QED
  BY <1>5, <1>7, <1>8 DEF SixTreeIInv

\* A node put off as an alias goes back to the queue.
LEMMA MarkAliasStep ==
  ASSUME SixTreeIInv, MarkAlias
  PROVE  SixTreeIInv'
<1> DEFINE low    == [num |-> 1, den |-> Max({ProbeCount(Tested), 1})]
           behind == {i \in DOMAIN queue : AtLeast(low, Density(nodes[queue[i]]))}
           at     == Min(behind \cup {Len(queue) + 1})
           q      == InsertAt(queue, at, batch[1])
           done == judged \cup aliases
           L == Range(batch') \cup Range(queue')
<1>1. /\ phase = "Detecting" /\ detected' = detected \cup Covering(Tested)
      /\ Schedule(Checked, q)
      /\ UNCHANGED <<aliases, detection, pc, outstanding, issued, judged>>
  BY DEF MarkAlias
<1>2. SixTreeTypes /\ SixTreeNodes /\ SixTreePlain
  BY DEF SixTreeIInv
<1>3. /\ batch # <<>> /\ Range(batch) = {batch[1]} /\ batch[1] \in Live /\ batch[1] \in Tree
      /\ Checked \in [Tree -> Node] /\ Sound(Checked, Live)
      /\ Known(Checked, Live, done)
  BY <1>1, <1>2, CheckedFacts
<1>4. queue \in Seq(Tree) /\ DOMAIN queue = 1..Len(queue) /\ Len(queue) \in Nat
  BY <1>2 DEF SixTreeTypes
<1>5. at \in 1..(Len(queue) + 1)
  <2>1. behind \subseteq 1..Len(queue)
    BY <1>4
  <2> DEFINE B == behind \cup {Len(queue) + 1}
  <2>2. B \in SUBSET Nat /\ B \in SUBSET (1..(Len(queue) + 1)) /\ B # {}
    BY <1>4, <2>1
  <2> HIDE DEF B
  <2>3. Min(B) \in B
    BY <2>2, MinFacts
  <2> QED
    BY <2>2, <2>3 DEF B
<1> HIDE DEF at, behind
<1>6. q \in Seq(Tree) /\ Range(q) = Range(queue) \cup {batch[1]}
  BY <1>3, <1>4, <1>5, InsertRange
<1>7. Range(q) = Live
  BY <1>3, <1>6 DEF Live
<1> HIDE DEF q
<1>8. aliases \subseteq done /\ Covers(Live, done)
  BY <1>2 DEF SixTreeNodes
<1> HIDE DEF done
<1>a. L = Range(batch') \cup Range(queue')
  OBVIOUS
<1> HIDE DEF L
<1>9. /\ batch' \in Seq(Tree) /\ queue' \in Seq(Tree) /\ Sound(nodes', L)
      /\ Known(nodes', L, done) /\ Covers(L, done)
      /\ batch' = <<>> => queue' = <<>>
      /\ phase' \in {"Scanning", "Detecting"} /\ generation' = NoCursor
      /\ phase' = "Detecting" => batch' # <<>> /\ Range(batch') = {batch'[1]}
  BY <1>1, <1>3, <1>6, <1>7, <1>8, <1>a, ScheduleFacts
<1>10. detection
  BY <1>1, <1>2 DEF SixTreePlain
<1>11. SixTreeTypes'
  <2>1. probes' \in ProbeRounds
    BY <1>1, <1>3, <1>6, ScheduleProbes
  <2>2. nodes' \in [Tree -> Node]
    BY <1>9 DEF Sound
  <2>3. detected' \subseteq SUBSET Addr
    BY <1>1, <1>2 DEF Covering, SixTreeTypes
  <2> QED
    BY <1>1, <1>2, <1>9, <2>1, <2>2, <2>3, NoCursorType DEF SixTreeTypes
<1>12. L = Live' /\ done = (judged \cup aliases)'
  BY <1>1, <1>a DEF Live, done
<1>13. SixTreeNodes'
  BY <1>9, <1>12 DEF SixTreeNodes
<1>14. SixTreePlain'
  BY <1>1, <1>10 DEF SixTreePlain
<1> QED
  BY <1>11, <1>13, <1>14 DEF SixTreeIInv

\* Where one node is tested, one is tested when its parent takes its place.
LEMMA ReplacedOne ==
  ASSUME NEW st, Structured(st), NEW x, Range(st.batch) = {x}
  PROVE  \E y \in Tree : Range(Replaced(st).batch) = {y}
<1> DEFINE P == Promotions(st)
           G == Gone(st)
           r == Replaced(st)
<1>1. /\ Range(r.batch) = (Range(st.batch) \ G) \cup P
      /\ \A Q \in G : \E T \in P : Below(Q, T)
  BY ReplacedFacts
<1>2. \A T \in P : T \in Tree /\ Source(st, T) = x /\ Parent[x] = T /\ ReachesParent(st, x)
  BY PromotionsFacts
<1>3. x \in LiveIn(st) /\ x \in Tree
  BY LiveFacts
<1> HIDE DEF r
<1>4. CASE P = {}
  <2>1. G = {}
    BY <1>1, <1>4
  <2> HIDE DEF P, G
  <2>2. Range(r.batch) = {x}
    BY <1>1, <1>4, <2>1
  <2> QED
    BY <1>3, <2>2 DEF r
<1>5. ASSUME NEW T \in P PROVE Range(r.batch) = {T} /\ T \in Tree
  <2>1. P = {T}
    BY <1>2
  <2>2. x \notin Roots
    BY <1>2, <1>3, Reaching
  <2>3. Below(x, T)
    BY <1>2, <1>3, <2>2, ParentFacts
  <2>4. x \in G
    BY <1>3, <2>1, <2>3 DEF Gone, Lower, LiveIn
  <2> QED
    BY <1>1, <1>2, <2>1, <2>4
<1> QED
  BY <1>4, <1>5 DEF r

\* A suspicious node is widened, and its parent may take its place.
LEMMA WidenSuspectStep ==
  ASSUME SixTreeIInv, WidenSuspect
  PROVE  SixTreeIInv'
<1> DEFINE x == batch[1]
           m == Expanded(nodes[x])
           ns == [nodes EXCEPT ![x] = m]
           st == [nodes |-> ns, batch |-> batch, queue |-> queue]
           r  == Replaced(st)
           done == judged \cup aliases
<1>1. /\ phase = "Detecting"
      /\ nodes' = r.nodes /\ batch' = r.batch /\ queue' = r.queue
      /\ StartDetection(r.nodes[r.batch[1]])
      /\ UNCHANGED <<aliases, detected, detection, pc, outstanding, issued, judged>>
  BY DEF WidenSuspect
<1>2. SixTreeTypes /\ SixTreeNodes /\ SixTreePlain
  BY DEF SixTreeIInv
<1>3. batch # <<>> /\ Range(batch) = {x} /\ x \in Live /\ x \in Tree /\ nodes[x] \in Node
  BY <1>1, <1>2, CheckedFacts
<1>4. /\ Live \subseteq Tree
      /\ \A S \in Live : /\ Prefix(nodes[S].stack, Stack[S])
                         /\ nodes[S].targets = Around(S, nodes[S].stack)
  BY <1>2, LiveNow
<1>5. nodes \in [Tree -> Node] /\ batch \in Seq(Tree) /\ queue \in Seq(Tree)
  BY <1>2 DEF SixTreeTypes
<1>6. Sound(nodes, Live) /\ Known(nodes, Live, done) /\ Covers(Live, done)
  BY <1>2 DEF SixTreeNodes
<1> HIDE DEF x
<1>7. /\ m \in Node /\ Seen(m) = Seen(nodes[x])
      /\ Prefix(m.stack, Stack[x]) /\ m.targets = Around(x, m.stack)
  <2> DEFINE n == nodes[x]
  <2>1. n \in Node /\ Prefix(n.stack, Stack[x]) /\ n.targets = Around(x, n.stack)
    BY <1>3, <1>4
  <2> HIDE DEF n
  <2>2. /\ Expanded(n) \in Node
        /\ Expanded(n).scanned = n.scanned /\ Expanded(n).partial = n.partial
        /\ n.stack = <<>> => Expanded(n) = n
        /\ n.stack # <<>> => /\ Expanded(n).stack = Front(n.stack)
                             /\ Expanded(n).targets = Widened(n.targets, Last(n.stack))
    BY <2>1, ExpandedFacts
  <2>3. Seen(Expanded(n)) = Seen(n)
    BY <2>2 DEF Seen
  <2>4. CASE n.stack = <<>>
    BY <2>1, <2>2, <2>4 DEF n
  <2>5. CASE n.stack # <<>>
    <3>1. Prefix(Front(n.stack), Stack[x]) /\ Widened(n.targets, Last(n.stack)) = Around(x, Front(n.stack))
      BY <1>3, <2>1, <2>5, WidenedShape
    <3> QED
      BY <2>2, <2>3, <2>5, <3>1 DEF n
  <2> QED
    BY <2>4, <2>5
<1> HIDE DEF m
<1>8. /\ ns \in [Tree -> Node] /\ ns[x] = m
      /\ \A S \in Tree : S # x => ns[S] = nodes[S]
  BY <1>3, <1>5, <1>7
<1> HIDE DEF ns
<1>9. st.nodes = ns /\ st.batch = batch /\ st.queue = queue
  OBVIOUS
<1> HIDE DEF st
<1>10. LiveIn(st) = Live
  BY <1>9 DEF LiveIn, Live
<1> HIDE DEF Live
<1>11. Sound(ns, Live)
  <2>1. \A S \in Live : Prefix(ns[S].stack, Stack[S]) /\ ns[S].targets = Around(S, ns[S].stack)
    BY <1>4, <1>7, <1>8
  <2>2. \A S \in Tree \ Live : ns[S] = nodes[S]
    BY <1>3, <1>8
  <2> QED
    BY <1>6, <1>8, <2>1, <2>2, SoundChange
<1>12. Known(ns, Live, done)
  <2>1. \A S \in Live : Seen(ns[S]) = Seen(nodes[S])
    BY <1>4, <1>7, <1>8
  <2> QED
    BY <1>6, <2>1 DEF Known
<1>13. Structured(st)
  BY <1>5, <1>9, <1>10, <1>11 DEF Structured
<1>14. Structured(r)
  BY <1>13, ReplacedFacts
<1> HIDE DEF done
<1>15. Known(r.nodes, LiveIn(r), done) /\ Covers(LiveIn(r), done)
  BY <1>6, <1>9, <1>10, <1>12, <1>13, ReplacedKnown
<1>16. PICK y \in Tree : Range(r.batch) = {y}
  BY <1>3, <1>9, <1>13, ReplacedOne
<1> HIDE DEF r
<1>17. r.batch \in Seq(Tree) /\ r.queue \in Seq(Tree) /\ Sound(r.nodes, LiveIn(r)) /\ r.nodes \in [Tree -> Node]
  BY <1>14 DEF Structured, Sound
<1>18. r.batch # <<>> /\ r.batch[1] = y
  <2> DEFINE b == r.batch
  <2>1. b \in Seq(Tree) /\ Range(b) = {y}
    BY <1>16, <1>17
  <2> HIDE DEF b
  <2>2. b # <<>>
    BY <2>1, EmptyRange
  <2>3. 1 \in DOMAIN b
    BY <2>1, <2>2
  <2>4. b[1] = y
    BY <2>1, <2>3 DEF Range
  <2> QED
    BY <2>2, <2>4 DEF b
<1>19. probes' \in ProbeRounds /\ phase' = "Detecting" /\ generation' = NoCursor
  <2>1. r.nodes[r.batch[1]] \in Node
    BY <1>17, <1>18
  <2> QED
    BY <1>1, <2>1, StartFacts
<1>20. detection
  BY <1>1, <1>2 DEF SixTreePlain
<1>21. SixTreeTypes'
  BY <1>1, <1>2, <1>17, <1>19, NoCursorType DEF SixTreeTypes
<1>22. LiveIn(r) = Live' /\ done = (judged \cup aliases)'
  BY <1>1 DEF LiveIn, Live, done
<1>23. SixTreeNodes'
  BY <1>1, <1>15, <1>16, <1>17, <1>18, <1>22 DEF SixTreeNodes
<1>24. SixTreePlain'
  BY <1>1, <1>20 DEF SixTreePlain
<1> QED
  BY <1>21, <1>23, <1>24 DEF SixTreeIInv

\* generate() is called: nothing the invariant speaks of changes but pc.
LEMMA GenerateStep ==
  ASSUME SixTreeIInv, Generate
  PROVE  SixTreeIInv'
<1>1. /\ pc' = "asked"
      /\ UNCHANGED <<nodes, queue, batch, phase, probes, generation, aliases, detected, detection>>
      /\ UNCHANGED <<outstanding, issued, judged>>
  BY DEF Generate, mvars
<1>2. SixTreeTypes /\ SixTreeNodes /\ SixTreePlain
  BY DEF SixTreeIInv
<1>3. Live' = Live /\ BatchFrontier' = BatchFrontier
  BY <1>1 DEF Live, BatchFrontier, Pending
<1>4. SixTreeTypes'
  BY <1>1, <1>2 DEF SixTreeTypes
<1>5. SixTreeNodes'
  BY <1>1, <1>2, <1>3 DEF SixTreeNodes
<1>6. SixTreePlain'
  BY <1>1, <1>2, <1>3 DEF SixTreePlain
<1> QED
  BY <1>4, <1>5, <1>6 DEF SixTreeIInv

\* apply_feedback() returns: the round is not done.
LEMMA ReturnStep ==
  ASSUME SixTreeIInv, Return
  PROVE  SixTreeIInv'
<1>1. /\ pc' = "idle" /\ Settled
      /\ UNCHANGED <<nodes, queue, batch, phase, probes, generation, aliases, detected, detection>>
      /\ UNCHANGED <<outstanding, issued, judged>>
  BY DEF Return, mvars
<1>2. SixTreeTypes /\ SixTreeNodes /\ SixTreePlain
  BY DEF SixTreeIInv
<1>3. Live' = Live /\ BatchFrontier' = BatchFrontier
  BY <1>1 DEF Live, BatchFrontier, Pending
<1>4. RoundDone' = RoundDone
  BY <1>1 DEF RoundDone, HasFrontier, Frontier
<1>5. SixTreeTypes'
  BY <1>1, <1>2 DEF SixTreeTypes
<1>6. SixTreeNodes'
  BY <1>1, <1>2, <1>3 DEF SixTreeNodes
<1>7. SixTreePlain'
  BY <1>1, <1>2, <1>3, <1>4 DEF SixTreePlain, Settled
<1> QED
  BY <1>5, <1>6, <1>7 DEF SixTreeIInv

\* What a scanning round has yet to generate: addresses its nodes scan, no aliases,
\* that none of them has seen.
Wanted(ns, B, al, a) ==
  /\ \E S \in B : a \in ns[S].targets
  /\ a \notin al
  /\ \A S \in B : a \notin Seen(ns[S])

\* The two ways to say what is yet to be generated agree.
LEMMA FrontierFacts ==
  ASSUME SixTreeTypes
  PROVE  /\ BatchFrontier \subseteq Addr
         /\ phase = "Scanning" =>
              \A a : a \in BatchFrontier <=> Wanted(nodes, Range(batch), aliases, a)
<1>1. phase \in {"Scanning", "Detecting"} /\ probes \in ProbeRounds
  BY DEF SixTreeTypes
<1>2. CASE phase = "Detecting"
  <2>1. DOMAIN probes \in SUBSET Addr
    BY <1>1, RoundsFacts
  <2> QED
    BY <1>2, <2>1 DEF BatchFrontier, Pending
<1>3. CASE phase = "Scanning"
  <2>1. \A S \in Range(batch) : S \in Tree
    BY DEF SixTreeTypes, Range
  <2>2. \A S \in Range(batch) : nodes[S].targets \subseteq Addr
    BY <2>1 DEF SixTreeTypes, Node
  <2> DEFINE BF == BatchFrontier
  <2> DEFINE K == {nodes[S] : S \in Range(batch)}
             U1 == UNION {n.targets : n \in K}
             U2 == UNION {n.scanned \cup DOMAIN n.partial : n \in K}
  <2>6. BF = (U1 \ aliases) \ U2
    BY <1>3 DEF BatchFrontier
  <2> HIDE DEF BF
  <2>7. \A a : a \in U1 <=> \E S \in Range(batch) : a \in nodes[S].targets
    OBVIOUS
  <2>3. \A a : a \in U2 <=> \E S \in Range(batch) : a \in Seen(nodes[S])
    BY DEF Seen
  <2> HIDE DEF U1, U2, K
  <2>8. \A a : a \in BF <=> a \in U1 /\ a \notin aliases /\ a \notin U2
    BY <2>6
  <2>4. \A a : a \in BF <=> Wanted(nodes, Range(batch), aliases, a)
    BY <2>3, <2>7, <2>8, Zenon DEF Wanted
  <2>5. BF \subseteq Addr
    BY <2>2, <2>4 DEF Wanted
  <2> QED
    BY <1>3, <2>4, <2>5 DEF BF
<1> QED
  BY <1>1, <1>2, <1>3

\* generate() returns addresses of the frontier, and the cursor keeps the rest.
LEMMA EmitStep ==
  ASSUME SixTreeIInv, Emit
  PROVE  SixTreeIInv'
<1> DEFINE todo == IF generation.on THEN generation.left ELSE BatchFrontier
<1>1. /\ pc = "asked" /\ Settled /\ pc' = "idle"
      /\ \E n \in Buffers : \E out \in SUBSET todo :
           /\ Cardinality(out) = Min({n, Cardinality(todo)})
           /\ generation' = [on |-> TRUE, left |-> todo \ out]
           /\ outstanding' = outstanding \cup out
           /\ issued' = IF phase = "Scanning" THEN issued \cup out ELSE issued
      /\ UNCHANGED <<nodes, queue, batch, phase, probes, aliases, detected, detection, judged>>
  BY DEF Emit
<1>2. SixTreeTypes /\ SixTreeNodes /\ SixTreePlain
  BY DEF SixTreeIInv
<1> HIDE DEF todo
<1>3. PICK out \in SUBSET todo :
           /\ generation' = [on |-> TRUE, left |-> todo \ out]
           /\ outstanding' = outstanding \cup out
           /\ issued' = IF phase = "Scanning" THEN issued \cup out ELSE issued
  BY <1>1
<1>4. generation'.on = TRUE /\ generation'.left = todo \ out
  BY <1>3
<1>5. todo \subseteq Addr
  BY <1>2, FrontierFacts DEF todo, SixTreeTypes
<1>6. generation' \in [on : BOOLEAN, left : SUBSET Addr]
  BY <1>3, <1>5
<1>7. Live' = Live /\ BatchFrontier' = BatchFrontier
  BY <1>1 DEF Live, BatchFrontier, Pending
<1>8. RoundDone' = RoundDone
  BY <1>1 DEF RoundDone, HasFrontier, Frontier
<1>9. SixTreeTypes'
  <2>1. issued' \subseteq Addr /\ outstanding' \subseteq Addr
    BY <1>2, <1>3, <1>5 DEF SixTreeTypes
  <2> QED
    BY <1>1, <1>2, <1>6, <2>1 DEF SixTreeTypes
<1>10. SixTreeNodes'
  BY <1>1, <1>2, <1>7 DEF SixTreeNodes
<1>11. SixTreePlain'
  <2> SUFFICES ASSUME ~detection
               PROVE  /\ phase' = "Scanning"
                      /\ Owned(nodes', Live') /\ Narrow(nodes', Range(batch'))
                      /\ generation'.left \subseteq BatchFrontier'
                      /\ BatchFrontier' \subseteq generation'.left \cup outstanding'
                      /\ ~RoundDone'
                      /\ \A a \in issued' : \/ a \in aliases'
                                            \/ Recalls(nodes', Live', aliases', a)
                                            \/ a \in outstanding' /\ \E S \in Range(batch') : a \in nodes'[S].targets
    BY <1>1 DEF SixTreePlain
  <2>1. /\ phase = "Scanning"
        /\ Owned(nodes, Live) /\ Narrow(nodes, Range(batch))
        /\ generation.on => /\ generation.left \subseteq BatchFrontier
                            /\ BatchFrontier \subseteq generation.left \cup outstanding
        /\ \A a \in issued : \/ a \in aliases
                             \/ Recalls(nodes, Live, aliases, a)
                             \/ a \in outstanding /\ \E S \in Range(batch) : a \in nodes[S].targets
    BY <1>2 DEF SixTreePlain
  <2>2. todo \subseteq BatchFrontier /\ BatchFrontier \subseteq todo \cup outstanding
    BY <2>1 DEF todo
  <2>3. \A a \in out : \E S \in Range(batch) : a \in nodes[S].targets
    BY <1>2, <2>1, <2>2, FrontierFacts DEF Wanted
  <2>4. ASSUME NEW a \in issued'
        PROVE  \/ a \in aliases
               \/ Recalls(nodes, Live, aliases, a)
               \/ a \in outstanding' /\ \E S \in Range(batch) : a \in nodes[S].targets
    <3>1. a \in issued \/ a \in out
      BY <1>3, <2>1
    <3> QED
      BY <1>3, <2>1, <2>3, <3>1
  <2>5. ~RoundDone
    BY <1>1, <2>1 DEF Settled
  <2> QED
    BY <1>1, <1>3, <1>4, <1>7, <1>8, <2>1, <2>2, <2>4, <2>5
<1> QED
  BY <1>9, <1>10, <1>11 DEF SixTreeIInv

-----------------------------------------------------------------------------
(* Feedback.                                                                  *)

\* A node notes what it had not scanned; it remembers all that it had seen.
LEMMA NotedFacts ==
  ASSUME NEW n \in Node, NEW D \in SUBSET Addr, NEW v \in [D -> Outcome]
  PROVE  /\ Noted(n, v) \in Node
         /\ Noted(n, v).stack = n.stack /\ Noted(n, v).targets = n.targets
         /\ Seen(Noted(n, v)) = Seen(n) \cup Recorded(n, v)
         /\ Recorded(n, v) \subseteq n.targets /\ Recorded(n, v) \subseteq D
         /\ \A a \in D : a \in n.targets => a \in Seen(n) \cup Recorded(n, v)
<1> DEFINE R == Recorded(n, v)
           p == [a \in DOMAIN n.partial \cup R |->
                   IF a \notin R THEN n.partial[a]
                   ELSE IF a \in DOMAIN n.partial THEN Merged(n.partial[a], v[a]) ELSE v[a]]
           u == n.active \cup {a \in R : v[a] = "Active"}
           m == [n EXCEPT !.partial = p, !.active = u]
<1>1. R \subseteq n.targets /\ R \subseteq D /\ R \subseteq Addr
      /\ \A a \in D : a \in n.targets => a \in n.scanned \/ a \in R
  BY DEF Recorded
<1>2. Noted(n, v) = m
  BY DEF Noted
<1>3. n.partial \in Outcomes /\ n.active \in SUBSET Addr
  BY DEF Node
<1> HIDE DEF R
<1>4. p \in Outcomes /\ DOMAIN p = DOMAIN n.partial \cup R
  <2> DEFINE E == DOMAIN n.partial \cup R
  <2>1. E \in SUBSET Addr
    BY <1>1, <1>3, OutcomesFacts
  <2>2. \A a \in DOMAIN n.partial : n.partial[a] \in Outcome
    BY <1>3 DEF Outcomes
  <2>3. \A a \in R : v[a] \in Outcome
    BY <1>1
  <2>4. \A o, q : Merged(o, q) \in Outcome
    BY DEF Merged, Outcome
  <2>5. \A a \in E : p[a] \in Outcome
    BY <2>2, <2>3, <2>4
  <2>6. p \in [E -> Outcome]
    BY <2>5
  <2> HIDE DEF p, E
  <2>7. p \in Outcomes
    BY <2>1, <2>6 DEF Outcomes
  <2>8. DOMAIN p = E
    BY <2>6
  <2> QED
    BY <2>7, <2>8 DEF E
<1>5. u \in SUBSET Addr
  BY <1>1, <1>3
<1> HIDE DEF p, u
<1>6. m \in Node
  BY <1>4, <1>5 DEF Node
<1>7. m.stack = n.stack /\ m.targets = n.targets /\ m.scanned = n.scanned /\ m.partial = p
  BY DEF Node
<1> HIDE DEF m
<1>8. Seen(m) = Seen(n) \cup R
  BY <1>4, <1>7 DEF Seen
<1>9. \A a \in D : a \in n.targets => a \in Seen(n) \cup R
  BY <1>1 DEF Seen
<1> QED
  BY <1>1, <1>2, <1>6, <1>7, <1>8, <1>9 DEF R

\* A verdict on a probe leaves a round of probes.
LEMMA HeardFacts ==
  ASSUME NEW r \in ProbeRounds, NEW C, NEW D \in SUBSET Addr, NEW v \in [D -> Outcome]
  PROVE  Heard(Excluded(r, C), v) \in ProbeRounds
<1> DEFINE E == DOMAIN r
           x == Excluded(r, C)
           h == Heard(x, v)
<1>1. E \in SUBSET Addr /\ \A a \in E : r[a] \in Outcome \cup {"none"}
  BY RoundsFacts
<1>2. DOMAIN x = E /\ \A a \in E : x[a] \in Outcome \cup {"none"}
  BY <1>1 DEF Excluded, Outcome
<1> HIDE DEF x, E
<1>3. \A o, q : Merged(o, q) \in Outcome
  BY DEF Merged, Outcome
<1>4. h = [a \in E |-> IF a \notin DOMAIN v THEN x[a]
                       ELSE IF x[a] = "none" THEN v[a] ELSE Merged(x[a], v[a])]
  BY <1>2 DEF Heard
<1> HIDE DEF h
<1>5. h \in [E -> Outcome \cup {"none"}]
  BY <1>2, <1>3, <1>4
<1>6. h \in ProbeRounds
  BY <1>1, <1>5, RoundsFacts
<1> QED
  BY <1>6 DEF h, x

\* More verdicts cover no less.
LEMMA CoversMore ==
  ASSUME NEW L, NEW done, NEW more, done \subseteq more, Covers(L, done)
  PROVE  Covers(L, more)
BY DEF Covers

\* What is given in one call: prefixes C, and verdicts v on generated addresses.
LEMMA FeedbackIs ==
  ASSUME SixTreeTypes, ApplyFeedback
  PROVE  \E C \in SUBSET Addr, A \in SUBSET outstanding : \E v \in [A \ (aliases \cup C) -> Outcome] :
           /\ aliases' = aliases \cup C
           /\ probes' = IF phase = "Detecting" THEN Heard(Excluded(probes, C), v) ELSE probes
           /\ nodes' = [S \in Tree |-> IF phase = "Scanning" /\ S \in Range(batch)
                                         THEN Noted(nodes[S], v) ELSE nodes[S]]
           /\ \E noted : /\ generation' = [generation EXCEPT !.left = @ \ (C \cup noted)]
                         /\ phase = "Scanning" =>
                              noted = UNION {Recorded(nodes[S], v) : S \in Range(batch)}
           /\ judged' = IF phase = "Scanning" THEN judged \cup A ELSE judged
           /\ outstanding' = outstanding \ A
           /\ pc' = "fed"
           /\ UNCHANGED <<queue, batch, phase, detected, detection, issued>>
<1>1. PICK C \in Alias \cup {{}}, A \in SUBSET outstanding :
       /\ aliases' = aliases \cup C
       /\ \E verdict \in {f \in [A -> UNION Range(Verdicts)] : \A a \in A : f[a] \in Verdicts[a]} :
            LET v     == [a \in A \ aliases' |-> verdict[a]]
                noted == IF phase = "Detecting"
                           THEN {a \in DOMAIN v \cap DOMAIN probes :
                                   Heard(Excluded(probes, C), v)[a] # Excluded(probes, C)[a]}
                           ELSE UNION {Recorded(nodes[S], v) : S \in Range(batch)}
            IN  /\ probes' = IF phase = "Detecting" THEN Heard(Excluded(probes, C), v) ELSE probes
                /\ nodes' = [S \in Tree |-> IF phase = "Scanning" /\ S \in Range(batch)
                                              THEN Noted(nodes[S], v) ELSE nodes[S]]
                /\ generation' = [generation EXCEPT !.left = @ \ (C \cup noted)]
       /\ judged' = IF phase = "Scanning" THEN judged \cup A ELSE judged
       /\ outstanding' = outstanding \ A
       /\ pc' = "fed"
       /\ UNCHANGED <<queue, batch, phase, detected, detection, issued>>
  BY DEF ApplyFeedback
<1>2. PICK verdict \in {f \in [A -> UNION Range(Verdicts)] : \A a \in A : f[a] \in Verdicts[a]} :
            LET v     == [a \in A \ aliases' |-> verdict[a]]
                noted == IF phase = "Detecting"
                           THEN {a \in DOMAIN v \cap DOMAIN probes :
                                   Heard(Excluded(probes, C), v)[a] # Excluded(probes, C)[a]}
                           ELSE UNION {Recorded(nodes[S], v) : S \in Range(batch)}
            IN  /\ probes' = IF phase = "Detecting" THEN Heard(Excluded(probes, C), v) ELSE probes
                /\ nodes' = [S \in Tree |-> IF phase = "Scanning" /\ S \in Range(batch)
                                              THEN Noted(nodes[S], v) ELSE nodes[S]]
                /\ generation' = [generation EXCEPT !.left = @ \ (C \cup noted)]
  BY <1>1
<1> DEFINE D == A \ (aliases \cup C)
           v == [a \in A \ aliases' |-> verdict[a]]
           noted == IF phase = "Detecting"
                      THEN {a \in DOMAIN v \cap DOMAIN probes :
                              Heard(Excluded(probes, C), v)[a] # Excluded(probes, C)[a]}
                      ELSE UNION {Recorded(nodes[S], v) : S \in Range(batch)}
<1>3. /\ probes' = IF phase = "Detecting" THEN Heard(Excluded(probes, C), v) ELSE probes
      /\ nodes' = [S \in Tree |-> IF phase = "Scanning" /\ S \in Range(batch)
                                    THEN Noted(nodes[S], v) ELSE nodes[S]]
      /\ generation' = [generation EXCEPT !.left = @ \ (C \cup noted)]
  BY <1>2
<1>4. C \in SUBSET Addr
  BY SixTreeAssumption
<1>5. v \in [D -> Outcome]
  <2>1. \A a \in D : a \in Addr /\ verdict[a] \in Verdicts[a]
    BY <1>2 DEF SixTreeTypes
  <2>2. \A a \in Addr : Verdicts[a] \subseteq Outcome
    BY SixTreeAssumption DEF Outcome
  <2>3. A \ aliases' = D
    BY <1>1
  <2> QED
    BY <2>1, <2>2, <2>3
<1>6. phase = "Scanning" => noted = UNION {Recorded(nodes[S], v) : S \in Range(batch)}
  OBVIOUS
<1> HIDE DEF v, noted
<1> QED
  BY <1>1, <1>3, <1>4, <1>5, <1>6 DEF D

\* Feedback adds to what nodes have seen and takes it from the frontier.
LEMMA ApplyFeedbackStep ==
  ASSUME SixTreeIInv, ApplyFeedback
  PROVE  SixTreeIInv'
<1>1. SixTreeTypes /\ SixTreeNodes /\ SixTreePlain
  BY DEF SixTreeIInv
<1>2. PICK C \in SUBSET Addr, A \in SUBSET outstanding : \E v \in [A \ (aliases \cup C) -> Outcome] :
           /\ aliases' = aliases \cup C
           /\ probes' = IF phase = "Detecting" THEN Heard(Excluded(probes, C), v) ELSE probes
           /\ nodes' = [S \in Tree |-> IF phase = "Scanning" /\ S \in Range(batch)
                                         THEN Noted(nodes[S], v) ELSE nodes[S]]
           /\ \E noted : /\ generation' = [generation EXCEPT !.left = @ \ (C \cup noted)]
                         /\ phase = "Scanning" =>
                              noted = UNION {Recorded(nodes[S], v) : S \in Range(batch)}
           /\ judged' = IF phase = "Scanning" THEN judged \cup A ELSE judged
           /\ outstanding' = outstanding \ A
           /\ pc' = "fed"
           /\ UNCHANGED <<queue, batch, phase, detected, detection, issued>>
  BY <1>1, FeedbackIs
<1> DEFINE D == A \ (aliases \cup C)
<1>3. PICK v \in [D -> Outcome] :
           /\ probes' = IF phase = "Detecting" THEN Heard(Excluded(probes, C), v) ELSE probes
           /\ nodes' = [S \in Tree |-> IF phase = "Scanning" /\ S \in Range(batch)
                                         THEN Noted(nodes[S], v) ELSE nodes[S]]
           /\ \E noted : /\ generation' = [generation EXCEPT !.left = @ \ (C \cup noted)]
                         /\ phase = "Scanning" =>
                              noted = UNION {Recorded(nodes[S], v) : S \in Range(batch)}
  BY <1>2
<1>4. PICK noted : /\ generation' = [generation EXCEPT !.left = @ \ (C \cup noted)]
                   /\ phase = "Scanning" =>
                        noted = UNION {Recorded(nodes[S], v) : S \in Range(batch)}
  BY <1>3
<1>5. /\ aliases' = aliases \cup C /\ outstanding' = outstanding \ A /\ pc' = "fed"
      /\ judged' = IF phase = "Scanning" THEN judged \cup A ELSE judged
      /\ UNCHANGED <<queue, batch, phase, detected, detection, issued>>
  BY <1>2
<1>6. D \in SUBSET Addr /\ A \subseteq Addr /\ D \subseteq A /\ \A a \in A : a \in D \/ a \in aliases'
  BY <1>1, <1>5 DEF SixTreeTypes
<1> HIDE DEF D
<1>7. generation \in [on : BOOLEAN, left : SUBSET Addr] /\ probes \in ProbeRounds
      /\ phase \in {"Scanning", "Detecting"}
  BY <1>1 DEF SixTreeTypes
<1>8. generation'.on = generation.on /\ generation'.left = generation.left \ (C \cup noted)
      /\ generation' \in [on : BOOLEAN, left : SUBSET Addr]
  BY <1>4, <1>7
<1>9. probes' \in ProbeRounds
  BY <1>3, <1>6, <1>7, HeardFacts
<1>10. /\ Live \subseteq Tree /\ Range(batch) \subseteq Live
       /\ \A S \in Tree : nodes[S] \in Node
       /\ \A S \in Live : /\ Prefix(nodes[S].stack, Stack[S])
                          /\ nodes[S].targets = Around(S, nodes[S].stack)
  BY <1>1, LiveNow
<1>11. Live' = Live
  BY <1>5 DEF Live
<1>12. /\ \A S \in Tree : phase = "Scanning" /\ S \in Range(batch) => nodes'[S] = Noted(nodes[S], v)
       /\ \A S \in Tree : ~(phase = "Scanning" /\ S \in Range(batch)) => nodes'[S] = nodes[S]
       /\ DOMAIN nodes' = Tree /\ nodes' = [S \in Tree |-> nodes'[S]]
  BY <1>3
<1>13. \A S \in Tree : /\ nodes'[S] \in Node /\ nodes'[S].stack = nodes[S].stack
                       /\ nodes'[S].targets = nodes[S].targets
                       /\ Seen(nodes[S]) \subseteq Seen(nodes'[S])
  <2> SUFFICES ASSUME NEW S \in Tree
               PROVE  /\ nodes'[S] \in Node /\ nodes'[S].stack = nodes[S].stack
                      /\ nodes'[S].targets = nodes[S].targets
                      /\ Seen(nodes[S]) \subseteq Seen(nodes'[S])
    OBVIOUS
  <2>1. CASE phase = "Scanning" /\ S \in Range(batch)
    <3>1. nodes[S] \in Node /\ nodes'[S] = Noted(nodes[S], v)
      BY <1>10, <1>12, <2>1
    <3> DEFINE n == nodes[S]
    <3>2. n \in Node
      BY <3>1
    <3> HIDE DEF n
    <3>3. /\ Noted(n, v) \in Node /\ Noted(n, v).stack = n.stack /\ Noted(n, v).targets = n.targets
          /\ Seen(Noted(n, v)) = Seen(n) \cup Recorded(n, v)
      BY <1>6, <3>2, NotedFacts
    <3> QED
      BY <3>1, <3>3 DEF n
  <2>2. CASE ~(phase = "Scanning" /\ S \in Range(batch))
    BY <1>10, <1>12, <2>2
  <2> QED
    BY <2>1, <2>2
<1>14. \A S \in Range(batch) : phase = "Scanning" =>
         /\ Seen(nodes'[S]) = Seen(nodes[S]) \cup Recorded(nodes[S], v)
         /\ Recorded(nodes[S], v) \subseteq nodes[S].targets /\ Recorded(nodes[S], v) \subseteq D
         /\ \A a \in D : a \in nodes[S].targets => a \in Seen(nodes'[S])
  <2> SUFFICES ASSUME NEW S \in Range(batch), phase = "Scanning"
               PROVE  /\ Seen(nodes'[S]) = Seen(nodes[S]) \cup Recorded(nodes[S], v)
                      /\ Recorded(nodes[S], v) \subseteq nodes[S].targets /\ Recorded(nodes[S], v) \subseteq D
                      /\ \A a \in D : a \in nodes[S].targets => a \in Seen(nodes'[S])
    OBVIOUS
  <2>1. nodes[S] \in Node /\ nodes'[S] = Noted(nodes[S], v)
    BY <1>10, <1>12
  <2> QED
    BY <1>6, <2>1, NotedFacts
<1>15. nodes' \in [Tree -> Node]
  <2> DEFINE ns == nodes'
  <2>1. ns = [S \in Tree |-> ns[S]] /\ \A S \in Tree : ns[S] \in Node
    BY <1>12, <1>13
  <2> HIDE DEF ns
  <2>2. ns \in [Tree -> Node]
    BY <2>1
  <2> QED
    BY <2>2 DEF ns
<1>16. SixTreeTypes'
  <2>1. judged' \subseteq Addr /\ aliases' \subseteq Addr /\ outstanding' \subseteq Addr
    BY <1>1, <1>5, <1>6 DEF SixTreeTypes
  <2> QED
    BY <1>1, <1>5, <1>8, <1>9, <1>15, <2>1 DEF SixTreeTypes
<1>17. SixTreeNodes'
  <2> DEFINE done == judged \cup aliases
             more == judged' \cup aliases'
  <2>1. Sound(nodes, Live) /\ Known(nodes, Live, done) /\ Covers(Live, done)
        /\ (batch = <<>> => queue = <<>>)
        /\ (phase = "Detecting" => batch # <<>> /\ Range(batch) = {batch[1]})
    BY <1>1 DEF SixTreeNodes
  <2>2. done \subseteq more /\ (phase = "Scanning" => A \subseteq more)
    BY <1>5
  <2> HIDE DEF done, more
  <2>3. Sound(nodes', Live)
    <3>1. \A S \in Live : Prefix(nodes'[S].stack, Stack[S]) /\ nodes'[S].targets = Around(S, nodes'[S].stack)
      BY <1>10, <1>13
    <3>2. \A S \in Tree \ Live : nodes'[S] = nodes[S]
      BY <1>10, <1>12
    <3> QED
      BY <1>15, <2>1, <3>1, <3>2, SoundChange
  <2>4. \A S \in Live : Seen(nodes'[S]) \subseteq more
    <3> SUFFICES ASSUME NEW S \in Live
                 PROVE  Seen(nodes'[S]) \subseteq more
      OBVIOUS
    <3>1. Seen(nodes[S]) \subseteq more
      BY <2>1, <2>2 DEF Known
    <3>2. CASE phase = "Scanning" /\ S \in Range(batch)
      BY <1>6, <1>14, <2>2, <3>1, <3>2
    <3>3. CASE ~(phase = "Scanning" /\ S \in Range(batch))
      BY <1>10, <1>12, <3>1, <3>3
    <3> QED
      BY <3>2, <3>3
  <2>5. Known(nodes', Live, more) /\ Covers(Live, more)
    BY <2>1, <2>2, <2>4, CoversMore DEF Known
  <2>6. Known(nodes', Live', judged' \cup aliases') /\ Covers(Live', judged' \cup aliases')
        /\ Sound(nodes', Live')
    BY <1>11, <2>3, <2>5 DEF more
  <2> QED
    BY <1>5, <2>1, <2>6 DEF SixTreeNodes
<1>18. SixTreePlain'
  <2> SUFFICES ASSUME ~detection
               PROVE  /\ phase = "Scanning"
                      /\ Owned(nodes', Live') /\ Narrow(nodes', Range(batch'))
                      /\ generation'.on => /\ generation'.left \subseteq BatchFrontier'
                                           /\ BatchFrontier' \subseteq generation'.left \cup outstanding'
                      /\ \A a \in issued : \/ a \in aliases'
                                           \/ Recalls(nodes', Live', aliases', a)
                                           \/ a \in outstanding' /\ \E S \in Range(batch') : a \in nodes'[S].targets
    BY <1>5 DEF SixTreePlain
  <2>1. /\ phase = "Scanning"
        /\ Owned(nodes, Live) /\ Narrow(nodes, Range(batch))
        /\ generation.on => /\ generation.left \subseteq BatchFrontier
                            /\ BatchFrontier \subseteq generation.left \cup outstanding
        /\ \A a \in issued : \/ a \in aliases
                             \/ Recalls(nodes, Live, aliases, a)
                             \/ a \in outstanding /\ \E S \in Range(batch) : a \in nodes[S].targets
    BY <1>1 DEF SixTreePlain
  <2>2. Owned(nodes', Live)
    <3> SUFFICES ASSUME NEW S \in Live
                 PROVE  /\ Room(S) <= Len(nodes'[S].stack)
                        /\ Seen(nodes'[S]) \subseteq nodes'[S].targets /\ Seen(nodes'[S]) \subseteq Area(S)
      BY DEF Owned
    <3>1. /\ Room(S) <= Len(nodes[S].stack)
          /\ Seen(nodes[S]) \subseteq nodes[S].targets /\ Seen(nodes[S]) \subseteq Area(S)
      BY <2>1 DEF Owned
    <3>2. nodes'[S].stack = nodes[S].stack /\ nodes'[S].targets = nodes[S].targets
      BY <1>10, <1>13
    <3>3. CASE S \in Range(batch)
      <4>1. nodes[S].targets \subseteq Area(S)
        BY <1>1, <2>1, <3>3, BatchTargets
      <4> QED
        BY <1>14, <2>1, <3>1, <3>2, <3>3, <4>1
    <3>4. CASE S \notin Range(batch)
      BY <1>10, <1>12, <3>1, <3>2, <3>4
    <3> QED
      BY <3>3, <3>4
  <2>3. Narrow(nodes', Range(batch))
    BY <1>10, <1>13, <2>1 DEF Narrow
  <2> DEFINE B == Range(batch)
             BF == BatchFrontier
             BG == BatchFrontier'
  <2>4. \A a : a \in BF <=> Wanted(nodes, B, aliases, a)
    BY <1>1, <2>1, FrontierFacts
  <2>5. \A a : a \in BG <=> Wanted(nodes', B, aliases', a)
    <3> DEFINE K == {nodes'[S] : S \in B}
               U1 == UNION {n.targets : n \in K}
               U2 == UNION {n.scanned \cup DOMAIN n.partial : n \in K}
    <3>2. phase' = "Scanning" /\ batch' = batch
      BY <1>5, <2>1
    <3>1. BG = (U1 \ aliases') \ U2
      BY <3>2 DEF BatchFrontier
    <3> HIDE DEF BG, B
    <3>3. \A a : a \in U1 <=> \E S \in B : a \in nodes'[S].targets
      OBVIOUS
    <3>4. \A a : a \in U2 <=> \E S \in B : a \in Seen(nodes'[S])
      BY DEF Seen
    <3> HIDE DEF U1, U2, K
    <3>5. \A a : a \in BG <=> a \in U1 /\ a \notin aliases' /\ a \notin U2
      BY <3>1
    <3> QED
      BY <3>3, <3>4, <3>5, Zenon DEF Wanted
  <2>6. \A a : a \in noted <=> \E S \in B : a \in Recorded(nodes[S], v)
    BY <1>4, <2>1
  <2>7. /\ \A S \in B : /\ nodes'[S].targets = nodes[S].targets
                        /\ Seen(nodes'[S]) = Seen(nodes[S]) \cup Recorded(nodes[S], v)
                        /\ \A a \in D : a \in nodes[S].targets => a \in Seen(nodes'[S])
    BY <1>10, <1>13, <1>14, <2>1
  <2> HIDE DEF B, BF, BG
  <2>8. ASSUME generation.on, NEW a \in generation'.left
        PROVE  a \in BG
    <3>1. a \in BF /\ a \notin C /\ a \notin noted
      BY <1>8, <2>1, <2>8 DEF BF
    <3>2. Wanted(nodes, B, aliases, a)
      BY <2>4, <3>1
    <3>3. Wanted(nodes', B, aliases', a)
      BY <1>5, <2>6, <2>7, <3>1, <3>2 DEF Wanted
    <3> QED
      BY <2>5, <3>3
  <2>9. ASSUME generation.on, NEW a \in BG
        PROVE  a \in generation'.left \cup outstanding'
    <3>1. Wanted(nodes', B, aliases', a)
      BY <2>5, <2>9
    <3>2. a \notin C /\ a \notin noted /\ a \notin aliases' /\ Wanted(nodes, B, aliases, a)
      BY <1>5, <2>6, <2>7, <3>1 DEF Wanted
    <3>3. a \in generation.left \/ a \in outstanding
      BY <2>1, <2>4, <2>9, <3>2 DEF BF
    <3>4. a \notin A
      BY <1>6, <2>7, <3>1, <3>2 DEF Wanted
    <3> QED
      BY <1>5, <1>8, <3>2, <3>3, <3>4
  <2>10. ASSUME NEW a \in issued
         PROVE  \/ a \in aliases'
                \/ Recalls(nodes', Live, aliases', a)
                \/ a \in outstanding' /\ \E S \in B : a \in nodes'[S].targets
    <3>1. CASE a \in aliases
      BY <1>5, <3>1
    <3>2. CASE Recalls(nodes, Live, aliases, a)
      <4>1. PICK S \in Tree : a \in Seen(nodes[S]) /\ (S \in Live \/ Idle(nodes[S], aliases))
        BY <3>2 DEF Recalls
      <4>2. a \in Seen(nodes'[S])
        BY <1>13, <4>1
      <4>3. Idle(nodes[S], aliases) => Idle(nodes'[S], aliases')
        BY <1>5, <1>13 DEF Idle
      <4> QED
        BY <4>1, <4>2, <4>3 DEF Recalls
    <3>3. CASE a \in outstanding /\ \E S \in Range(batch) : a \in nodes[S].targets
      <4>1. PICK S \in B : a \in nodes[S].targets
        BY <3>3 DEF B
      <4>2. a \in nodes'[S].targets
        BY <2>7, <4>1
      <4>3. CASE a \in A /\ a \in D
        <5>1. a \in Seen(nodes'[S]) /\ S \in Live /\ S \in Tree
          BY <1>10, <2>7, <4>1, <4>3 DEF B
        <5> QED
          BY <5>1 DEF Recalls
      <4> QED
        BY <1>5, <1>6, <3>3, <4>1, <4>2, <4>3
    <3> QED
      BY <2>1, <3>1, <3>2, <3>3
  <2> QED
    BY <1>5, <1>8, <1>11, <2>1, <2>2, <2>3, <2>8, <2>9, <2>10 DEF B, BG
<1> QED
  BY <1>16, <1>17, <1>18 DEF SixTreeIInv

-----------------------------------------------------------------------------
(* Training ends with all leaves in the queue.                                *)

\* Leaves are finitely many, disjoint, and nothing is below them.
LEMMA LeavesFacts ==
  /\ Leaves \subseteq Tree /\ Cardinality(Leaves) \in Nat
  /\ \A S, T \in Leaves : S = T \/ S \cap T = {}
  /\ \A S \in Leaves, T \in Tree : Below(S, T) => T \notin Leaves
<1>1. Leaves \subseteq Tree
  BY DEF Leaves
<1>2. Cardinality(Leaves) \in Nat
  <2>1. \A S \in Tree : S \subseteq Seeds
    BY NodeFacts
  <2>2. IsFiniteSet(Seeds)
    BY SixTreeAssumption
  <2>3. IsFiniteSet(SUBSET Seeds)
    BY <2>2, FS_SUBSET
  <2>4. Leaves \subseteq SUBSET Seeds
    BY <1>1, <2>1
  <2>5. IsFiniteSet(Leaves)
    BY <2>3, <2>4, FS_Subset
  <2> QED
    BY <2>5, FS_CardinalityType
<1>3. \A S, T \in Tree : Below(S, T) => T \notin Leaves
  BY BelowChild DEF Leaves
<1>4. \A S, T \in Leaves : S = T \/ S \cap T = {}
  <2> SUFFICES ASSUME NEW S \in Leaves, NEW T \in Leaves, S \cap T # {}
               PROVE  S = T
    OBVIOUS
  <2>1. S \subseteq T \/ T \subseteq S
    BY <1>1, Laminar
  <2> QED
    BY <1>1, <1>3, <2>1 DEF Below
<1> QED
  BY <1>1, <1>2, <1>3, <1>4

\* A leaf starts with the region of its seeds, one digit wider.
LEMMA LeafFacts ==
  ASSUME NEW S \in Leaves
  PROVE  /\ Leaf(S) \in Node /\ Seen(Leaf(S)) = {}
         /\ Prefix(Leaf(S).stack, Stack[S]) /\ Leaf(S).targets = Around(S, Leaf(S).stack)
         /\ Room(S) <= Len(Leaf(S).stack)
<1> DEFINE n0 == NewNode(Stack[S])
           n == [n0 EXCEPT !.targets = S]
           s == Stack[S]
<1>1. S \in Tree /\ S \subseteq Addr
  BY LeavesFacts, NodeFacts, SixTreeAssumption
<1>2. StackGood(S)
  BY <1>1, StackFacts
<1>3. s \in Seq(Dim) /\ Range(s) = Dim
  BY <1>2 DEF StackGood
<1>4. s # <<>>
  <2>1. Dim # {}
    BY SixTreeAssumption
  <2> HIDE DEF s
  <2> QED
    BY <1>3, <2>1, EmptyRange
<1>5. n0 \in Node /\ n0.stack = s /\ Seen(n0) = {}
  BY <1>3, NewNodeFacts
<1>6. Leaf(S) = Expanded(n)
  BY DEF Leaf
<1> HIDE DEF n0
<1>7. n \in Node /\ n.stack = s /\ n.targets = S /\ n.scanned = n0.scanned /\ n.partial = n0.partial
  BY <1>1, <1>5 DEF Node
<1> HIDE DEF n
<1>8. Seen(n) = {}
  BY <1>5, <1>7 DEF Seen
<1>9. Around(S, s) = S
  BY <1>1, AroundLeaf
<1>10. Prefix(s, Stack[S])
  <2>1. Len(s) \in Nat
    BY <1>3
  <2> QED
    BY <2>1 DEF Prefix
<1>11. Room(S) \in Nat /\ Len(s) \in Nat /\ (S \notin Roots => Room(S) < Len(s))
       /\ (S \in Roots => Room(S) = 0)
  BY <1>1, RoomFacts DEF Room
<1> HIDE DEF s
<1>12. LET f == Front(n.stack) IN
       /\ Prefix(f, Stack[S]) /\ Widened(n.targets, Last(n.stack)) = Around(S, f)
       /\ f \in Seq(Dim) /\ Len(f) = Len(n.stack) - 1 /\ Len(n.stack) \in Nat
  BY <1>1, <1>4, <1>7, <1>9, <1>10, WidenedShape
<1> DEFINE m == Expanded(n)
<1>13. /\ m \in Node /\ m.scanned = n.scanned /\ m.partial = n.partial
       /\ m.stack = Front(n.stack) /\ m.targets = Widened(n.targets, Last(n.stack))
  BY <1>4, <1>7, ExpandedFacts
<1> HIDE DEF m
<1>14. Seen(m) = {}
  BY <1>8, <1>13 DEF Seen
<1>15. Len(s) # 0
  BY <1>3, <1>4
<1>16. Room(S) <= Len(m.stack)
  BY <1>7, <1>11, <1>12, <1>13, <1>15
<1>17. m \in Node /\ Prefix(m.stack, Stack[S]) /\ m.targets = Around(S, m.stack)
  BY <1>12, <1>13
<1> QED
  BY <1>6, <1>14, <1>16, <1>17 DEF m

\* Training establishes the invariant.
LEMMA InitStep ==
  ASSUME Init
  PROVE  SixTreeIInv
<1> DEFINE ns == [S \in Tree |-> IF S \in Leaves THEN Leaf(S) ELSE NewNode(Stack[S])]
<1>1. PICK b \in LeafQueues :
        LET st == Replaced([nodes |-> ns, batch |-> b, queue |-> <<>>])
        IN  nodes = st.nodes /\ batch = st.batch /\ queue = st.queue
  BY DEF Init
<1>2. /\ phase = "Scanning" /\ probes = NoProbes /\ generation = NoCursor
      /\ aliases = {} /\ detected = {} /\ detection \in Detections /\ pc = "idle"
      /\ outstanding = {} /\ issued = {} /\ judged = {}
  BY DEF Init
<1> DEFINE st == [nodes |-> ns, batch |-> b, queue |-> <<>>]
           r  == Replaced(st)
<1>3. nodes = r.nodes /\ batch = r.batch /\ queue = r.queue
  BY <1>1
<1>4. b \in Seq(Tree) /\ Range(b) = Leaves
  <2>1. b \in [1..Cardinality(Leaves) -> Leaves] /\ \A S \in Leaves : \E i \in DOMAIN b : b[i] = S
    BY DEF LeafQueues
  <2>2. b \in Seq(Tree)
    BY <2>1, LeavesFacts
  <2> QED
    BY <2>1, <2>2 DEF Range
<1>5. \A S \in Leaves : ns[S] = Leaf(S) /\ ns[S] \in Node
  BY LeavesFacts, LeafFacts
<1>6. \A S \in Tree : S \notin Leaves => ns[S] = NewNode(Stack[S]) /\ ns[S] \in Node
  <2> SUFFICES ASSUME NEW S \in Tree, S \notin Leaves
               PROVE  ns[S] = NewNode(Stack[S]) /\ ns[S] \in Node
    BY Zenon
  <2>1. Stack[S] \in Seq(Dim)
    BY StackFacts DEF StackGood
  <2> QED
    BY <2>1, NewNodeFacts
<1>7. ns \in [Tree -> Node]
  <2>1. \A S \in Tree : ns[S] \in Node
    BY <1>5, <1>6
  <2>2. ns = [S \in Tree |-> ns[S]]
    OBVIOUS
  <2> HIDE DEF ns
  <2> QED
    BY <2>1, <2>2
<1> HIDE DEF ns
<1>8. Sound(ns, Leaves)
  <2>1. \A S \in Leaves, T \in Tree : Below(S, T) => ns[T] = NewNode(Stack[T])
    BY <1>6, LeavesFacts
  <2>2. \A S \in Leaves : Prefix(ns[S].stack, Stack[S]) /\ ns[S].targets = Around(S, ns[S].stack)
    BY <1>5, LeafFacts
  <2> QED
    BY <1>7, <2>1, <2>2, LeavesFacts DEF Sound
<1>9. \A S \in Leaves : Seen(ns[S]) = {} /\ Room(S) <= Len(ns[S].stack)
  BY <1>5, LeafFacts
<1>10. Known(ns, Leaves, {}) /\ Owned(ns, Leaves)
  BY <1>9 DEF Known, Owned
<1>11. Covers(Leaves, {})
  BY SomeLeaf DEF Covers
<1>12. <<>> \in Seq(Tree) /\ Range(<<>>) = {}
  BY DEF Range
<1>13. st.nodes = ns /\ st.batch = b /\ st.queue = <<>>
  OBVIOUS
<1> HIDE DEF st
<1>14. LiveIn(st) = Leaves
  BY <1>4, <1>12, <1>13 DEF LiveIn
<1>15. Structured(st)
  BY <1>4, <1>8, <1>12, <1>13, <1>14 DEF Structured
<1>16. Structured(r)
  BY <1>15, ReplacedFacts
<1>17. /\ Known(r.nodes, LiveIn(r), {}) /\ Covers(LiveIn(r), {})
       /\ Range(r.batch) = {} => Range(r.queue) = {}
  BY <1>10, <1>11, <1>12, <1>13, <1>14, <1>15, ReplacedKnown
<1>18. Owned(r.nodes, LiveIn(r)) /\ Narrow(r.nodes, Range(r.batch))
  BY <1>10, <1>13, <1>14, <1>15, ReplacedOwned
<1> HIDE DEF r
<1>19. r.batch \in Seq(Tree) /\ r.queue \in Seq(Tree) /\ Sound(r.nodes, LiveIn(r))
       /\ r.nodes \in [Tree -> Node]
  BY <1>16 DEF Structured, Sound
<1>20. LiveIn(r) = Live
  BY <1>3 DEF LiveIn, Live
<1>21. SixTreeTypes
  <2>1. detection \in BOOLEAN
    BY <1>2, SixTreeAssumption
  <2> QED
    BY <1>2, <1>3, <1>19, <2>1, NoCursorType, RoundsFacts DEF SixTreeTypes
<1>22. SixTreeNodes
  <2>1. batch = <<>> => queue = <<>>
    <3> DEFINE bs == r.batch
               qs == r.queue
    <3>1. bs \in Seq(Tree) /\ qs \in Seq(Tree) /\ (Range(bs) = {} => Range(qs) = {})
      BY <1>17, <1>19
    <3> HIDE DEF bs, qs
    <3>2. bs = <<>> => qs = <<>>
      BY <3>1, EmptyRange
    <3> QED
      BY <1>3, <3>2 DEF bs, qs
  <2>2. judged \cup aliases = {}
    BY <1>2
  <2> QED
    BY <1>2, <1>3, <1>17, <1>19, <1>20, <2>1, <2>2 DEF SixTreeNodes
<1>23. SixTreePlain
  <2>1. generation.on = FALSE
    BY <1>2, NoCursorType
  <2> QED
    BY <1>2, <1>3, <1>18, <1>20, <2>1 DEF SixTreePlain
<1> QED
  BY <1>21, <1>22, <1>23 DEF SixTreeIInv

\* A step that changes nothing keeps the invariant.
LEMMA SixTreeStutter ==
  ASSUME SixTreeIInv, UNCHANGED vars
  PROVE  SixTreeIInv'
<1>1. /\ UNCHANGED <<nodes, queue, batch, phase, probes, generation, aliases, detected, detection>>
      /\ UNCHANGED <<pc, outstanding, issued, judged>>
  BY DEF vars, mvars
<1>2. SixTreeTypes /\ SixTreeNodes /\ SixTreePlain
  BY DEF SixTreeIInv
<1>3. Live' = Live /\ BatchFrontier' = BatchFrontier
  BY <1>1 DEF Live, BatchFrontier, Pending
<1>4. RoundDone' = RoundDone
  BY <1>1 DEF RoundDone, HasFrontier, Frontier
<1>5. SixTreeTypes'
  BY <1>1, <1>2 DEF SixTreeTypes
<1>6. SixTreeNodes'
  BY <1>1, <1>2, <1>3 DEF SixTreeNodes
<1>7. SixTreePlain'
  BY <1>1, <1>2, <1>3, <1>4 DEF SixTreePlain
<1> QED
  BY <1>5, <1>6, <1>7 DEF SixTreeIInv

\* The types of the state, the shape of the tree and of its live nodes, what they have
\* seen, and what the scan without alias detection has generated, in all states that
\* generate() and apply_feedback() reach.
THEOREM SixTreeInvariant == Spec => []SixTreeIInv
<1>1. ASSUME SixTreeIInv, [Next]_vars PROVE SixTreeIInv'
  <2>1. CASE Generate
    BY <1>1, <2>1, GenerateStep
  <2>2. CASE ApplyFeedback
    BY <1>1, <2>2, ApplyFeedbackStep
  <2>3. CASE FinishRound
    BY <1>1, <2>3, FinishRoundStep
  <2>4. CASE WidenSuspect
    BY <1>1, <2>4, WidenSuspectStep
  <2>5. CASE ClearSuspect
    BY <1>1, <2>5, ClearSuspectStep
  <2>6. CASE MarkAlias
    BY <1>1, <2>6, MarkAliasStep
  <2>7. CASE Emit
    BY <1>1, <2>7, EmitStep
  <2>8. CASE Return
    BY <1>1, <2>8, ReturnStep
  <2>9. CASE UNCHANGED vars
    BY <1>1, <2>9, SixTreeStutter
  <2> QED
    BY <1>1, <2>1, <2>2, <2>3, <2>4, <2>5, <2>6, <2>7, <2>8, <2>9 DEF Next
<1> QED
  BY <1>1, InitStep, PTL DEF Spec

-----------------------------------------------------------------------------
(* What the runs check, for all values of the constants.                      *)

\* A node of the batch has no part in what another node has seen.
LEMMA NotSeenElsewhere ==
  ASSUME SixTreeIInv, ~detection, NEW R \in Range(batch), NEW S \in Live,
         NEW a \in nodes[R].targets, a \in Seen(nodes[S])
  PROVE  S = R
<1>1. SixTreeTypes /\ SixTreeNodes /\ SixTreePlain
  BY DEF SixTreeIInv
<1>2. Owned(nodes, Live) /\ Narrow(nodes, Range(batch)) /\ Sound(nodes, Live)
  BY <1>1 DEF SixTreePlain, SixTreeNodes
<1>3. R \in Tree /\ S \in Tree /\ R \in Live
  BY <1>1, LiveNow
<1>4. a \in Area(R)
  BY <1>1, <1>2, BatchTargets
<1>5. a \in Area(S)
  BY <1>2 DEF Owned
<1>6. R \cap S # {}
  BY <1>3, <1>4, <1>5, AreaApart
<1> QED
  BY <1>2, <1>3, <1>6 DEF Sound

\* generate() never returns an address twice when alias detection is off, unless a
\* node that had scanned it was dropped by schedule_next_batch().
THEOREM ScannedOnceHolds == Spec => ScannedOnce
<1> DEFINE Repeats(a) == \E S \in Tree \ Live : ~Alive(nodes[S]) /\ a \in Seen(nodes[S])
<1>1. ASSUME SixTreeIInv, Emit, ~detection, NEW a \in (outstanding' \ outstanding) \cap issued
      PROVE  Repeats(a)
  <2> DEFINE todo == IF generation.on THEN generation.left ELSE BatchFrontier
  <2>1. SixTreeTypes /\ SixTreePlain
    BY <1>1 DEF SixTreeIInv
  <2>2. /\ phase = "Scanning"
        /\ generation.on => generation.left \subseteq BatchFrontier
        /\ \/ a \in aliases
           \/ Recalls(nodes, Live, aliases, a)
           \/ a \in outstanding
    BY <1>1, <2>1 DEF SixTreePlain
  <2>3. todo \subseteq BatchFrontier
    BY <2>2
  <2>4. \E out \in SUBSET todo : outstanding' = outstanding \cup out
    BY <1>1 DEF Emit
  <2> HIDE DEF todo
  <2>5. a \in BatchFrontier
    BY <1>1, <2>3, <2>4
  <2>6. Wanted(nodes, Range(batch), aliases, a)
    BY <2>1, <2>2, <2>5, FrontierFacts
  <2>7. PICK R \in Range(batch) : a \in nodes[R].targets
    BY <2>6 DEF Wanted
  <2>8. PICK S \in Tree : a \in Seen(nodes[S]) /\ (S \in Live \/ Idle(nodes[S], aliases))
    BY <1>1, <2>2, <2>6 DEF Wanted, Recalls
  <2>9. S \notin Live
    BY <1>1, <2>6, <2>7, <2>8, NotSeenElsewhere DEF Wanted
  <2>10. ~Alive(nodes[S])
    BY <2>8, <2>9, AliveIdle
  <2> QED
    BY <2>8, <2>9, <2>10
<1>2. ASSUME SixTreeIInv, [Next]_vars
      PROVE  [~detection => \A a \in (outstanding' \ outstanding) \cap issued :
                \E S \in Tree \ Live : ~Alive(nodes[S]) /\ a \in Seen(nodes[S])]_vars
  <2>1. CASE Emit
    BY <1>1, <1>2, <2>1
  <2>2. CASE ApplyFeedback
    <3>1. outstanding' \subseteq outstanding
      BY <2>2 DEF ApplyFeedback
    <3> QED
      BY <3>1
  <2>3. CASE UNCHANGED vars
    BY <2>3
  <2>4. CASE Generate \/ FinishRound \/ WidenSuspect \/ ClearSuspect \/ MarkAlias \/ Return
    <3>1. outstanding' = outstanding
      BY <2>4 DEF Generate, FinishRound, WidenSuspect, ClearSuspect, MarkAlias, Return
    <3> QED
      BY <3>1
  <2> QED
    BY <1>2, <2>1, <2>2, <2>3, <2>4 DEF Next
<1> QED
  BY <1>2, SixTreeInvariant, PTL DEF ScannedOnce, Spec

\* generate() never waits for feedback that no address it has returned can bring,
\* when alias detection is off.
THEOREM PlainNeverStarvesHolds == Spec => []PlainNeverStarves
<1>1. SixTreeIInv => PlainNeverStarves
  <2> SUFFICES ASSUME SixTreeIInv, ~detection, Starving
               PROVE  FALSE
    BY DEF PlainNeverStarves
  <2>1. SixTreeTypes /\ SixTreeNodes /\ SixTreePlain
    BY DEF SixTreeIInv
  <2>2. /\ phase = "Scanning" /\ Owned(nodes, Live)
        /\ generation.on => BatchFrontier \subseteq generation.left \cup outstanding
        /\ generation.on /\ pc = "idle" => ~RoundDone
    BY <2>1 DEF SixTreePlain
  <2>3. /\ pc = "idle" /\ batch # <<>> /\ generation.on /\ generation.left = {}
        /\ outstanding \cap (BatchFrontier \ aliases) = {}
    BY DEF Starving, Waiting
  <2>4. \A a : a \in BatchFrontier <=> Wanted(nodes, Range(batch), aliases, a)
    BY <2>1, <2>2, FrontierFacts
  <2>5. \A a : ~Wanted(nodes, Range(batch), aliases, a)
    <3>1. \A a \in BatchFrontier : a \notin aliases
      BY <2>4 DEF Wanted
    <3> QED
      BY <2>2, <2>3, <2>4, <3>1
  <2>6. PICK i \in DOMAIN batch : HasFrontier(nodes[batch[i]])
    BY <2>2, <2>3 DEF RoundDone
  <2> DEFINE R == batch[i]
  <2>7. R \in Range(batch)
    BY DEF Range
  <2> HIDE DEF R
  <2>8. PICK a : a \in nodes[R].targets /\ a \notin Seen(nodes[R]) /\ a \notin aliases
    BY <2>6 DEF R, HasFrontier, Frontier, Seen
  <2>9. PICK S \in Range(batch) : a \in Seen(nodes[S])
    BY <2>5, <2>7, <2>8 DEF Wanted
  <2>10. S \in Live
    BY DEF Live
  <2>11. S = R
    BY <2>7, <2>8, <2>9, <2>10, NotSeenElsewhere
  <2> QED
    BY <2>8, <2>9, <2>11
<1> QED
  BY <1>1, SixTreeInvariant, PTL

\* An exhausted model has a verdict on all addresses that its digits reach, but for
\* those that it was told are aliases.
THEOREM ExhaustedIsCompleteHolds == Spec => []ExhaustedIsComplete
<1>1. SixTreeIInv => ExhaustedIsComplete
  <2> SUFFICES ASSUME SixTreeIInv, batch = <<>>, NEW a \in Addr, NEW s \in Seeds, Same(a, s, Scope)
               PROVE  a \in judged \cup aliases
    BY DEF ExhaustedIsComplete, Scope
  <2>1. queue = <<>> /\ Covers(Live, judged \cup aliases)
    BY DEF SixTreeIInv, SixTreeNodes
  <2>2. Live = {}
    BY <2>1 DEF Live, Range
  <2>3. PICK G \in Roots : s \in G
    BY RootFacts
  <2> QED
    BY <2>1, <2>2, <2>3 DEF Covers
<1> QED
  BY <1>1, SixTreeInvariant, PTL
=============================================================================
