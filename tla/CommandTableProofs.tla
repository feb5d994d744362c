------------------------- MODULE CommandTableProofs -------------------------
(***************************************************************************)
(* server/cmd.c over util/pt.c: each table is a map of names to callbacks, *)
(* and knows no name but those that were registered.                       *)
(***************************************************************************)
EXTENDS CommandTable, SequenceTheorems, FiniteSetTheorems, WellFoundedInduction, TLAPS

LEMMA NaturalInduction ==
  ASSUME NEW S, 0 \in S, \A n \in Nat : n \in S => n + 1 \in S
  PROVE  \A n \in Nat : n \in S
<1> DEFINE R == OpToRel(<, Nat)
           M == {n \in Nat : n \notin S}
<1>1. \A x, y \in Nat : x < y => <<x, y>> \in R
  BY DEF OpToRel
<1>2. IsWellFoundedOn(R, Nat)
  BY NatLessThanWellFounded
<1>3. M \subseteq Nat
  OBVIOUS
<1> HIDE DEF R
<1>4. ASSUME M # {} PROVE FALSE
  <2> HIDE DEF M
  <2>1. PICK m \in M : \A y \in M : ~(<<y, m>> \in R)
    BY <1>2, <1>3, <1>4, WFMin
  <2> USE DEF M
  <2>2. m # 0 /\ m \in Nat
    OBVIOUS
  <2>3. m - 1 \in Nat /\ m - 1 < m /\ (m - 1) + 1 = m
    BY <2>2
  <2>4. m - 1 \notin M
    BY <1>1, <2>1, <2>2, <2>3
  <2> QED
    BY <2>2, <2>3, <2>4
<1> QED
  BY <1>4

-----------------------------------------------------------------------------
(* Trees *)

\* The trees that have a node at the top, with subtrees from T.
Grown(T) == {Nil} \cup NodesOver(T)

\* f[k] are the trees on k levels, for k up to n.
Levels(f, n) == f[0] = {Nil} /\ \A k \in 1..n : f[k] = Grown(f[k - 1])

LEMMA LevelsExist == \A n \in Nat : \E f : Levels(f, n)
<1> DEFINE S == {n \in Nat : \E f : Levels(f, n)}
<1>1. 0 \in S
  <2>1. Levels([k \in {0} |-> {Nil}], 0)
    BY DEF Levels
  <2> QED
    BY <2>1
<1>2. ASSUME NEW n \in Nat, n \in S PROVE n + 1 \in S
  <2>1. PICK f : Levels(f, n)
    BY <1>2
  <2> DEFINE g == [k \in 0..(n + 1) |-> IF k = n + 1 THEN Grown(f[n]) ELSE f[k]]
  <2>2. \A k \in 0..n : g[k] = f[k]
    OBVIOUS
  <2>3. g[n + 1] = Grown(f[n])
    OBVIOUS
  <2>4. \A k \in 1..(n + 1) : k - 1 \in 0..n /\ (k = n + 1 \/ (k \in 1..n /\ k \in 0..n))
    OBVIOUS
  <2> HIDE DEF g
  <2>5. Levels(g, n + 1)
    <3>1. g[0] = {Nil}
      BY <2>1, <2>2 DEF Levels
    <3>2. ASSUME NEW k \in 1..(n + 1) PROVE g[k] = Grown(g[k - 1])
      <4>1. CASE k = n + 1
        BY <2>2, <2>3, <4>1
      <4>2. CASE k \in 1..n
        <5>1. f[k] = Grown(f[k - 1])
          BY <2>1, <4>2 DEF Levels
        <5>2. g[k] = f[k] /\ g[k - 1] = f[k - 1]
          BY <2>2, <2>4, <4>2
        <5> QED
          BY <5>1, <5>2
      <4> QED
        BY <2>4, <4>1, <4>2
    <3> QED
      BY <3>1, <3>2 DEF Levels
  <2> QED
    BY <2>5
<1> HIDE DEF S
<1>3. \A n \in Nat : n \in S
  BY <1>1, <1>2, NaturalInduction
<1> QED
  BY <1>3 DEF S

LEMMA LevelsAgree ==
  ASSUME NEW n \in Nat, NEW m \in Nat, NEW f, NEW g, Levels(f, n), Levels(g, m)
  PROVE  \A k \in Nat : k <= n /\ k <= m => f[k] = g[k]
<1> DEFINE S == {k \in Nat : k <= n /\ k <= m => f[k] = g[k]}
<1>1. 0 \in S
  BY DEF Levels
<1>2. ASSUME NEW k \in Nat, k \in S PROVE k + 1 \in S
  <2> SUFFICES ASSUME k + 1 <= n, k + 1 <= m PROVE f[k + 1] = g[k + 1]
    OBVIOUS
  <2>1. k + 1 \in 1..n /\ k + 1 \in 1..m /\ (k + 1) - 1 = k
    OBVIOUS
  <2>2. f[k + 1] = Grown(f[k]) /\ g[k + 1] = Grown(g[k])
    BY <2>1 DEF Levels
  <2> QED
    BY <1>2, <2>2
<1> HIDE DEF S
<1>3. \A k \in Nat : k \in S
  BY <1>1, <1>2, NaturalInduction
<1> QED
  BY <1>3 DEF S

LEMMA TreesOf ==
  /\ Trees[0] = {Nil}
  /\ \A d \in Nat : Trees[d + 1] = Grown(Trees[d])
<1> DEFINE F(n) == CHOOSE f : Levels(f, n)
           g == [d \in Nat |-> F(d)[d]]
           P(f) == f = [d \in Nat |-> IF d = 0 THEN {Nil}
                          ELSE {Nil} \cup NodesOver(f[d - 1])]
<1>1. \A n \in Nat : Levels(F(n), n)
  BY LevelsExist
<1> HIDE DEF F
<1>2. g[0] = {Nil}
  BY <1>1 DEF Levels
<1>3. ASSUME NEW d \in Nat, d # 0 PROVE g[d] = Grown(g[d - 1])
  <2>1. d - 1 \in Nat /\ d \in 1..d /\ d - 1 <= d /\ d - 1 <= d - 1
    BY <1>3
  <2>2. Levels(F(d), d) /\ Levels(F(d - 1), d - 1)
    BY <1>1, <2>1
  <2>3. F(d)[d] = Grown(F(d)[d - 1])
    BY <2>1, <2>2 DEF Levels
  <2>4. F(d)[d - 1] = F(d - 1)[d - 1]
    BY <2>1, <2>2, LevelsAgree
  <2> QED
    BY <2>1, <2>3, <2>4
<1>4. g = [d \in Nat |-> g[d]]
  OBVIOUS
<1> HIDE DEF g
<1>5. P(g)
  BY <1>2, <1>3, <1>4 DEF Grown
<1>6. Trees = CHOOSE f : P(f)
  BY DEF Trees
<1> HIDE DEF P
<1>7. P(Trees)
  BY <1>5, <1>6
<1> USE DEF P
<1>8. \A d \in Nat : Trees[d] = IF d = 0 THEN {Nil}
                          ELSE {Nil} \cup NodesOver(Trees[d - 1])
  BY <1>7
<1>9. \A d \in Nat : d + 1 \in Nat /\ d + 1 # 0 /\ (d + 1) - 1 = d
  OBVIOUS
<1> QED
  BY <1>8, <1>9 DEF Grown

Depth == Most * Longest

\* The names stored never need more levels than a tree has.
LEMMA DepthIsEnough ==
  /\ Depth \in Nat /\ Most \in Nat
  /\ IsFiniteSet(Name) /\ Cardinality(Name) \in Nat /\ Cardinality(Name) <= Most
  /\ IsFiniteSet(SiteName) /\ Cardinality(SiteName) \in Nat /\ Cardinality(SiteName) <= Most
<1>1. IsFiniteSet(Name) /\ IsFiniteSet(SiteName)
  BY NameAssumption, FS_Subset
<1>2. Cardinality(Name) \in Nat /\ Cardinality(SiteName) \in Nat
  BY <1>1, FS_CardinalityType
<1>3. Most \in Nat /\ Cardinality(Name) <= Most /\ Cardinality(SiteName) <= Most
  BY <1>2 DEF Most
<1>4. Depth \in Nat
  BY <1>3, NameAssumption DEF Depth
<1> QED
  BY <1>1, <1>2, <1>3, <1>4

LEMMA DepthIsNat == Depth \in Nat
BY DepthIsEnough

LEMMA NodesOverMore == \A T, U : T \subseteq U => NodesOver(T) \subseteq NodesOver(U)
<1> SUFFICES ASSUME NEW T, NEW U, T \subseteq U, NEW n \in NodesOver(T) PROVE n \in NodesOver(U)
  OBVIOUS
<1>1. CASE n \in [key : Letter, data : {None}, right : T, down : T]
  <2>1. n \in [key : Letter, data : {None}, right : U, down : U]
    BY <1>1
  <2> QED
    BY <2>1 DEF NodesOver
<1>2. CASE n \in [key : {End}, data : Callback, right : T, down : {Nil}]
  <2>1. n \in [key : {End}, data : Callback, right : U, down : {Nil}]
    BY <1>2
  <2> QED
    BY <2>1 DEF NodesOver
<1> QED
  BY <1>1, <1>2 DEF NodesOver

\* A tree on d levels is one on d + 1.
LEMMA TreesGrow == \A d \in Nat : Trees[d] \subseteq Trees[d + 1]
<1> DEFINE S == {d \in Nat : Trees[d] \subseteq Trees[d + 1]}
<1>1. 0 \in S
  BY TreesOf DEF Grown
<1>2. ASSUME NEW d \in Nat, d \in S PROVE d + 1 \in S
  <2>1. Trees[d] \subseteq Trees[d + 1]
    BY <1>2
  <2>2. Grown(Trees[d]) \subseteq Grown(Trees[d + 1])
    <3>1. NodesOver(Trees[d]) \subseteq NodesOver(Trees[d + 1])
      BY <2>1, NodesOverMore
    <3> QED
      BY <3>1 DEF Grown
  <2>3. Trees[d + 1] = Grown(Trees[d]) /\ Trees[(d + 1) + 1] = Grown(Trees[d + 1])
    <3>1. d + 1 \in Nat
      OBVIOUS
    <3> QED
      BY <3>1, TreesOf
  <2> QED
    BY <2>2, <2>3
<1> HIDE DEF S
<1>3. \A d \in Nat : d \in S
  BY <1>1, <1>2, NaturalInduction
<1> QED
  BY <1>3 DEF S

LEMMA TreesBelow == \A d, e \in Nat : d <= e => Trees[d] \subseteq Trees[e]
<1> DEFINE S == {i \in Nat : \A d \in Nat : Trees[d] \subseteq Trees[d + i]}
<1>1. 0 \in S
  OBVIOUS
<1>2. ASSUME NEW i \in Nat, i \in S PROVE i + 1 \in S
  <2> SUFFICES ASSUME NEW d \in Nat PROVE Trees[d] \subseteq Trees[d + (i + 1)]
    OBVIOUS
  <2>1. d + i \in Nat /\ d + (i + 1) = (d + i) + 1
    OBVIOUS
  <2> QED
    BY <1>2, <2>1, TreesGrow
<1> HIDE DEF S
<1>3. \A i \in Nat : i \in S
  BY <1>1, <1>2, NaturalInduction
<1>4. ASSUME NEW d \in Nat, NEW e \in Nat, d <= e PROVE Trees[d] \subseteq Trees[e]
  <2>1. e - d \in Nat /\ d + (e - d) = e
    BY <1>4
  <2> QED
    BY <1>3, <2>1 DEF S
<1> QED
  BY <1>4

LEMMA TreesInTree == \A d \in Nat : d <= Depth => Trees[d] \subseteq Tree
BY DepthIsNat, TreesBelow DEF Tree, Depth

\* A tree with nodes.
IsNode(n) == n \in Tree /\ n # Nil

LEMMA NilIsTree == Nil \in Tree
<1>1. Trees[0] \subseteq Tree
  BY DepthIsNat, TreesInTree
<1> QED
  BY <1>1, TreesOf

\* What is in a node: a letter and no callback, or the end of a name and one.
Parts(n) ==
  /\ n = Node(n.key, n.data, n.right, n.down)
  /\ \/ n.key \in Letter /\ n.key # End /\ n.data = None
     \/ n.key = End /\ n.data \in Callback /\ n.down = Nil

LEMMA NodeParts ==
  ASSUME NEW d \in Nat, NEW n \in Trees[d], n # Nil
  PROVE  /\ d # 0 /\ d - 1 \in Nat
         /\ Parts(n)
         /\ n.right \in Trees[d - 1] /\ n.down \in Trees[d - 1]
<1>1. d # 0
  BY TreesOf
<1>2. d - 1 \in Nat /\ d = (d - 1) + 1
  BY <1>1
<1>3. n \in NodesOver(Trees[d - 1])
  BY <1>2, TreesOf DEF Grown
<1>4. Nil \in Trees[d - 1]
  <2>1. Nil \in Trees[0]
    BY TreesOf
  <2> QED
    BY <1>2, <2>1, TreesBelow
<1>5. n.key \in Letter => n.key # End
  BY NoneIsNoCallback
<1>6. Parts(n)
  BY <1>3, <1>5 DEF NodesOver, Parts, Node
<1>7. n.right \in Trees[d - 1] /\ n.down \in Trees[d - 1]
  BY <1>3, <1>4 DEF NodesOver
<1> QED
  BY <1>1, <1>2, <1>6, <1>7

LEMMA NodePartsTree ==
  ASSUME NEW n, IsNode(n)
  PROVE  Parts(n) /\ n.right \in Tree /\ n.down \in Tree
<1>1. Depth \in Nat /\ n \in Trees[Depth] /\ n # Nil
  BY DepthIsNat DEF IsNode, Tree, Depth
<1>2. Depth - 1 <= Depth
  BY <1>1
<1> HIDE DEF Depth
<1>3. Parts(n) /\ Depth - 1 \in Nat /\ n.right \in Trees[Depth - 1] /\ n.down \in Trees[Depth - 1]
  BY <1>1, NodeParts
<1> QED
  BY <1>2, <1>3, TreesInTree

\* What holds of the empty tree, and of a tree when it holds of its subtrees.
LEMMA TreeInduction ==
  ASSUME NEW S, Nil \in S,
         \A n : IsNode(n) /\ n.right \in S /\ n.down \in S => n \in S
  PROVE  \A t \in Tree : t \in S
<1> DEFINE D == Depth
           M == {d \in Nat : d <= D => \A t \in Trees[d] : t \in S}
<1>0. D \in Nat
  BY DepthIsNat
<1>1. 0 \in M
  BY TreesOf
<1>2. ASSUME NEW d \in Nat, d \in M PROVE d + 1 \in M
  <2> SUFFICES ASSUME d + 1 <= D, NEW t \in Trees[d + 1], t # Nil PROVE t \in S
    OBVIOUS
  <2>1. d + 1 \in Nat /\ (d + 1) - 1 = d /\ d <= D
    BY <1>0
  <2>2. t.right \in Trees[d] /\ t.down \in Trees[d]
    BY <2>1, NodeParts
  <2>3. IsNode(t)
    BY <2>1, TreesInTree DEF IsNode
  <2> QED
    BY <1>2, <2>1, <2>2, <2>3
<1> HIDE DEF M
<1>3. \A d \in Nat : d \in M
  BY <1>1, <1>2, NaturalInduction
<1> QED
  BY <1>0, <1>3 DEF M, Tree, Depth

LEMMA EditNode ==
  \A n, x : Parts(n) =>
    /\ WithData(n, x) = Node(n.key, x, n.right, n.down)
    /\ WithRight(n, x) = Node(n.key, n.data, x, n.down)
    /\ WithDown(n, x) = Node(n.key, n.data, n.right, x)
<1>1. ASSUME NEW c, NEW g, NEW r, NEW d, NEW x
      PROVE  /\ WithData(Node(c, g, r, d), x) = Node(c, x, r, d)
             /\ WithRight(Node(c, g, r, d), x) = Node(c, g, x, d)
             /\ WithDown(Node(c, g, r, d), x) = Node(c, g, r, x)
  <2>1. WithData(Node(c, g, r, d), x) = Node(c, x, r, d)
    BY DEF Node, WithData
  <2>2. WithRight(Node(c, g, r, d), x) = Node(c, g, x, d)
    BY DEF Node, WithRight
  <2>3. WithDown(Node(c, g, r, d), x) = Node(c, g, r, x)
    BY DEF Node, WithDown
  <2> QED
    BY <2>1, <2>2, <2>3
<1>2. ASSUME NEW n, Parts(n), NEW x
      PROVE  /\ WithData(n, x) = Node(n.key, x, n.right, n.down)
             /\ WithRight(n, x) = Node(n.key, n.data, x, n.down)
             /\ WithDown(n, x) = Node(n.key, n.data, n.right, x)
  <2> DEFINE c == n.key
             g == n.data
             r == n.right
             d == n.down
  <2>1. n = Node(c, g, r, d)
    BY <1>2 DEF Parts
  <2> HIDE DEF c, g, r, d
  <2>2. WithData(n, x) = Node(c, x, r, d) /\ WithRight(n, x) = Node(c, g, x, d) /\ WithDown(n, x) = Node(c, g, r, x)
    BY <1>1, <2>1
  <2> QED
    BY <2>2 DEF c, g, r, d
<1> QED
  BY <1>2

LEMMA NodeFields ==
  \A c, g, r, d : /\ Node(c, g, r, d).key = c /\ Node(c, g, r, d).data = g
                  /\ Node(c, g, r, d).right = r /\ Node(c, g, r, d).down = d
BY DEF Node

-----------------------------------------------------------------------------
(* The functions of pt.c, one node at a time *)

LEMMA SearchDefined ==
  \E f : f = [n \in Tree |-> [z \in Rest |->
      IF n = Nil THEN n
      ELSE IF n.key # Head(z) THEN f[n.right][z]
      ELSE IF Head(z) = End THEN n ELSE f[n.down][Tail(z)]]]
<1> DEFINE C(n, r, d) == [z \in Rest |->
               IF n = Nil THEN n
               ELSE IF n.key # Head(z) THEN r[z]
               ELSE IF Head(z) = End THEN n ELSE d[Tail(z)]]
           B(n, f) == C(n, f[n.right], f[n.down])
           M == {d \in Nat : d <= Depth => \E f : f = [n \in Trees[d] |-> B(n, f)]}
<1>0. Depth \in Nat
  BY DepthIsNat
<1>a. \A r, d : C(Nil, r, d) = [z \in Rest |-> Nil]
  OBVIOUS
<1> HIDE DEF C
<1>1. 0 \in M
  <2> DEFINE f == [n \in {Nil} |-> [z \in Rest |-> Nil]]
  <2>1. f = [n \in Trees[0] |-> B(n, f)]
    BY <1>a, TreesOf
  <2> QED
    BY <2>1
<1>2. ASSUME NEW d \in Nat, d \in M PROVE d + 1 \in M
  <2> SUFFICES ASSUME d + 1 <= Depth PROVE \E f : f = [n \in Trees[d + 1] |-> B(n, f)]
    OBVIOUS
  <2>1. d <= Depth /\ d + 1 \in Nat /\ (d + 1) - 1 = d
    BY <1>0
  <2>2. PICK g : g = [n \in Trees[d] |-> B(n, g)]
    BY <1>2, <2>1
  <2> DEFINE f == [n \in Trees[d + 1] |-> B(n, g)]
  <2> HIDE DEF B
  <2>3. \A n \in Trees[d] : f[n] = g[n]
    BY <2>2, TreesGrow
  <2>4. \A n \in Trees[d + 1] : n # Nil => n.right \in Trees[d] /\ n.down \in Trees[d]
    BY <2>1, NodeParts
  <2> HIDE DEF f
  <2>5. \A n \in Trees[d + 1] : B(n, f) = B(n, g)
    BY <1>a, <2>3, <2>4 DEF B
  <2>6. f = [n \in Trees[d + 1] |-> B(n, f)]
    BY <2>5 DEF f
  <2> QED
    BY <2>6
<1> HIDE DEF M, B
<1>3. \A d \in Nat : d \in M
  BY <1>1, <1>2, NaturalInduction
<1>4. \E f : f = [n \in Tree |-> B(n, f)]
  BY <1>0, <1>3 DEF M, Tree, Depth
<1> QED
  BY <1>4 DEF B, C

LEMMA SearchOf ==
  /\ \A z \in Rest : ptnode_search(Nil, z) = Nil
  /\ \A n : IsNode(n) => \A z \in Rest :
       /\ n.key # Head(z) => ptnode_search(n, z) = ptnode_search(n.right, z)
       /\ n.key = Head(z) /\ n.key = End => ptnode_search(n, z) = n
       /\ n.key = Head(z) /\ n.key # End /\ Tail(z) \in Rest =>
            ptnode_search(n, z) = ptnode_search(n.down, Tail(z))
<1> DEFINE B(n, f) == [z \in Rest |->
               IF n = Nil THEN n
               ELSE IF n.key # Head(z) THEN f[n.right][z]
               ELSE IF Head(z) = End THEN n ELSE f[n.down][Tail(z)]]
           P(f) == f = [n \in Tree |-> B(n, f)]
           h == CHOOSE f : P(f)
<1>1. \A t, z : ptnode_search(t, z) = h[t][z]
  BY DEF ptnode_search
<1>2. P(h)
  <2>1. \E f : P(f)
    BY SearchDefined
  <2> HIDE DEF P
  <2> QED
    BY <2>1
<1> HIDE DEF h
<1>3. \A n \in Tree : h[n] = B(n, h)
  BY <1>2
<1>4. \A z \in Rest : h[Nil][z] = Nil
  BY <1>3, NilIsTree
<1>5. ASSUME NEW n, IsNode(n), NEW z \in Rest
      PROVE  h[n][z] = IF n.key # Head(z) THEN h[n.right][z]
                       ELSE IF Head(z) = End THEN n ELSE h[n.down][Tail(z)]
  <2>1. h[n] = B(n, h) /\ n # Nil
    BY <1>3, <1>5 DEF IsNode
  <2>2. B(n, h)[z] = IF n.key # Head(z) THEN h[n.right][z]
                     ELSE IF Head(z) = End THEN n ELSE h[n.down][Tail(z)]
    BY <1>5, <2>1
  <2> QED
    BY <2>1, <2>2
<1> QED
  BY <1>1, <1>4, <1>5

LEMMA InsertDefined ==
  \A x : \E f : f = [n \in Tree |-> [z \in Rest |->
      IF n = Nil THEN Created(z, x)
      ELSE IF n.key = End THEN WithData(n, x)
      ELSE IF n.key # Head(z) THEN WithRight(n, f[n.right][z])
      ELSE WithDown(n, f[n.down][Tail(z)])]]
<1> TAKE x
<1> DEFINE C(n, r, d) == [z \in Rest |->
               IF n = Nil THEN Created(z, x)
               ELSE IF n.key = End THEN WithData(n, x)
               ELSE IF n.key # Head(z) THEN WithRight(n, r[z])
               ELSE WithDown(n, d[Tail(z)])]
           B(n, f) == C(n, f[n.right], f[n.down])
           M == {d \in Nat : d <= Depth => \E f : f = [n \in Trees[d] |-> B(n, f)]}
<1>0. Depth \in Nat
  BY DepthIsNat
<1>a. \A r, d : C(Nil, r, d) = [z \in Rest |-> Created(z, x)]
  OBVIOUS
<1> HIDE DEF C
<1>1. 0 \in M
  <2> DEFINE f == [n \in {Nil} |-> [z \in Rest |-> Created(z, x)]]
  <2>1. f = [n \in Trees[0] |-> B(n, f)]
    BY <1>a, TreesOf
  <2> QED
    BY <2>1
<1>2. ASSUME NEW d \in Nat, d \in M PROVE d + 1 \in M
  <2> SUFFICES ASSUME d + 1 <= Depth PROVE \E f : f = [n \in Trees[d + 1] |-> B(n, f)]
    OBVIOUS
  <2>1. d <= Depth /\ d + 1 \in Nat /\ (d + 1) - 1 = d
    BY <1>0
  <2>2. PICK g : g = [n \in Trees[d] |-> B(n, g)]
    BY <1>2, <2>1
  <2> DEFINE f == [n \in Trees[d + 1] |-> B(n, g)]
  <2> HIDE DEF B
  <2>3. \A n \in Trees[d] : f[n] = g[n]
    BY <2>2, TreesGrow
  <2>4. \A n \in Trees[d + 1] : n # Nil => n.right \in Trees[d] /\ n.down \in Trees[d]
    BY <2>1, NodeParts
  <2> HIDE DEF f
  <2>5. \A n \in Trees[d + 1] : B(n, f) = B(n, g)
    BY <1>a, <2>3, <2>4 DEF B
  <2>6. f = [n \in Trees[d + 1] |-> B(n, f)]
    BY <2>5 DEF f
  <2> QED
    BY <2>6
<1> HIDE DEF M, B
<1>3. \A d \in Nat : d \in M
  BY <1>1, <1>2, NaturalInduction
<1>4. \E f : f = [n \in Tree |-> B(n, f)]
  BY <1>0, <1>3 DEF M, Tree, Depth
<1> QED
  BY <1>4 DEF B, C

LEMMA InsertOf ==
  \A x :
    /\ \A z \in Rest : ptnode_insert(Nil, z, x) = Created(z, x)
    /\ \A n : IsNode(n) => \A z \in Rest :
         /\ n.key = End => ptnode_insert(n, z, x) = Node(n.key, x, n.right, n.down)
         /\ n.key # End /\ n.key # Head(z) =>
              ptnode_insert(n, z, x) = Node(n.key, n.data, ptnode_insert(n.right, z, x), n.down)
         /\ n.key # End /\ n.key = Head(z) /\ Tail(z) \in Rest =>
              ptnode_insert(n, z, x) = Node(n.key, n.data, n.right, ptnode_insert(n.down, Tail(z), x))
<1> TAKE x
<1> DEFINE B(n, f) == [z \in Rest |->
               IF n = Nil THEN Created(z, x)
               ELSE IF n.key = End THEN WithData(n, x)
               ELSE IF n.key # Head(z) THEN WithRight(n, f[n.right][z])
               ELSE WithDown(n, f[n.down][Tail(z)])]
           P(f) == f = [n \in Tree |-> B(n, f)]
           h == CHOOSE f : P(f)
<1>1. \A t, z : ptnode_insert(t, z, x) = h[t][z]
  BY DEF ptnode_insert
<1>2. P(h)
  <2>1. \E f : P(f)
    BY InsertDefined, ZenonT(30)
  <2> HIDE DEF P
  <2> QED
    BY <2>1
<1> HIDE DEF h
<1>3. \A n \in Tree : h[n] = B(n, h)
  BY <1>2
<1>4. \A z \in Rest : h[Nil][z] = Created(z, x)
  BY <1>3, NilIsTree
<1>5. ASSUME NEW n, IsNode(n), NEW z \in Rest
      PROVE  h[n][z] = IF n.key = End THEN WithData(n, x)
                       ELSE IF n.key # Head(z) THEN WithRight(n, h[n.right][z])
                       ELSE WithDown(n, h[n.down][Tail(z)])
  BY <1>3, <1>5 DEF IsNode
<1>6. ASSUME NEW n, IsNode(n) PROVE Parts(n)
  BY <1>6, NodePartsTree
<1>7. ASSUME NEW n, IsNode(n), NEW z \in Rest
      PROVE  /\ n.key = End => h[n][z] = Node(n.key, x, n.right, n.down)
             /\ n.key # End /\ n.key # Head(z) => h[n][z] = Node(n.key, n.data, h[n.right][z], n.down)
             /\ n.key # End /\ n.key = Head(z) => h[n][z] = Node(n.key, n.data, n.right, h[n.down][Tail(z)])
  BY <1>5, <1>6, <1>7, EditNode
<1> QED
  BY <1>1, <1>4, <1>7

\* The nodes made for the last characters of z, up to the n-th from behind.
Chain(g, z, x, n) ==
  /\ g[0] = Node(End, x, Nil, Nil)
  /\ \A i \in 1..n : g[i] = Node(z[Len(z) - i], None, Nil, g[i - 1])

LEMMA ChainExists == \A z, x : \A n \in Nat : \E g : Chain(g, z, x, n)
<1> TAKE z, x
<1> DEFINE S == {n \in Nat : \E g : Chain(g, z, x, n)}
<1>1. 0 \in S
  <2>1. Chain([i \in {0} |-> Node(End, x, Nil, Nil)], z, x, 0)
    BY DEF Chain
  <2> QED
    BY <2>1
<1>2. ASSUME NEW n \in Nat, n \in S PROVE n + 1 \in S
  <2>1. PICK f : Chain(f, z, x, n)
    BY <1>2
  <2> DEFINE g == [k \in 0..(n + 1) |->
                     IF k = n + 1 THEN Node(z[Len(z) - (n + 1)], None, Nil, f[n]) ELSE f[k]]
  <2>2. \A k \in 0..n : g[k] = f[k]
    OBVIOUS
  <2>3. g[n + 1] = Node(z[Len(z) - (n + 1)], None, Nil, f[n])
    OBVIOUS
  <2>4. \A k \in 1..(n + 1) : k - 1 \in 0..n /\ (k = n + 1 \/ (k \in 1..n /\ k \in 0..n))
    OBVIOUS
  <2> HIDE DEF g
  <2>5. Chain(g, z, x, n + 1)
    <3>1. g[0] = Node(End, x, Nil, Nil)
      BY <2>1, <2>2 DEF Chain
    <3>2. ASSUME NEW k \in 1..(n + 1) PROVE g[k] = Node(z[Len(z) - k], None, Nil, g[k - 1])
      <4>1. CASE k = n + 1
        <5>1. g[k - 1] = f[n]
          BY <2>2, <4>1
        <5> QED
          BY <2>3, <4>1, <5>1
      <4>2. CASE k \in 1..n
        <5>1. f[k] = Node(z[Len(z) - k], None, Nil, f[k - 1])
          BY <2>1, <4>2 DEF Chain
        <5>2. g[k] = f[k] /\ g[k - 1] = f[k - 1]
          BY <2>2, <2>4, <4>2
        <5> QED
          BY <5>1, <5>2
      <4> QED
        BY <2>4, <4>1, <4>2
    <3> QED
      BY <3>1, <3>2 DEF Chain
  <2> QED
    BY <2>5
<1> HIDE DEF S
<1>3. \A n \in Nat : n \in S
  BY <1>1, <1>2, NaturalInduction
<1> QED
  BY <1>3 DEF S

\* Created depends on what is left of the name, not on what came before.
LEMMA ChainsAgree ==
  ASSUME NEW n \in Nat, NEW z, NEW y, NEW x, NEW f, NEW g, Chain(f, z, x, n), Chain(g, y, x, n),
         \A i \in 1..n : z[Len(z) - i] = y[Len(y) - i]
  PROVE  f[n] = g[n]
<1> DEFINE S == {k \in Nat : k <= n => f[k] = g[k]}
<1>1. 0 \in S
  BY DEF Chain
<1>2. ASSUME NEW k \in Nat, k \in S PROVE k + 1 \in S
  <2> SUFFICES ASSUME k + 1 <= n PROVE f[k + 1] = g[k + 1]
    OBVIOUS
  <2>1. k + 1 \in 1..n /\ (k + 1) - 1 = k
    OBVIOUS
  <2>2. /\ f[k + 1] = Node(z[Len(z) - (k + 1)], None, Nil, f[k])
        /\ g[k + 1] = Node(y[Len(y) - (k + 1)], None, Nil, g[k])
    BY <2>1 DEF Chain
  <2>3. z[Len(z) - (k + 1)] = y[Len(y) - (k + 1)]
    BY <2>1
  <2> QED
    BY <1>2, <2>2, <2>3
<1> HIDE DEF S
<1>3. \A k \in Nat : k \in S
  BY <1>1, <1>2, NaturalInduction
<1> QED
  BY <1>3 DEF S

LEMMA CreatedIsChain ==
  ASSUME NEW z \in Rest, z # <<>>, NEW x
  PROVE  \E g : Chain(g, z, x, Len(z) - 1) /\ Created(z, x) = g[Len(z) - 1]
<1> DEFINE n == Len(z) - 1
           P(f) == f = [i \in 0..n |-> IF i = 0 THEN Node(End, x, Nil, Nil)
                                       ELSE Node(z[Len(z) - i], None, Nil, f[i - 1])]
           h == CHOOSE f : P(f)
<1>1. n \in Nat
  BY EmptySeq, LenProperties DEF Rest
<1>2. Created(z, x) = h[n]
  BY DEF Created
<1>3. PICK g : Chain(g, z, x, n)
  BY <1>1, ChainExists
<1> DEFINE f == [i \in 0..n |-> g[i]]
<1>4. P(f)
  <2>1. \A i \in 0..n : i = 0 \/ (i \in 1..n /\ i - 1 \in 0..n)
    BY <1>1
  <2>2. f[0] = g[0]
    BY <1>1
  <2>3. \A i \in 1..n : f[i] = g[i] /\ f[i - 1] = g[i - 1]
    BY <1>1
  <2> HIDE DEF n
  <2>4. \A i \in 0..n : f[i] = IF i = 0 THEN Node(End, x, Nil, Nil)
                                ELSE Node(z[Len(z) - i], None, Nil, f[i - 1])
    <3> HIDE DEF f
    <3> QED
      BY <1>3, <2>1, <2>2, <2>3 DEF Chain
  <2>5. f = [i \in 0..n |-> f[i]]
    OBVIOUS
  <2> HIDE DEF f
  <2> QED
    BY <2>4, <2>5
<1> HIDE DEF f
<1>5. P(h)
  BY <1>4
<1> HIDE DEF h
<1>6. Chain(h, z, x, n)
  <2>1. \A i \in 1..n : i \in 0..n /\ i # 0
    BY <1>1
  <2>2. 0 \in 0..n
    BY <1>1
  <2> HIDE DEF n
  <2> QED
    BY <1>5, <2>1, <2>2 DEF Chain
<1> QED
  BY <1>2, <1>6

-----------------------------------------------------------------------------
(* Names, with their '\0' *)

Word == {Append(s, End) : s \in Seq(Letter)}

\* What is left of a name is its '\0', or a letter and what is left behind it.
LEMMA WordParts ==
  ASSUME NEW z \in Word
  PROVE  /\ z \in Rest /\ z # <<>> /\ Len(z) \in Nat /\ Len(z) >= 1
         /\ \/ z = <<End>> /\ Head(z) = End /\ Len(z) = 1
            \/ /\ Head(z) \in Letter /\ Head(z) # End
               /\ Tail(z) \in Word /\ Len(Tail(z)) = Len(z) - 1 /\ Len(z) >= 2
<1>1. PICK s \in Seq(Letter) : z = Append(s, End)
  BY DEF Word
<1>2. s \in Rest
  BY SeqMonotonic DEF Rest
<1>3. z \in Rest /\ z # <<>> /\ Len(z) = Len(s) + 1 /\ Len(s) \in Nat
  BY <1>1, <1>2, AppendProperties, LenProperties DEF Rest
<1>4. Head(z) = (IF s = <<>> THEN End ELSE Head(s)) /\ Tail(z) = (IF s = <<>> THEN <<>> ELSE Append(Tail(s), End))
  BY <1>1, HeadTailAppend
<1>5. CASE s = <<>>
  BY <1>1, <1>3, <1>4, <1>5
<1>6. CASE s # <<>>
  <2>1. Head(s) \in Letter /\ Tail(s) \in Seq(Letter) /\ Len(Tail(s)) = Len(s) - 1
    BY <1>6, HeadTailProperties
  <2>2. Tail(z) \in Word
    BY <1>4, <1>6, <2>1 DEF Word
  <2>3. Len(s) # 0
    BY <1>6, EmptySeq
  <2>4. Len(Tail(z)) = Len(z) - 1
    BY <1>3, HeadTailProperties DEF Rest
  <2>5. Head(z) \in Letter /\ Head(z) # End
    BY <1>4, <1>6, <2>1, NoneIsNoCallback
  <2> QED
    BY <1>3, <2>2, <2>3, <2>4, <2>5
<1> QED
  BY <1>3, <1>5, <1>6

LEMMA WordOfEnd == <<End>> \in Word /\ Head(<<End>>) = End
<1>1. <<>> \in Seq(Letter)
  OBVIOUS
<1>2. Append(<<>>, End) = <<End>>
  OBVIOUS
<1>3. Append(<<>>, End) \in Word
  BY <1>1 DEF Word
<1>4. Head(<<End>>) = End
  OBVIOUS
<1> QED
  BY <1>2, <1>3, <1>4

LEMMA WordsAgree ==
  ASSUME NEW y \in Word, NEW z \in Word, Head(y) = Head(z),
         Head(z) # End => Tail(y) = Tail(z)
  PROVE  y = z
<1>1. CASE Head(z) = End
  BY <1>1, WordParts
<1>2. CASE Head(z) # End
  <2>1. /\ y \in Rest /\ z \in Rest /\ y # <<>> /\ z # <<>>
        /\ Len(y) \in Nat /\ Len(z) \in Nat /\ Len(y) >= 1 /\ Len(z) >= 1
    BY WordParts
  <2>2. Len(Tail(y)) = Len(y) - 1 /\ Len(Tail(z)) = Len(z) - 1
    BY <2>1, HeadTailProperties DEF Rest
  <2>0. Tail(y) = Tail(z)
    BY <1>2
  <2>3. Len(y) = Len(z)
    <3>1. Len(y) - 1 = Len(z) - 1
      BY <2>0, <2>2, Zenon
    <3> QED
      BY <2>1, <3>1
  <2>4. \A i \in 1..Len(Tail(y)) : Tail(y)[i] = y[i + 1] /\ Tail(z)[i] = z[i + 1]
    BY <1>2, <2>1, HeadTailProperties DEF Rest
  <2>5. y[1] = z[1]
    BY <2>1
  <2>6. ASSUME NEW i \in 1..Len(y) PROVE y[i] = z[i]
    <3>1. CASE i = 1
      BY <2>5, <3>1
    <3>2. CASE i # 1
      <4>1. i - 1 \in 1..(Len(y) - 1) /\ (i - 1) + 1 = i
        BY <2>1, <3>2
      <4>2. i - 1 \in 1..Len(Tail(y))
        BY <2>2, <4>1
      <4>3. Tail(y)[i - 1] = y[i] /\ Tail(z)[i - 1] = z[i]
        BY <2>4, <4>1, <4>2
      <4> QED
        BY <2>0, <4>3, Zenon
    <3> QED
      BY <3>1, <3>2
  <2> QED
    BY <2>1, <2>3, <2>6, SeqEqual DEF Rest
<1> QED
  BY <1>1, <1>2

\* A letter before a word.
LEMMA WordWithHead ==
  ASSUME NEW c \in Letter, NEW y \in Word
  PROVE  \E z \in Word : Head(z) = c /\ Tail(z) = y
<1>1. PICK s \in Seq(Letter) : y = Append(s, End)
  BY DEF Word
<1> DEFINE u == <<c>> \o s
           z == Append(u, End)
<1>2. u \in Seq(Letter) /\ u # <<>> /\ Head(u) = c
  BY ConcatProperties
<1>3. Tail(u) = s
  BY SMT
<1> HIDE DEF u
<1>4. z \in Word /\ Head(z) = c /\ Tail(z) = y
  BY <1>1, <1>2, <1>3, HeadTailAppend DEF Word
<1> QED
  BY <1>4

\* z has the letters of y, and more.
Continues(z, y) == y # z /\ Len(y) <= Len(z) /\ \A i \in 1..(Len(y) - 1) : z[i] = y[i]

LEMMA ContinuesEnd == \A z \in Word : z # <<End>> => Continues(z, <<End>>)
<1> SUFFICES ASSUME NEW z \in Word, z # <<End>> PROVE Continues(z, <<End>>)
  OBVIOUS
<1>1. Len(<<End>>) = 1 /\ Len(z) >= 1
  BY WordParts
<1>2. 1..(1 - 1) = {}
  OBVIOUS
<1> QED
  BY <1>1, <1>2 DEF Continues

LEMMA ContinuesHead ==
  ASSUME NEW y \in Word, NEW z \in Word, Continues(z, y), Head(y) # End
  PROVE  Head(z) = Head(y)
<1>1. 1 \in 1..(Len(y) - 1) /\ y \in Rest /\ z \in Rest /\ y # <<>> /\ z # <<>>
  BY WordParts
<1>2. z[1] = y[1]
  BY <1>1 DEF Continues
<1> QED
  BY <1>1, <1>2

LEMMA ContinuesTail ==
  ASSUME NEW y \in Word, NEW z \in Word, Head(y) = Head(z), Head(y) # End,
         Continues(Tail(z), Tail(y))
  PROVE  Continues(z, y)
<1>1. /\ y \in Rest /\ z \in Rest /\ y # <<>> /\ z # <<>>
      /\ Len(y) \in Nat /\ Len(z) \in Nat
  BY WordParts
<1>2. /\ Len(Tail(y)) = Len(y) - 1 /\ Len(Tail(z)) = Len(z) - 1
      /\ \A i \in 1..Len(Tail(y)) : Tail(y)[i] = y[i + 1]
      /\ \A i \in 1..Len(Tail(z)) : Tail(z)[i] = z[i + 1]
  BY <1>1, HeadTailProperties DEF Rest
<1>3. y # z /\ Len(y) <= Len(z)
  <2>1. Tail(y) # Tail(z) /\ Len(Tail(y)) <= Len(Tail(z))
    BY DEF Continues
  <2>2. y # z
    BY <2>1, Zenon
  <2>3. Len(y) - 1 <= Len(z) - 1
    BY <1>2, <2>1
  <2> QED
    BY <1>1, <2>2, <2>3
<1>4. y[1] = z[1]
  BY <1>1
<1>5. ASSUME NEW i \in 1..(Len(y) - 1) PROVE z[i] = y[i]
  <2>1. CASE i = 1
    BY <1>4, <2>1
  <2>2. CASE i # 1
    <3>1. /\ i - 1 \in 1..(Len(Tail(y)) - 1) /\ (i - 1) + 1 = i
          /\ i - 1 \in 1..Len(Tail(y)) /\ i - 1 \in 1..Len(Tail(z))
      BY <1>1, <1>2, <1>3, <2>2
    <3>2. Tail(z)[i - 1] = Tail(y)[i - 1]
      BY <3>1 DEF Continues
    <3> QED
      BY <1>2, <3>1, <3>2
  <2> QED
    BY <2>1, <2>2
<1> QED
  BY <1>3, <1>5 DEF Continues

\* No name of a table without such names continues another one.
LEMMA NamesApart ==
  ASSUME NEW T, T \subseteq Seq(Letter), Apart(T), NEW s \in T, NEW t \in T
  PROVE  ~Continues(Append(t, End), Append(s, End))
<1> DEFINE y == Append(s, End)
           z == Append(t, End)
<1> SUFFICES ASSUME Continues(z, y) PROVE FALSE
  OBVIOUS
<1>1. s \in Rest /\ t \in Rest /\ End \in Letter \cup {End}
  BY SeqMonotonic DEF Rest
<1>2. /\ Len(s) \in Nat /\ Len(t) \in Nat
      /\ Len(y) = Len(s) + 1 /\ Len(z) = Len(t) + 1
      /\ \A i \in 1..Len(s) : y[i] = s[i]
      /\ \A i \in 1..Len(t) : z[i] = t[i]
  BY <1>1, AppendProperties, LenProperties DEF Rest
<1>3. s # t
  BY DEF Continues
<1>4. Len(s) <= Len(t) /\ \A i \in 1..Len(s) : t[i] = s[i]
  <2>1. Len(s) <= Len(t) /\ (\A i \in 1..(Len(y) - 1) : z[i] = y[i])
    BY <1>2 DEF Continues
  <2>2. \A i \in 1..Len(s) : i \in 1..(Len(y) - 1) /\ i \in 1..Len(t)
    BY <1>2, <2>1
  <2> HIDE DEF y, z
  <2> QED
    BY <1>2, <2>1, <2>2
<1>5. SubSeq(t, 1, Len(s)) = s
  <2>1. \A i \in 1..Len(s) : t[i] \in Letter
    BY <1>2, <1>4, LenProperties
  <2>2. /\ SubSeq(t, 1, Len(s)) \in Seq(Letter) /\ Len(SubSeq(t, 1, Len(s))) = Len(s)
        /\ \A i \in 1..Len(s) : SubSeq(t, 1, Len(s))[i] = t[i]
    BY <1>2, <1>4
  <2> QED
    BY <1>4, <2>2, SeqEqual
<1> QED
  BY <1>3, <1>4, <1>5 DEF Apart

-----------------------------------------------------------------------------
(* What a table has for a name *)

\* The callback that a tree has for what is left of a name, None without one.
Data(t, z) == LET n == ptnode_search(t, z) IN IF n = Nil THEN None ELSE n.data

LEMMA DataOf ==
  /\ \A z \in Word : Data(Nil, z) = None
  /\ \A n : IsNode(n) => \A z \in Word :
       /\ n.key # Head(z) => Data(n, z) = Data(n.right, z)
       /\ n.key = Head(z) /\ n.key = End => Data(n, z) = n.data
       /\ n.key = Head(z) /\ n.key # End => Data(n, z) = Data(n.down, Tail(z))
<1>1. \A z \in Word : z \in Rest /\ (Head(z) # End => Tail(z) \in Rest)
  <2> TAKE z \in Word
  <2>1. z \in Rest /\ (Head(z) # End => Tail(z) \in Word)
    BY WordParts
  <2> QED
    BY <2>1, WordParts
<1>2. \A z \in Word : Data(Nil, z) = None
  BY <1>1, SearchOf DEF Data
<1>3. ASSUME NEW n, IsNode(n), NEW z \in Word
      PROVE  /\ n.key # Head(z) => Data(n, z) = Data(n.right, z)
             /\ n.key = Head(z) /\ n.key = End => Data(n, z) = n.data
             /\ n.key = Head(z) /\ n.key # End => Data(n, z) = Data(n.down, Tail(z))
  <2>1. n.key # Head(z) => ptnode_search(n, z) = ptnode_search(n.right, z)
    BY <1>1, <1>3, SearchOf
  <2>2. n.key = Head(z) /\ n.key = End => ptnode_search(n, z) = n
    BY <1>1, <1>3, SearchOf
  <2>3. n.key = Head(z) /\ n.key # End => ptnode_search(n, z) = ptnode_search(n.down, Tail(z))
    BY <1>1, <1>3, SearchOf
  <2>4. n # Nil
    BY <1>3 DEF IsNode
  <2> QED
    BY <2>1, <2>2, <2>3, <2>4 DEF Data
<1> QED
  BY <1>2, <1>3

\* A node fits over trees when it ends a name or is a letter.
LEMMA NodeIsTree ==
  ASSUME NEW d \in Nat, NEW r \in Trees[d], NEW b \in Trees[d], NEW c, NEW x,
         \/ c \in Letter /\ x = None
         \/ c = End /\ x \in Callback /\ b = Nil
  PROVE  Node(c, x, r, b) \in Trees[d + 1]
<1>1. Node(c, x, r, b) \in NodesOver(Trees[d])
  BY DEF Node, NodesOver
<1> QED
  BY <1>1, TreesOf DEF Grown

LEMMA NodeIsNode ==
  ASSUME NEW r \in Tree, NEW b \in Tree, NEW c, NEW x,
         \/ c \in Letter /\ x = None
         \/ c = End /\ x \in Callback /\ b = Nil,
         Node(c, x, r, b) \in Tree
  PROVE  IsNode(Node(c, x, r, b))
<1>1. Node(c, x, r, b) \in NodesOver(Tree)
  BY DEF Node, NodesOver
<1> QED
  BY <1>1, NoNode DEF IsNode

\* What holds of a '\0', and of a name when it holds of what is behind its letter.
LEMMA WordInduction ==
  ASSUME NEW S, <<End>> \in S, \A z \in Word : Head(z) # End /\ Tail(z) \in S => z \in S
  PROVE  \A z \in Word : z \in S
<1> DEFINE M == {k \in Nat : \A z \in Word : Len(z) = k => z \in S}
<1>1. 0 \in M
  <2>1. \A z \in Word : Len(z) # 0
    BY WordParts
  <2> QED
    BY <2>1
<1>2. ASSUME NEW k \in Nat, k \in M PROVE k + 1 \in M
  <2> SUFFICES ASSUME NEW z \in Word, Len(z) = k + 1 PROVE z \in S
    OBVIOUS
  <2>1. CASE z = <<End>>
    BY <2>1
  <2>2. CASE z # <<End>>
    <3>1. Head(z) # End /\ Tail(z) \in Word /\ Len(Tail(z)) = Len(z) - 1
      BY <2>2, WordParts
    <3>2. Len(Tail(z)) = k
      BY <3>1
    <3> QED
      BY <1>2, <3>1, <3>2
  <2> QED
    BY <2>1, <2>2
<1> HIDE DEF M
<1>3. \A k \in Nat : k \in M
  BY <1>1, <1>2, NaturalInduction
<1>4. \A z \in Word : Len(z) \in Nat
  BY WordParts
<1> QED
  BY <1>3, <1>4 DEF M

LEMMA CreatedOf ==
  /\ \A x : Created(<<End>>, x) = Node(End, x, Nil, Nil)
  /\ \A z \in Word : Head(z) # End =>
       \A x : Created(z, x) = Node(Head(z), None, Nil, Created(Tail(z), x))
<1>1. ASSUME NEW x PROVE Created(<<End>>, x) = Node(End, x, Nil, Nil)
  <2>1. <<End>> \in Rest /\ <<End>> # <<>> /\ Len(<<End>>) - 1 = 0
    BY WordOfEnd, WordParts
  <2>2. PICK g : Chain(g, <<End>>, x, Len(<<End>>) - 1) /\ Created(<<End>>, x) = g[Len(<<End>>) - 1]
    BY <2>1, CreatedIsChain
  <2> QED
    BY <2>1, <2>2 DEF Chain
<1>2. ASSUME NEW z \in Word, Head(z) # End, NEW x
      PROVE  Created(z, x) = Node(Head(z), None, Nil, Created(Tail(z), x))
  <2> DEFINE y == Tail(z)
             n == Len(z) - 1
  <2>1. /\ z \in Rest /\ z # <<>> /\ Len(z) \in Nat /\ Len(z) >= 2
        /\ y \in Word /\ Len(y) = n /\ n \in Nat /\ n >= 1
    BY <1>2, WordParts
  <2>2. y \in Rest /\ y # <<>>
    BY <2>1, WordParts
  <2>3. Head(z) = z[1] /\ \A i \in 1..n : y[i] = z[i + 1]
    BY <2>1, HeadTailProperties DEF Rest
  <2>4. PICK g : Chain(g, z, x, n) /\ Created(z, x) = g[n]
    BY <2>1, CreatedIsChain
  <2>5. PICK f : Chain(f, y, x, n - 1) /\ Created(y, x) = f[n - 1]
    BY <2>1, <2>2, CreatedIsChain
  <2> HIDE DEF y
  <2>6. g[n] = Node(z[1], None, Nil, g[n - 1])
    <3>1. n \in 1..n /\ Len(z) - n = 1
      BY <2>1
    <3> QED
      BY <2>4, <3>1 DEF Chain
  <2>7. Chain(g, z, x, n - 1)
    <3>1. \A i \in 1..(n - 1) : i \in 1..n
      BY <2>1
    <3> QED
      BY <2>4, <3>1 DEF Chain
  <2>8. \A i \in 1..(n - 1) : z[Len(z) - i] = y[Len(y) - i]
    <3> TAKE i \in 1..(n - 1)
    <3>1. n - i \in 1..n /\ (n - i) + 1 = Len(z) - i /\ Len(y) - i = n - i
      BY <2>1
    <3> QED
      BY <2>3, <3>1
  <2>9. n - 1 \in Nat
    BY <2>1
  <2>10. g[n - 1] = f[n - 1]
    BY <2>5, <2>7, <2>8, <2>9, ChainsAgree
  <2> QED
    BY <2>3, <2>4, <2>5, <2>6, <2>10 DEF y
<1> QED
  BY <1>1, <1>2

\* A new branch holds one name, and has a level for each of its characters.
LEMMA CreatedHolds ==
  ASSUME NEW x \in Callback
  PROVE  \A z \in Word :
           /\ Created(z, x) \in Trees[Len(z)]
           /\ Len(z) <= Depth =>
                /\ IsNode(Created(z, x))
                /\ \A y \in Word : Data(Created(z, x), y) = IF y = z THEN x ELSE None
<1> DEFINE Fine(z) ==
             /\ Created(z, x) \in Trees[Len(z)]
             /\ Len(z) <= Depth =>
                  /\ IsNode(Created(z, x))
                  /\ \A y \in Word : Data(Created(z, x), y) = IF y = z THEN x ELSE None
           S == {z \in Word : Fine(z)}
<1>0. Depth \in Nat
  BY DepthIsNat
<1>1. Fine(<<End>>)
  <2> DEFINE w == Node(End, x, Nil, Nil)
  <2>1. Created(<<End>>, x) = w /\ Len(<<End>>) = 1
    BY CreatedOf
  <2>2. Nil \in Trees[0] /\ 0 + 1 = 1
    BY TreesOf
  <2>3. w \in Trees[1]
    BY <2>2, NodeIsTree
  <2>4. w.key = End /\ w.data = x /\ w.right = Nil
    BY NodeFields
  <2>5. ASSUME 1 <= Depth PROVE IsNode(w) /\ \A y \in Word : Data(w, y) = IF y = <<End>> THEN x ELSE None
    <3>1. w \in Tree
      BY <2>3, <2>5, TreesInTree
    <3>2. IsNode(w)
      BY <3>1, NilIsTree, NodeIsNode
    <3> HIDE DEF w
    <3>3. ASSUME NEW y \in Word PROVE Data(w, y) = IF y = <<End>> THEN x ELSE None
      <4>1. CASE Head(y) = End
        <5>1. y = <<End>>
          BY <4>1, WordParts
        <5> QED
          BY <2>4, <3>2, <4>1, <5>1, DataOf
      <4>2. CASE Head(y) # End
        <5>1. y # <<End>>
          BY <4>2, WordOfEnd
        <5> QED
          BY <2>4, <3>2, <4>2, <5>1, DataOf
      <4> QED
        BY <4>1, <4>2
    <3> QED
      BY <3>2, <3>3
  <2> HIDE DEF w
  <2> QED
    BY <2>1, <2>3, <2>5
<1>2. ASSUME NEW z \in Word, Head(z) # End, Tail(z) \in Word, Fine(Tail(z)) PROVE Fine(z)
  <2> DEFINE v == Created(Tail(z), x)
             w == Node(Head(z), None, Nil, v)
  <2>1. Created(z, x) = w
    BY <1>2, CreatedOf
  <2>2. /\ Head(z) \in Letter /\ Len(z) \in Nat /\ Len(z) >= 2
        /\ Len(Tail(z)) = Len(z) - 1 /\ Len(Tail(z)) \in Nat /\ Len(Tail(z)) + 1 = Len(z)
    BY <1>2, WordParts
  <2>3. Nil \in Trees[Len(Tail(z))]
    <3>1. Nil \in Trees[0]
      BY TreesOf
    <3> QED
      BY <2>2, <3>1, TreesBelow
  <2>4. v \in Trees[Len(Tail(z))]
    BY <1>2
  <2>5. w \in Trees[Len(z)]
    BY <2>2, <2>3, <2>4, NodeIsTree
  <2>6. w.key = Head(z) /\ w.data = None /\ w.right = Nil /\ w.down = v
    BY NodeFields
  <2>7. ASSUME Len(z) <= Depth PROVE IsNode(w) /\ \A y \in Word : Data(w, y) = IF y = z THEN x ELSE None
    <3>1. Len(Tail(z)) <= Depth
      BY <1>0, <2>2, <2>7
    <3>2. w \in Tree /\ v \in Tree
      BY <2>2, <2>4, <2>5, <2>7, <3>1, TreesInTree
    <3>3. IsNode(w)
      BY <2>2, <3>2, NilIsTree, NodeIsNode
    <3>4. \A y \in Word : Data(v, y) = IF y = Tail(z) THEN x ELSE None
      BY <1>2, <3>1
    <3> HIDE DEF w, v
    <3>5. ASSUME NEW y \in Word PROVE Data(w, y) = IF y = z THEN x ELSE None
      <4>1. CASE Head(y) # Head(z)
        BY <2>6, <3>3, <4>1, DataOf
      <4>2. CASE Head(y) = Head(z)
        <5>1. Tail(y) \in Word
          BY <1>2, <4>2, WordParts
        <5>2. Data(w, y) = Data(v, Tail(y))
          BY <1>2, <2>6, <3>3, <4>2, DataOf
        <5>3. y = z <=> Tail(y) = Tail(z)
          BY <4>2, WordsAgree
        <5> QED
          BY <3>4, <5>1, <5>2, <5>3
      <4> QED
        BY <4>1, <4>2
    <3> QED
      BY <3>3, <3>5
  <2> HIDE DEF w, v
  <2> QED
    BY <2>1, <2>5, <2>7
<1> HIDE DEF Fine
<1>3. <<End>> \in S
  BY <1>1, WordOfEnd
<1>4. \A z \in Word : Head(z) # End /\ Tail(z) \in S => z \in S
  BY <1>2
<1> HIDE DEF S
<1>5. \A z \in Word : z \in S
  BY <1>3, <1>4, WordInduction
<1> QED
  BY <1>5 DEF S, Fine

\* A name adds no more levels than it has characters, and none if it is there.
LEMMA InsertDeep ==
  ASSUME NEW x \in Callback
  PROVE  \A t \in Tree : \A d \in Nat : t \in Trees[d] => \A z \in Word :
           /\ ptnode_insert(t, z, x) \in Trees[d + Len(z)]
           /\ Data(t, z) # None => ptnode_insert(t, z, x) \in Trees[d]
<1> DEFINE R(t, z) == ptnode_insert(t, z, x)
           Fine(t) == \A d \in Nat : t \in Trees[d] => \A z \in Word :
                        /\ R(t, z) \in Trees[d + Len(z)]
                        /\ Data(t, z) # None => R(t, z) \in Trees[d]
           S == {t \in Tree : Fine(t)}
<1>0. \A z \in Word : Len(z) \in Nat /\ z \in Rest
  BY WordParts
<1>1. Fine(Nil)
  <2> SUFFICES ASSUME NEW d \in Nat, NEW z \in Word
               PROVE  R(Nil, z) \in Trees[d + Len(z)] /\ Data(Nil, z) = None
    OBVIOUS
  <2>1. R(Nil, z) = Created(z, x)
    BY <1>0, InsertOf
  <2>2. Created(z, x) \in Trees[Len(z)]
    BY CreatedHolds
  <2>3. Len(z) \in Nat /\ d + Len(z) \in Nat /\ Len(z) <= d + Len(z)
    BY <1>0
  <2> HIDE DEF R
  <2>4. R(Nil, z) \in Trees[d + Len(z)]
    BY <2>1, <2>2, <2>3, TreesBelow
  <2> QED
    BY <2>4, DataOf
<1>2. ASSUME NEW n, IsNode(n), Fine(n.right), Fine(n.down) PROVE Fine(n)
  <2> SUFFICES ASSUME NEW d \in Nat, n \in Trees[d], NEW z \in Word
               PROVE  /\ R(n, z) \in Trees[d + Len(z)]
                      /\ Data(n, z) # None => R(n, z) \in Trees[d]
    OBVIOUS
  <2> DEFINE e == d - 1
             L == Len(z)
  <2>1. /\ e \in Nat /\ Parts(n) /\ n.right \in Trees[e] /\ n.down \in Trees[e]
    BY <1>2, NodeParts DEF IsNode
  <2>2. L \in Nat /\ L >= 1 /\ z \in Rest
    BY WordParts
  <2>3. d = e + 1 /\ e + L \in Nat /\ d + L = (e + L) + 1 /\ d <= d + L /\ e <= e + L /\ d + L \in Nat
    BY <2>1, <2>2
  <2> HIDE DEF e, L
  <2>4. CASE n.key = End
    <3>1. R(n, z) = Node(n.key, x, n.right, n.down)
      BY <1>2, <2>2, <2>4, InsertOf
    <3>2. n.down = Nil
      BY <2>1, <2>4 DEF Parts
    <3>3. R(n, z) \in Trees[e + 1]
      BY <2>1, <2>4, <3>1, <3>2, NodeIsTree
    <3>4. Trees[d] \subseteq Trees[d + L]
      BY <2>3, TreesBelow
    <3> HIDE DEF R
    <3> QED
      BY <2>3, <3>3, <3>4 DEF L
  <2>5. CASE n.key # End /\ n.key # Head(z)
    <3> DEFINE r == R(n.right, z)
    <3>1. R(n, z) = Node(n.key, n.data, r, n.down)
      BY <1>2, <2>2, <2>5, InsertOf
    <3>2. n.key \in Letter /\ n.data = None
      BY <2>1, <2>5 DEF Parts
    <3>3. r \in Trees[e + L] /\ (Data(n.right, z) # None => r \in Trees[e])
      BY <1>2, <2>1 DEF L
    <3>4. Data(n, z) = Data(n.right, z)
      BY <1>2, <2>5, DataOf
    <3> HIDE DEF R, r, Fine
    <3>5. n.down \in Trees[e + L]
      BY <2>1, <2>3, TreesBelow
    <3>6. R(n, z) \in Trees[(e + L) + 1]
      BY <2>3, <3>1, <3>2, <3>3, <3>5, NodeIsTree
    <3>7. Data(n, z) # None => R(n, z) \in Trees[e + 1]
      BY <2>1, <3>1, <3>2, <3>3, <3>4, NodeIsTree
    <3> QED
      BY <2>3, <3>6, <3>7 DEF L
  <2>6. CASE n.key # End /\ n.key = Head(z)
    <3> DEFINE r == R(n.down, Tail(z))
               K == Len(Tail(z))
    <3>1. Tail(z) \in Word /\ K = L - 1 /\ K \in Nat /\ n.key \in Letter
      BY <1>0, <2>6, WordParts DEF L
    <3>2. Tail(z) \in Rest
      BY <1>0, <3>1
    <3>3. R(n, z) = Node(n.key, n.data, n.right, r)
      BY <1>2, <2>2, <2>6, <3>2, InsertOf
    <3>4. n.data = None
      BY <2>1, <2>6 DEF Parts
    <3>5. r \in Trees[e + K] /\ (Data(n.down, Tail(z)) # None => r \in Trees[e])
      BY <1>2, <2>1, <3>1
    <3>6. Data(n, z) = Data(n.down, Tail(z))
      BY <1>2, <2>6, DataOf
    <3> HIDE DEF R, r, K, Fine
    <3>7. e + K \in Nat /\ e + L \in Nat /\ e + K <= e + L
      BY <2>1, <2>2, <2>3, <3>1
    <3>8. n.right \in Trees[e + L] /\ r \in Trees[e + L]
      BY <2>1, <2>3, <3>5, <3>7, TreesBelow
    <3>9. R(n, z) \in Trees[(e + L) + 1]
      BY <2>3, <3>1, <3>3, <3>4, <3>8, NodeIsTree
    <3>10. Data(n, z) # None => R(n, z) \in Trees[e + 1]
      BY <2>1, <3>1, <3>3, <3>4, <3>5, <3>6, NodeIsTree
    <3> QED
      BY <2>3, <3>9, <3>10 DEF L
  <2> QED
    BY <2>4, <2>5, <2>6
<1> HIDE DEF Fine
<1>3. Nil \in S
  BY <1>1, NilIsTree
<1>4. \A n : IsNode(n) /\ n.right \in S /\ n.down \in S => n \in S
  BY <1>2 DEF IsNode
<1> HIDE DEF S
<1>5. \A t \in Tree : t \in S
  BY <1>3, <1>4, TreeInduction
<1> QED
  BY <1>5 DEF S, Fine

\* There is room in the tree t, on d levels, for z.
Fits(t, d, z) ==
  t \in Trees[d] /\ (d + Len(z) <= Depth \/ (d <= Depth /\ Data(t, z) # None))

LEMMA InsertFits ==
  ASSUME NEW x \in Callback, NEW t \in Tree, NEW d \in Nat, NEW z \in Word, Fits(t, d, z)
  PROVE  ptnode_insert(t, z, x) \in Tree
<1>1. /\ ptnode_insert(t, z, x) \in Trees[d + Len(z)]
      /\ Data(t, z) # None => ptnode_insert(t, z, x) \in Trees[d]
  BY InsertDeep DEF Fits
<1>2. d + Len(z) \in Nat
  BY WordParts
<1> QED
  BY <1>1, <1>2, TreesInTree DEF Fits

\* No name in the tree ends where z goes on.
Free(t, z) == \A y \in Word : Data(t, y) # None => ~Continues(z, y)

\* After an insertion the name has its callback, and every other what it had.
LEMMA InsertStores ==
  ASSUME NEW x \in Callback
  PROVE  \A t \in Tree : \A d \in Nat, z \in Word : Fits(t, d, z) /\ Free(t, z) =>
           \A y \in Word : Data(ptnode_insert(t, z, x), y) = IF y = z THEN x ELSE Data(t, y)
<1> DEFINE R(t, z) == ptnode_insert(t, z, x)
           Fine(t) == \A d \in Nat, z \in Word : Fits(t, d, z) /\ Free(t, z) =>
                        \A y \in Word : Data(R(t, z), y) = IF y = z THEN x ELSE Data(t, y)
           S == {t \in Tree : Fine(t)}
<1>1. Fine(Nil)
  <2> SUFFICES ASSUME NEW d \in Nat, NEW z \in Word, Fits(Nil, d, z), NEW y \in Word
               PROVE  Data(R(Nil, z), y) = IF y = z THEN x ELSE Data(Nil, y)
    OBVIOUS
  <2>1. z \in Rest /\ Len(z) \in Nat
    BY WordParts
  <2>2. R(Nil, z) = Created(z, x)
    BY <2>1, InsertOf
  <2>3. Data(Nil, z) = None /\ Data(Nil, y) = None
    BY DataOf
  <2>4. Len(z) <= Depth
    BY <2>1, <2>3, DepthIsNat DEF Fits
  <2>5. Data(Created(z, x), y) = IF y = z THEN x ELSE None
    BY <2>4, CreatedHolds
  <2> HIDE DEF R
  <2> QED
    BY <2>2, <2>3, <2>5
<1>2. ASSUME NEW n, IsNode(n), n.right \in Tree, n.down \in Tree, Fine(n.right), Fine(n.down)
      PROVE  Fine(n)
  <2> SUFFICES ASSUME NEW d \in Nat, NEW z \in Word, Fits(n, d, z), Free(n, z), NEW y \in Word
               PROVE  Data(R(n, z), y) = IF y = z THEN x ELSE Data(n, y)
    OBVIOUS
  <2> DEFINE e == d - 1
  <2>1. /\ e \in Nat /\ Parts(n) /\ n.right \in Trees[e] /\ n.down \in Trees[e]
    BY <1>2, NodeParts DEF IsNode, Fits
  <2>2. z \in Rest /\ Len(z) \in Nat /\ Depth \in Nat
    BY WordParts, DepthIsNat
  <2>3. d = e + 1 /\ e <= d
    BY <2>1
  <2>4. R(n, z) \in Tree
    BY <1>2, InsertFits DEF IsNode
  <2>e. <<End>> \in Word /\ Head(<<End>>) = End
    BY WordOfEnd
  <2> HIDE DEF e
  <2>5. CASE n.key = End
    <3> DEFINE w == Node(n.key, x, n.right, n.down)
    <3>1. R(n, z) = w
      BY <1>2, <2>2, <2>5, InsertOf
    <3>2. n.down = Nil /\ n.data \in Callback
      BY <2>1, <2>5, NoneIsNoCallback DEF Parts
    <3>3. z = <<End>>
      <4>1. Data(n, <<End>>) = n.data
        BY <1>2, <2>5, <2>e, DataOf
      <4>2. Data(n, <<End>>) # None
        BY <3>2, <4>1, NoneIsNoCallback
      <4>3. ~Continues(z, <<End>>)
        BY <2>e, <4>2 DEF Free
      <4> QED
        BY <4>3, ContinuesEnd
    <3>4. w \in Tree
      BY <2>4, <3>1
    <3>5. IsNode(w)
      BY <1>2, <2>5, <3>2, <3>4, NodeIsNode
    <3>6. w.key = End /\ w.data = x /\ w.right = n.right
      BY <2>5, NodeFields
    <3> HIDE DEF w, R, Fine
    <3>7. CASE Head(y) = End
      <4>1. y = <<End>>
        BY <3>7, WordParts
      <4> QED
        BY <3>1, <3>3, <3>5, <3>6, <3>7, <4>1, DataOf
    <3>8. CASE Head(y) # End
      <4>1. y # z
        BY <2>e, <3>3, <3>8
      <4>2. Data(w, y) = Data(n.right, y)
        BY <3>5, <3>6, <3>8, DataOf
      <4>3. Data(n, y) = Data(n.right, y)
        BY <1>2, <2>5, <3>8, DataOf
      <4> QED
        BY <3>1, <4>1, <4>2, <4>3
    <3> QED
      BY <3>7, <3>8
  <2>6. CASE n.key # End /\ n.key # Head(z)
    <3> DEFINE r == R(n.right, z)
               w == Node(n.key, n.data, r, n.down)
    <3>1. R(n, z) = w
      BY <1>2, <2>2, <2>6, InsertOf
    <3>2. n.key \in Letter /\ n.data = None
      BY <2>1, <2>6 DEF Parts
    <3>3. Data(n, z) = Data(n.right, z)
      BY <1>2, <2>6, DataOf
    <3>4. Fits(n.right, e, z)
      BY <2>1, <2>2, <2>3, <3>3 DEF Fits
    <3>5. Free(n.right, z)
      <4> SUFFICES ASSUME NEW u \in Word, Data(n.right, u) # None, Continues(z, u) PROVE FALSE
        BY DEF Free
      <4>1. Head(u) # n.key
        BY <2>6, ContinuesHead
      <4>2. Data(n, u) = Data(n.right, u)
        BY <1>2, <4>1, DataOf
      <4> QED
        BY <4>2 DEF Free
    <3>6. \A u \in Word : Data(r, u) = IF u = z THEN x ELSE Data(n.right, u)
      BY <1>2, <2>1, <3>4, <3>5
    <3>7. r \in Tree
      BY <1>2, <2>1, <3>4, InsertFits
    <3>8. w \in Tree
      BY <2>4, <3>1
    <3>9. IsNode(w)
      BY <1>2, <3>2, <3>7, <3>8, NodeIsNode
    <3>10. w.key = n.key /\ w.right = r /\ w.down = n.down
      BY NodeFields
    <3> HIDE DEF w, r, R, Fine
    <3>11. CASE Head(y) = n.key
      <4>1. y # z
        BY <2>6, <3>11
      <4>2. Data(w, y) = Data(n.down, Tail(y))
        BY <2>6, <3>9, <3>10, <3>11, DataOf
      <4>3. Data(n, y) = Data(n.down, Tail(y))
        BY <1>2, <2>6, <3>11, DataOf
      <4> QED
        BY <3>1, <4>1, <4>2, <4>3
    <3>12. CASE Head(y) # n.key
      <4>1. Data(w, y) = Data(r, y)
        BY <3>9, <3>10, <3>12, DataOf
      <4>2. Data(n, y) = Data(n.right, y)
        BY <1>2, <3>12, DataOf
      <4> QED
        BY <3>1, <3>6, <4>1, <4>2
    <3> QED
      BY <3>11, <3>12
  <2>7. CASE n.key # End /\ n.key = Head(z)
    <3> DEFINE v == Tail(z)
               r == R(n.down, v)
               w == Node(n.key, n.data, n.right, r)
    <3>1. v \in Word /\ Len(v) = Len(z) - 1 /\ Len(v) \in Nat
      BY <2>7, WordParts
    <3>2. v \in Rest
      BY <3>1, WordParts
    <3>3. R(n, z) = w
      BY <1>2, <2>2, <2>7, <3>2, InsertOf
    <3>4. n.key \in Letter /\ n.data = None
      BY <2>1, <2>7 DEF Parts
    <3>5. Data(n, z) = Data(n.down, v)
      BY <1>2, <2>7, DataOf
    <3> HIDE DEF v
    <3>6. Fits(n.down, e, v)
      BY <2>1, <2>2, <2>3, <3>1, <3>5 DEF Fits
    <3>7. Free(n.down, v)
      <4> SUFFICES ASSUME NEW u \in Word, Data(n.down, u) # None, Continues(v, u) PROVE FALSE
        BY DEF Free
      <4>1. PICK q \in Word : Head(q) = n.key /\ Tail(q) = u
        BY <3>4, WordWithHead
      <4>2. Data(n, q) = Data(n.down, u)
        BY <1>2, <2>7, <4>1, DataOf
      <4>3. Continues(z, q)
        BY <2>7, <4>1, ContinuesTail DEF v
      <4> QED
        BY <4>2, <4>3 DEF Free
    <3>8. \A u \in Word : Data(r, u) = IF u = v THEN x ELSE Data(n.down, u)
      BY <1>2, <2>1, <3>1, <3>6, <3>7
    <3>9. r \in Tree
      BY <1>2, <2>1, <3>1, <3>6, InsertFits
    <3>10. w \in Tree
      BY <2>4, <3>3
    <3>11. IsNode(w)
      BY <1>2, <3>4, <3>9, <3>10, NodeIsNode
    <3>12. w.key = n.key /\ w.right = n.right /\ w.down = r
      BY NodeFields
    <3> HIDE DEF w, r, R, Fine
    <3>13. CASE Head(y) = n.key
      <4>1. Data(w, y) = Data(r, Tail(y))
        BY <2>7, <3>11, <3>12, <3>13, DataOf
      <4>2. Data(n, y) = Data(n.down, Tail(y))
        BY <1>2, <2>7, <3>13, DataOf
      <4>3. Tail(y) \in Word
        BY <2>7, <3>13, WordParts
      <4>4. y = z <=> Tail(y) = v
        BY <2>7, <3>13, WordsAgree DEF v
      <4> QED
        BY <3>3, <3>8, <4>1, <4>2, <4>3, <4>4
    <3>14. CASE Head(y) # n.key
      <4>1. y # z
        BY <2>7, <3>14
      <4>2. Data(w, y) = Data(n.right, y)
        BY <3>11, <3>12, <3>14, DataOf
      <4>3. Data(n, y) = Data(n.right, y)
        BY <1>2, <3>14, DataOf
      <4> QED
        BY <3>3, <4>1, <4>2, <4>3
    <3> QED
      BY <3>13, <3>14
  <2> QED
    BY <2>5, <2>6, <2>7
<1> HIDE DEF Fine
<1>3. Nil \in S
  BY <1>1, NilIsTree
<1>4. \A n : IsNode(n) /\ n.right \in S /\ n.down \in S => n \in S
  BY <1>2 DEF IsNode
<1> HIDE DEF S
<1>5. \A t \in Tree : t \in S
  BY <1>3, <1>4, TreeInduction
<1> QED
  BY <1>5 DEF S, Fine

-----------------------------------------------------------------------------
(* The tables *)

\* The names of T that t has a callback for.
Stored(t, T) == {s \in T : Data(t, Append(s, End)) # None}

\* t has callbacks for names of T only, and no more levels than they need.
Kept(t, T) ==
  /\ t \in Tree /\ t \in Trees[Longest * Cardinality(Stored(t, T))]
  /\ \A y \in Word : Data(t, y) # None => \E s \in T : y = Append(s, End)

Table(t, T) == t = Null \/ Kept(t, T)

TableInv ==
  /\ Table(commands, Name) /\ Table(secondary, SiteName)
  /\ pc = "new" => commands = Null /\ secondary = Null

\* The names of one table.
IsNameSet(T) ==
  /\ T \subseteq Seq(Letter) /\ IsFiniteSet(T) /\ Apart(T)
  /\ Cardinality(T) \in Nat /\ Cardinality(T) <= Most
  /\ \A s \in T : Len(s) < Longest

LEMMA NameSets == IsNameSet(Name) /\ IsNameSet(SiteName)
BY NameAssumption, PrefixFree, DepthIsEnough DEF IsNameSet

LEMMA NullIsNoTree == Null \notin Tree /\ Null # Nil
<1>1. Depth # 0 => Tree = {Nil} \cup NodesOver(Trees[Depth - 1])
  <2> SUFFICES ASSUME Depth # 0 PROVE Tree = {Nil} \cup NodesOver(Trees[Depth - 1])
    OBVIOUS
  <2>1. Depth - 1 \in Nat /\ (Depth - 1) + 1 = Depth
    BY DepthIsNat
  <2>2. Tree = Trees[Depth]
    BY DEF Tree, Depth
  <2> HIDE DEF Depth
  <2> QED
    BY <2>1, <2>2, TreesOf DEF Grown
<1>2. Depth = 0 => Tree = {Nil}
  BY TreesOf DEF Tree, Depth
<1>3. Depth # 0 => NodesOver(Trees[Depth - 1]) \subseteq NodesOver(Tree)
  <2>1. Depth # 0 => Depth - 1 \in Nat /\ Depth - 1 <= Depth
    BY DepthIsNat
  <2> HIDE DEF Depth
  <2> QED
    BY <2>1, TreesInTree, NodesOverMore
<1> HIDE DEF Depth
<1> QED
  BY <1>1, <1>2, <1>3, NoNode

LEMMA Multiples ==
  /\ \A a, b \in Nat : a <= b => Longest * a <= Longest * b
  /\ \A a \in Nat : Longest * (a + 1) = Longest * a + Longest /\ Longest * a \in Nat
  /\ Depth = Longest * Most /\ Longest \in Nat /\ Most \in Nat
<1>1. Longest \in Nat /\ Most \in Nat
  BY NameAssumption, DepthIsEnough
<1>2. \A a, l \in Nat : l * (a + 1) = l * a + l /\ l * a \in Nat
  OBVIOUS
<1>3. ASSUME NEW a \in Nat, NEW b \in Nat, a <= b PROVE Longest * a <= Longest * b
  <2>1. b - a \in Nat /\ b = a + (b - a)
    BY <1>3
  <2>2. \A c, l, k \in Nat : l * (c + k) = l * c + l * k /\ l * k \in Nat /\ l * c \in Nat
    OBVIOUS
  <2>3. Longest * b = Longest * a + Longest * (b - a) /\ Longest * (b - a) \in Nat /\ Longest * a \in Nat
    BY <1>1, <2>1, <2>2
  <2> QED
    BY <2>3
<1>4. Depth = Longest * Most
  BY <1>1 DEF Depth
<1> QED
  BY <1>1, <1>2, <1>3, <1>4

LEMMA WordOfName ==
  ASSUME NEW s \in Seq(Letter)
  PROVE  /\ Append(s, End) \in Word /\ Len(Append(s, End)) = Len(s) + 1 /\ Len(s) \in Nat
         /\ \A u \in Seq(Letter) : Append(s, End) = Append(u, End) => s = u
<1>1. s \in Rest /\ End \in Letter \cup {End} /\ \A u \in Seq(Letter) : u \in Rest
  BY SeqMonotonic DEF Rest
<1>2. Append(s, End) \in Word
  BY DEF Word
<1>3. Len(Append(s, End)) = Len(s) + 1 /\ Len(s) \in Nat
  BY <1>1, AppendProperties, LenProperties DEF Rest
<1>4. \A u \in Seq(Letter) : Append(s, End) = Append(u, End) => s = u
  BY <1>1, AppendInjective DEF Rest
<1> QED
  BY <1>2, <1>3, <1>4

LEMMA EmptyKept ==
  ASSUME NEW T, T \subseteq Seq(Letter)
  PROVE  Kept(Nil, T)
<1>1. \A y \in Word : Data(Nil, y) = None
  BY DataOf
<1>2. Stored(Nil, T) = {}
  BY <1>1, WordOfName DEF Stored
<1>3. Longest * Cardinality(Stored(Nil, T)) = 0
  BY <1>2, FS_EmptySet, Multiples
<1> QED
  BY <1>1, <1>3, NilIsTree, TreesOf DEF Kept

\* A registration stores one name of the table, and touches no other name.
LEMMA RegisterKeeps ==
  ASSUME NEW T, IsNameSet(T), NEW t, Kept(t, T), NEW name \in T, NEW x \in Callback
  PROVE  /\ Kept(pttree_insert(t, name, x), T)
         /\ \A s \in Seq(Letter) : Data(pttree_insert(t, name, x), Append(s, End)) =
                                     IF s = name THEN x ELSE Data(t, Append(s, End))
<1> DEFINE z == Append(name, End)
           r == pttree_insert(t, name, x)
           A == Stored(t, T)
           d == Longest * Cardinality(A)
<1>1. /\ z \in Word /\ Len(z) = Len(name) + 1 /\ Len(name) \in Nat /\ Len(name) < Longest
      /\ name \in Seq(Letter)
  BY WordOfName DEF IsNameSet
<1>2. /\ A \subseteq T /\ IsFiniteSet(A) /\ Cardinality(A) \in Nat
      /\ Cardinality(A) <= Cardinality(T) /\ Cardinality(T) \in Nat /\ Cardinality(T) <= Most
  <2>1. A \subseteq T
    BY DEF Stored
  <2> HIDE DEF A
  <2> QED
    BY <2>1, FS_Subset, FS_CardinalityType DEF IsNameSet
<1>3. name \in A <=> Data(t, z) # None
  BY DEF Stored
<1>4. d \in Nat /\ t \in Trees[d] /\ t \in Tree
  BY <1>2, Multiples DEF Kept
<1>5. name \notin A => /\ Cardinality(A \cup {name}) = Cardinality(A) + 1
                       /\ Cardinality(A \cup {name}) <= Most
  <2> HIDE DEF A
  <2> SUFFICES ASSUME name \notin A
               PROVE  Cardinality(A \cup {name}) = Cardinality(A) + 1 /\ Cardinality(A \cup {name}) <= Most
    OBVIOUS
  <2>1. Cardinality(A \cup {name}) = Cardinality(A) + 1
    BY <1>2, FS_AddElement
  <2>2. A \cup {name} \subseteq T
    BY <1>2
  <2>3. Cardinality(A \cup {name}) <= Cardinality(T)
    BY <2>2, FS_Subset DEF IsNameSet
  <2> DEFINE b == Cardinality(A \cup {name})
             a == Cardinality(A)
             c == Cardinality(T)
  <2>4. b = a + 1 /\ b <= c /\ a \in Nat /\ c \in Nat /\ c <= Most
    BY <1>2, <2>1, <2>3
  <2>5. Most \in Nat
    BY DepthIsEnough
  <2> HIDE DEF a, b, c
  <2>6. b = a + 1 /\ b <= Most
    BY <2>4, <2>5
  <2> QED
    BY <2>6 DEF a, b
<1> DEFINE B == IF name \in A THEN A ELSE A \cup {name}
           e == Longest * Cardinality(B)
<1>6. /\ Cardinality(B) \in Nat /\ Cardinality(B) <= Most
      /\ name \notin A => Cardinality(B) = Cardinality(A) + 1
  <2>1. CASE name \in A
    <3>1. B = A
      BY <2>1
    <3>2. Cardinality(A) <= Most
      BY <1>2, DepthIsEnough
    <3> QED
      BY <1>2, <2>1, <3>1, <3>2
  <2>2. CASE name \notin A
    <3>1. B = A \cup {name}
      BY <2>2
    <3> HIDE DEF B, A
    <3>2. Cardinality(B) = Cardinality(A) + 1 /\ Cardinality(B) <= Most
      BY <1>5, <2>2, <3>1
    <3> QED
      BY <1>2, <3>2
  <2> QED
    BY <2>1, <2>2
<1>7. e \in Nat /\ e <= Depth
  <2> HIDE DEF B
  <2> QED
    BY <1>6, Multiples
<1>8. name \notin A => d + Len(z) <= e /\ d + Len(z) \in Nat
  <2> SUFFICES ASSUME name \notin A PROVE d + Len(z) <= e /\ d + Len(z) \in Nat
    OBVIOUS
  <2>1. e = d + Longest
    <3>1. Cardinality(B) = Cardinality(A) + 1 /\ Cardinality(A) \in Nat
      BY <1>2, <1>6
    <3> HIDE DEF A, B
    <3> QED
      BY <3>1, Multiples
  <2>2. Len(z) \in Nat /\ Len(z) <= Longest /\ Longest \in Nat
    BY <1>1, Multiples
  <2> HIDE DEF d, e, z
  <2> QED
    BY <1>4, <2>1, <2>2
<1>9. Fits(t, d, z)
  <2>1. name \in A => d = e
    OBVIOUS
  <2>2. Depth \in Nat /\ Len(z) \in Nat
    BY <1>1, DepthIsNat
  <2> HIDE DEF d, e, A, z
  <2> QED
    BY <1>3, <1>4, <1>7, <1>8, <2>1, <2>2 DEF Fits
<1>10. Free(t, z)
  <2> SUFFICES ASSUME NEW y \in Word, Data(t, y) # None PROVE ~Continues(z, y)
    BY DEF Free
  <2>1. PICK s \in T : y = Append(s, End)
    BY DEF Kept
  <2> QED
    BY <2>1, NamesApart DEF IsNameSet
<1>11. r = ptnode_insert(t, z, x)
  BY DEF pttree_insert
<1>12. r \in Tree
  BY <1>1, <1>4, <1>9, <1>11, InsertFits
<1>13. \A y \in Word : Data(r, y) = IF y = z THEN x ELSE Data(t, y)
  <2> HIDE DEF r, z, d
  <2> QED
    BY <1>1, <1>4, <1>9, <1>10, <1>11, InsertStores
<1>14. r \in Trees[e]
  <2>1. r \in Trees[d + Len(z)] /\ (Data(t, z) # None => r \in Trees[d])
    BY <1>1, <1>4, <1>11, InsertDeep
  <2>2. name \in A => d = e
    OBVIOUS
  <2> HIDE DEF d, e, A, r, z
  <2> QED
    BY <1>3, <1>7, <1>8, <2>1, <2>2, TreesBelow
<1>15. ASSUME NEW s \in Seq(Letter)
       PROVE  Data(r, Append(s, End)) = IF s = name THEN x ELSE Data(t, Append(s, End))
  <2>1. Append(s, End) \in Word /\ (Append(s, End) = z <=> s = name)
    BY <1>1, WordOfName
  <2> HIDE DEF r, z
  <2> QED
    BY <1>13, <2>1
<1>16. x # None
  BY NoneIsNoCallback
<1>17. Stored(r, T) = B
  <2>1. \A s \in T : s \in Stored(r, T) <=> (s = name \/ s \in A)
    <3>1. \A s \in T : s \in Seq(Letter)
      BY DEF IsNameSet
    <3> HIDE DEF r
    <3> QED
      BY <1>15, <1>16, <3>1 DEF Stored
  <2>2. Stored(r, T) \subseteq T /\ B \subseteq T
    BY <1>2 DEF Stored
  <2> HIDE DEF r, A
  <2> QED
    BY <2>1, <2>2
<1>18. \A y \in Word : Data(r, y) # None => \E s \in T : y = Append(s, End)
  <2> SUFFICES ASSUME NEW y \in Word, Data(r, y) # None PROVE \E s \in T : y = Append(s, End)
    OBVIOUS
  <2>1. y = z \/ Data(t, y) # None
    BY <1>13
  <2> QED
    BY <2>1 DEF Kept
<1> HIDE DEF r, B
<1>19. Kept(r, T)
  BY <1>12, <1>14, <1>17, <1>18 DEF Kept
<1> QED
  BY <1>15, <1>19 DEF r

LEMMA CallIsData ==
  \A T, t : Table(t, T) =>
    \A s : ftpcmd_call(t, s) = IF t = Null THEN None ELSE Data(t, Append(s, End))
BY DEF ftpcmd_call, pttree_search, Data

LEMMA TableInvHolds == Spec => []TableInv
<1>1. Init => TableInv
  BY DEF Init, TableInv, Table
<1>2. TableInv /\ [Next]_vars => TableInv'
  <2> SUFFICES ASSUME TableInv, [Next]_vars PROVE TableInv'
    OBVIOUS
  <2>1. CASE ftpcmd_create
    <3>1. Kept(Nil, Name) /\ Kept(Nil, SiteName)
      BY NameSets, EmptyKept DEF IsNameSet
    <3>2. commands' \in {Nil, Null} /\ secondary' \in {Nil, Null} /\ pc' = "created"
      BY <2>1 DEF ftpcmd_create
    <3>3. Table(commands', Name) /\ Table(secondary', SiteName)
      BY <3>1, <3>2 DEF Table
    <3> QED
      BY <3>2, <3>3 DEF TableInv
  <2>2. ASSUME NEW n \in Name, NEW f \in Callback, ftpcmd_register(n, f) PROVE TableInv'
    <3>1. Kept(commands, Name)
      BY <2>2 DEF ftpcmd_register, TableInv, Table
    <3>2. Kept(pttree_insert(commands, n, f), Name)
      BY <3>1, NameSets, RegisterKeeps
    <3>3. Table(commands', Name)
      BY <2>2, <3>2 DEF ftpcmd_register, Table
    <3> QED
      BY <2>2, <3>3 DEF ftpcmd_register, TableInv
  <2>3. ASSUME NEW n \in SiteName, NEW f \in Callback, ftpcmd_register_site(n, f) PROVE TableInv'
    <3>1. Kept(secondary, SiteName)
      BY <2>3 DEF ftpcmd_register_site, TableInv, Table
    <3>2. Kept(pttree_insert(secondary, n, f), SiteName)
      BY <3>1, NameSets, RegisterKeeps
    <3>3. Table(secondary', SiteName)
      BY <2>3, <3>2 DEF ftpcmd_register_site, Table
    <3> QED
      BY <2>3, <3>3 DEF ftpcmd_register_site, TableInv
  <2>4. CASE ftpcmd_destroy
    <3>1. CASE pttree_destroy_returns(commands) /\ pttree_destroy_returns(secondary)
      BY <2>4, <3>1 DEF ftpcmd_destroy, TableInv, Table
    <3>2. CASE ~(pttree_destroy_returns(commands) /\ pttree_destroy_returns(secondary))
      BY <2>4, <3>2 DEF ftpcmd_destroy, TableInv
    <3> QED
      BY <3>1, <3>2
  <2>5. CASE Crashed
    BY <2>5 DEF Crashed, vars, TableInv
  <2>6. CASE UNCHANGED vars
    BY <2>6 DEF vars, TableInv
  <2> QED
    BY <2>1, <2>2, <2>3, <2>4, <2>5, <2>6 DEF Next
<1> QED
  BY <1>1, <1>2, PTL DEF Spec

LEMMA OthersUnknown ==
  ASSUME NEW T, IsNameSet(T), NEW t, Table(t, T), NEW s \in Seq(Letter), s \notin T
  PROVE  ftpcmd_call(t, s) = None
<1> SUFFICES ASSUME t # Null PROVE Data(t, Append(s, End)) = None
  BY CallIsData
<1> SUFFICES ASSUME Data(t, Append(s, End)) # None PROVE FALSE
  OBVIOUS
<1>1. PICK u \in T : Append(s, End) = Append(u, End)
  BY WordOfName DEF Table, Kept
<1>2. u \in Seq(Letter)
  BY DEF IsNameSet
<1> QED
  BY <1>1, <1>2, WordOfName

\* Whatever was registered in either table, ftpcmd_call returns false for what
\* was not: a beginning of a name of the table, or a name of the other one
\* (server/cmd.c, util/pt.c).
THEOREM OthersRefused == Spec => []OnlyRegistered
<1>1. TableInv => OnlyRegistered
  <2> SUFFICES ASSUME TableInv PROVE OnlyRegistered
    OBVIOUS
  <2>1. ASSUME NEW n \in Name, NEW k \in 0..(Len(n) - 1)
        PROVE  ftpcmd_call(commands, SubSeq(n, 1, k)) = None
    <3> DEFINE s == SubSeq(n, 1, k)
    <3>1. n \in Seq(Letter) /\ Len(n) \in Nat /\ k \in Nat /\ k < Len(n)
      BY <2>1, NameSets, LenProperties DEF IsNameSet
    <3>2. s \in Seq(Letter) /\ Len(s) = k
      BY <3>1
    <3> HIDE DEF s
    <3>3. s \notin Name
      <4> SUFFICES ASSUME s \in Name PROVE FALSE
        OBVIOUS
      <4>1. s # n /\ Len(s) <= Len(n)
        BY <3>1, <3>2
      <4>2. SubSeq(n, 1, Len(s)) = s
        BY <3>2 DEF s
      <4> QED
        BY <2>1, <4>1, <4>2, NameSets DEF IsNameSet, Apart
    <3>4. ftpcmd_call(commands, s) = None
      BY <3>2, <3>3, NameSets, OthersUnknown DEF TableInv
    <3> QED
      BY <3>4 DEF s
  <2>2. ASSUME NEW n \in SiteName \ Name PROVE ftpcmd_call(commands, n) = None
    BY <2>2, NameSets, OthersUnknown DEF TableInv, IsNameSet
  <2>3. ASSUME NEW n \in Name \ SiteName PROVE ftpcmd_call(secondary, n) = None
    BY <2>3, NameSets, OthersUnknown DEF TableInv, IsNameSet
  <2> QED
    BY <2>1, <2>2, <2>3 DEF OnlyRegistered
<1> QED
  BY <1>1, TableInvHolds, PTL

-----------------------------------------------------------------------------
(* The tables as maps *)

LEMMA RegisterSets ==
  ASSUME NEW T, IsNameSet(T), NEW t, Table(t, T), t # Null, NEW n \in T, NEW f \in Callback
  PROVE  [s \in T |-> ftpcmd_call(pttree_insert(t, n, f), s)] =
           [[s \in T |-> ftpcmd_call(t, s)] EXCEPT ![n] = f]
<1> DEFINE r == pttree_insert(t, n, f)
<1>1. Kept(t, T)
  BY DEF Table
<1>2. /\ Kept(r, T)
      /\ \A s \in Seq(Letter) : Data(r, Append(s, End)) = IF s = n THEN f ELSE Data(t, Append(s, End))
  BY <1>1, RegisterKeeps
<1> HIDE DEF r
<1>3. r # Null
  BY <1>2, NullIsNoTree DEF Kept
<1>4. Table(r, T)
  BY <1>2 DEF Table
<1>5. ASSUME NEW s \in T PROVE ftpcmd_call(r, s) = IF s = n THEN f ELSE ftpcmd_call(t, s)
  <2>1. s \in Seq(Letter)
    BY DEF IsNameSet
  <2>2. ftpcmd_call(r, s) = Data(r, Append(s, End)) /\ ftpcmd_call(t, s) = Data(t, Append(s, End))
    BY <1>3, <1>4, CallIsData
  <2> QED
    BY <1>2, <2>1, <2>2
<1>6. [s \in T |-> ftpcmd_call(r, s)] = [[s \in T |-> ftpcmd_call(t, s)] EXCEPT ![n] = f]
  BY <1>5
<1> QED
  BY <1>6 DEF r

LEMMA NothingYet ==
  ASSUME NEW T, T \subseteq Seq(Letter)
  PROVE  \A s \in T : ftpcmd_call(Null, s) = None /\ ftpcmd_call(Nil, s) = None
<1>1. Table(Null, T) /\ Table(Nil, T)
  BY EmptyKept DEF Table
<1>2. \A s \in T : Data(Nil, Append(s, End)) = None
  BY WordOfName, DataOf
<1> QED
  BY <1>1, <1>2, CallIsData

\* A command runs the function last registered for its name, whatever names that
\* share letters with it were registered before and after: the first table
\* implements KeyMap call by call (server/cmd.c, util/pt.c).
THEOREM CommandsMapped == Spec => CommandsAreMap
<1> DEFINE map(t) == [n \in Name |-> ftpcmd_call(t, n)]
<1>0. \A n \in Name : ftpcmd_call(Null, n) = None /\ ftpcmd_call(Nil, n) = None
  BY NameSets, NothingYet DEF IsNameSet
<1>1. Init => Primary!Init
  BY <1>0 DEF Init, Primary!Init
<1>2. TableInv /\ [Next]_vars =>
        [Primary!Destroy \/ \E k \in Name, v \in Callback : Primary!Set(k, v)]_
          <<[n \in Name |-> ftpcmd_call(commands, n)], call>>
  <2> SUFFICES ASSUME TableInv, [Next]_vars
               PROVE  \/ Primary!Destroy
                      \/ \E k \in Name, v \in Callback : Primary!Set(k, v)
                      \/ UNCHANGED <<[n \in Name |-> ftpcmd_call(commands, n)], call>>
    OBVIOUS
  <2>a. [n \in Name |-> ftpcmd_call(commands, n)] = map(commands) /\ [n \in Name |-> ftpcmd_call(commands, n)]' = map(commands')
    OBVIOUS
  <2>b. map(Null) = [n \in Name |-> None] /\ map(Nil) = [n \in Name |-> None]
    BY <1>0
  <2>1. CASE ftpcmd_create
    <3>1. commands = Null /\ (commands' = Nil \/ commands' = Null) /\ UNCHANGED call
      BY <2>1 DEF ftpcmd_create, TableInv
    <3> HIDE DEF map
    <3>2. map(commands') = map(commands)
      BY <2>b, <3>1
    <3> QED
      BY <2>a, <3>1, <3>2
  <2>2. ASSUME NEW k \in Name, NEW v \in Callback, ftpcmd_register(k, v) PROVE Primary!Set(k, v)
    <3>1. map(pttree_insert(commands, k, v)) = [map(commands) EXCEPT ![k] = v]
      BY <2>2, NameSets, RegisterSets DEF ftpcmd_register, TableInv
    <3> HIDE DEF map
    <3>2. map(commands') = [map(commands) EXCEPT ![k] = v] /\ call' = <<"insert", k, v>>
      BY <2>2, <3>1 DEF ftpcmd_register
    <3> QED
      BY <2>a, <3>2 DEF Primary!Set
  <2>3. ASSUME NEW k \in SiteName, NEW v \in Callback, ftpcmd_register_site(k, v)
        PROVE  UNCHANGED <<[n \in Name |-> ftpcmd_call(commands, n)], call>>
    BY <2>3 DEF ftpcmd_register_site
  <2>4. CASE ftpcmd_destroy
    <3>1. CASE pttree_destroy_returns(commands) /\ pttree_destroy_returns(secondary)
      <4>1. commands' = Null /\ call' = <<"create">>
        BY <2>4, <3>1 DEF ftpcmd_destroy
      <4> HIDE DEF map
      <4>2. map(commands') = [n \in Name |-> None]
        BY <2>b, <4>1
      <4>3. Primary!Destroy
        BY <2>a, <4>1, <4>2 DEF Primary!Destroy
      <4> QED
        BY <4>3
    <3>2. CASE ~(pttree_destroy_returns(commands) /\ pttree_destroy_returns(secondary))
      <4>1. UNCHANGED <<commands, call>>
        BY <2>4, <3>2 DEF ftpcmd_destroy
      <4> QED
        BY <4>1
    <3> QED
      BY <3>1, <3>2
  <2>5. CASE Crashed
    BY <2>5 DEF Crashed, vars
  <2>6. CASE UNCHANGED vars
    BY <2>6 DEF vars
  <2> QED
    BY <2>1, <2>2, <2>3, <2>4, <2>5, <2>6 DEF Next
<1>3. Spec => Primary!Init /\ [][Primary!Destroy \/ \E k \in Name, v \in Callback : Primary!Set(k, v)]_
                               <<[n \in Name |-> ftpcmd_call(commands, n)], call>>
  BY <1>1, <1>2, TableInvHolds, PTL DEF Spec
<1> QED
  BY <1>3, PTL DEF CommandsAreMap, Primary!SetSpec

\* So does the table of SITE commands.
THEOREM SiteMapped == Spec => SiteIsMap
<1> DEFINE map(t) == [n \in SiteName |-> ftpcmd_call(t, n)]
<1>0. \A n \in SiteName : ftpcmd_call(Null, n) = None /\ ftpcmd_call(Nil, n) = None
  BY NameSets, NothingYet DEF IsNameSet
<1>1. Init => Site!Init
  BY <1>0 DEF Init, Site!Init
<1>2. TableInv /\ [Next]_vars =>
        [Site!Destroy \/ \E k \in SiteName, v \in Callback : Site!Set(k, v)]_
          <<[n \in SiteName |-> ftpcmd_call(secondary, n)], siteCall>>
  <2> SUFFICES ASSUME TableInv, [Next]_vars
               PROVE  \/ Site!Destroy
                      \/ \E k \in SiteName, v \in Callback : Site!Set(k, v)
                      \/ UNCHANGED <<[n \in SiteName |-> ftpcmd_call(secondary, n)], siteCall>>
    OBVIOUS
  <2>a. [n \in SiteName |-> ftpcmd_call(secondary, n)] = map(secondary) /\ [n \in SiteName |-> ftpcmd_call(secondary, n)]' = map(secondary')
    OBVIOUS
  <2>b. map(Null) = [n \in SiteName |-> None] /\ map(Nil) = [n \in SiteName |-> None]
    BY <1>0
  <2>1. CASE ftpcmd_create
    <3>1. secondary = Null /\ (secondary' = Nil \/ secondary' = Null) /\ UNCHANGED siteCall
      BY <2>1 DEF ftpcmd_create, TableInv
    <3> HIDE DEF map
    <3>2. map(secondary') = map(secondary)
      BY <2>b, <3>1
    <3> QED
      BY <2>a, <3>1, <3>2
  <2>2. ASSUME NEW k \in SiteName, NEW v \in Callback, ftpcmd_register_site(k, v) PROVE Site!Set(k, v)
    <3>1. map(pttree_insert(secondary, k, v)) = [map(secondary) EXCEPT ![k] = v]
      BY <2>2, NameSets, RegisterSets DEF ftpcmd_register_site, TableInv
    <3> HIDE DEF map
    <3>2. map(secondary') = [map(secondary) EXCEPT ![k] = v] /\ siteCall' = <<"insert", k, v>>
      BY <2>2, <3>1 DEF ftpcmd_register_site
    <3> QED
      BY <2>a, <3>2 DEF Site!Set
  <2>3. ASSUME NEW k \in Name, NEW v \in Callback, ftpcmd_register(k, v)
        PROVE  UNCHANGED <<[n \in SiteName |-> ftpcmd_call(secondary, n)], siteCall>>
    BY <2>3 DEF ftpcmd_register
  <2>4. CASE ftpcmd_destroy
    <3>1. CASE pttree_destroy_returns(commands) /\ pttree_destroy_returns(secondary)
      <4>1. secondary' = Null /\ siteCall' = <<"create">>
        BY <2>4, <3>1 DEF ftpcmd_destroy
      <4> HIDE DEF map
      <4>2. map(secondary') = [n \in SiteName |-> None]
        BY <2>b, <4>1
      <4>3. Site!Destroy
        BY <2>a, <4>1, <4>2 DEF Site!Destroy
      <4> QED
        BY <4>3
    <3>2. CASE ~(pttree_destroy_returns(commands) /\ pttree_destroy_returns(secondary))
      <4>1. UNCHANGED <<secondary, siteCall>>
        BY <2>4, <3>2 DEF ftpcmd_destroy
      <4> QED
        BY <4>1
    <3> QED
      BY <3>1, <3>2
  <2>5. CASE Crashed
    BY <2>5 DEF Crashed, vars
  <2>6. CASE UNCHANGED vars
    BY <2>6 DEF vars
  <2> QED
    BY <2>1, <2>2, <2>3, <2>4, <2>5, <2>6 DEF Next
<1>3. Spec => Site!Init /\ [][Site!Destroy \/ \E k \in SiteName, v \in Callback : Site!Set(k, v)]_
                               <<[n \in SiteName |-> ftpcmd_call(secondary, n)], siteCall>>
  BY <1>1, <1>2, TableInvHolds, PTL DEF Spec
<1> QED
  BY <1>3, PTL DEF SiteIsMap, Site!SetSpec

=============================================================================
