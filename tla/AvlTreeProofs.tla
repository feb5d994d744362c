--------------------------- MODULE AvlTreeProofs ---------------------------
(***************************************************************************)
(* util/avl.c: after every sequence of insertions and removals the tree is *)
(* ordered, balanced, and the map its users take it for.                   *)
(***************************************************************************)
EXTENDS AvlTree, FiniteSetTheorems, WellFoundedInduction, TLAPS

LEMMA NaturalInduction ==
  ASSUME NEW S, 0 \in S, \A n \in Nat : n \in S => n + 1 \in S
  PROVE  \A n \in Nat : n \in S
<1> DEFINE R == OpToRel(<, Nat)
           M == {n \in Nat : n \notin S}
<1>1. \A x, y \in Nat : x < y => <<x, y>> \in R
  BY DEF OpToRel
<1>2. IsWellFoundedOn(R, Nat)
  BY NatLessThanWellFounded
<1>3. M \subseteq Nat
  OBVIOUS
<1> HIDE DEF R
<1>4. ASSUME M # {} PROVE FALSE
  <2> HIDE DEF M
  <2>1. PICK m \in M : \A y \in M : ~(<<y, m>> \in R)
    BY <1>2, <1>3, <1>4, WFMin
  <2> USE DEF M
  <2>2. m # 0 /\ m \in Nat
    OBVIOUS
  <2>3. m - 1 \in Nat /\ m - 1 < m /\ (m - 1) + 1 = m
    BY <2>2
  <2>4. m - 1 \notin M
    BY <1>1, <2>1, <2>2, <2>3
  <2> QED
    BY <2>2, <2>3, <2>4
<1> QED
  BY <1>4

-----------------------------------------------------------------------------
(* Trees *)

\* The trees that have a node at the top, with subtrees from T.
Grown(T) == {Nil} \cup [key : Key, val : Value, left : T, right : T]

\* f[k] are the trees on k levels, for k up to n.
Levels(f, n) == f[0] = {Nil} /\ \A k \in 1..n : f[k] = Grown(f[k - 1])

LEMMA LevelsExist == \A n \in Nat : \E f : Levels(f, n)
<1> DEFINE S == {n \in Nat : \E f : Levels(f, n)}
<1>1. 0 \in S
  <2>1. Levels([k \in {0} |-> {Nil}], 0)
    BY DEF Levels
  <2> QED
    BY <2>1
<1>2. ASSUME NEW n \in Nat, n \in S PROVE n + 1 \in S
  <2>1. PICK f : Levels(f, n)
    BY <1>2
  <2> DEFINE g == [k \in 0..(n + 1) |-> IF k = n + 1 THEN Grown(f[n]) ELSE f[k]]
  <2>2. \A k \in 0..n : g[k] = f[k]
    OBVIOUS
  <2>3. g[n + 1] = Grown(f[n])
    OBVIOUS
  <2>4. \A k \in 1..(n + 1) : k - 1 \in 0..n /\ (k = n + 1 \/ (k \in 1..n /\ k \in 0..n))
    OBVIOUS
  <2> HIDE DEF g
  <2>5. Levels(g, n + 1)
    <3>1. g[0] = {Nil}
      BY <2>1, <2>2 DEF Levels
    <3>2. ASSUME NEW k \in 1..(n + 1) PROVE g[k] = Grown(g[k - 1])
      <4>1. CASE k = n + 1
        BY <2>2, <2>3, <4>1
      <4>2. CASE k \in 1..n
        <5>1. f[k] = Grown(f[k - 1])
          BY <2>1, <4>2 DEF Levels
        <5>2. g[k] = f[k] /\ g[k - 1] = f[k - 1]
          BY <2>2, <2>4, <4>2
        <5> QED
          BY <5>1, <5>2
      <4> QED
        BY <2>4, <4>1, <4>2
    <3> QED
      BY <3>1, <3>2 DEF Levels
  <2> QED
    BY <2>5
<1> HIDE DEF S
<1>3. \A n \in Nat : n \in S
  BY <1>1, <1>2, NaturalInduction
<1> QED
  BY <1>3 DEF S

LEMMA LevelsAgree ==
  ASSUME NEW n \in Nat, NEW m \in Nat, NEW f, NEW g, Levels(f, n), Levels(g, m)
  PROVE  \A k \in Nat : k <= n /\ k <= m => f[k] = g[k]
<1> DEFINE S == {k \in Nat : k <= n /\ k <= m => f[k] = g[k]}
<1>1. 0 \in S
  BY DEF Levels
<1>2. ASSUME NEW k \in Nat, k \in S PROVE k + 1 \in S
  <2> SUFFICES ASSUME k + 1 <= n, k + 1 <= m PROVE f[k + 1] = g[k + 1]
    OBVIOUS
  <2>1. k + 1 \in 1..n /\ k + 1 \in 1..m /\ (k + 1) - 1 = k
    OBVIOUS
  <2>2. f[k + 1] = Grown(f[k]) /\ g[k + 1] = Grown(g[k])
    BY <2>1 DEF Levels
  <2> QED
    BY <1>2, <2>2
<1> HIDE DEF S
<1>3. \A k \in Nat : k \in S
  BY <1>1, <1>2, NaturalInduction
<1> QED
  BY <1>3 DEF S

LEMMA TreesOf ==
  /\ Trees[0] = {Nil}
  /\ \A d \in Nat : Trees[d + 1] = Grown(Trees[d])
<1> DEFINE F(n) == CHOOSE f : Levels(f, n)
           g == [d \in Nat |-> F(d)[d]]
           P(f) == f = [d \in Nat |-> IF d = 0 THEN {Nil}
                          ELSE {Nil} \cup [key : Key, val : Value, left : f[d - 1], right : f[d - 1]]]
<1>1. \A n \in Nat : Levels(F(n), n)
  BY LevelsExist
<1> HIDE DEF F
<1>2. g[0] = {Nil}
  BY <1>1 DEF Levels
<1>3. ASSUME NEW d \in Nat, d # 0 PROVE g[d] = Grown(g[d - 1])
  <2>1. d - 1 \in Nat /\ d \in 1..d /\ d - 1 <= d /\ d - 1 <= d - 1
    BY <1>3
  <2>2. Levels(F(d), d) /\ Levels(F(d - 1), d - 1)
    BY <1>1, <2>1
  <2>3. F(d)[d] = Grown(F(d)[d - 1])
    BY <2>1, <2>2 DEF Levels
  <2>4. F(d)[d - 1] = F(d - 1)[d - 1]
    BY <2>1, <2>2, LevelsAgree
  <2> QED
    BY <2>1, <2>3, <2>4
<1>4. g = [d \in Nat |-> g[d]]
  OBVIOUS
<1> HIDE DEF g
<1>5. P(g)
  BY <1>2, <1>3, <1>4 DEF Grown
<1>6. Trees = CHOOSE f : P(f)
  BY DEF Trees
<1> HIDE DEF P
<1>7. P(Trees)
  BY <1>5, <1>6
<1> USE DEF P
<1>8. \A d \in Nat : Trees[d] = IF d = 0 THEN {Nil}
                          ELSE {Nil} \cup [key : Key, val : Value, left : Trees[d - 1], right : Trees[d - 1]]
  BY <1>7
<1>9. \A d \in Nat : d + 1 \in Nat /\ d + 1 # 0 /\ (d + 1) - 1 = d
  OBVIOUS
<1> QED
  BY <1>8, <1>9 DEF Grown

LEMMA DepthIsNat == Cardinality(Key) \in Nat
BY KeyAssumption, FS_CardinalityType

\* A tree on d levels is one on d + 1.
LEMMA TreesGrow == \A d \in Nat : Trees[d] \subseteq Trees[d + 1]
<1> DEFINE S == {d \in Nat : Trees[d] \subseteq Trees[d + 1]}
<1>1. 0 \in S
  BY TreesOf DEF Grown
<1>2. ASSUME NEW d \in Nat, d \in S PROVE d + 1 \in S
  <2>1. Trees[d] \subseteq Trees[d + 1]
    BY <1>2
  <2>2. Grown(Trees[d]) \subseteq Grown(Trees[d + 1])
    BY <2>1 DEF Grown
  <2>3. Trees[d + 1] = Grown(Trees[d]) /\ Trees[(d + 1) + 1] = Grown(Trees[d + 1])
    BY TreesOf
  <2> QED
    BY <2>2, <2>3
<1> HIDE DEF S
<1>3. \A d \in Nat : d \in S
  BY <1>1, <1>2, NaturalInduction
<1> QED
  BY <1>3 DEF S

LEMMA TreesInTree == \A d \in Nat : d <= Cardinality(Key) => Trees[d] \subseteq Tree
<1> DEFINE D == Cardinality(Key)
           S == {i \in Nat : \A d \in Nat : d + i = D => Trees[d] \subseteq Tree}
<1>0. D \in Nat
  BY DepthIsNat
<1>1. 0 \in S
  BY DEF Tree
<1>2. ASSUME NEW i \in Nat, i \in S PROVE i + 1 \in S
  <2> SUFFICES ASSUME NEW d \in Nat, d + (i + 1) = D PROVE Trees[d] \subseteq Tree
    OBVIOUS
  <2>1. (d + 1) + i = D /\ d + 1 \in Nat
    BY <1>0
  <2> QED
    BY <1>2, <2>1, TreesGrow
<1> HIDE DEF S
<1>3. \A i \in Nat : i \in S
  BY <1>1, <1>2, NaturalInduction
<1>4. ASSUME NEW d \in Nat, d <= D PROVE Trees[d] \subseteq Tree
  <2>1. D - d \in Nat /\ d + (D - d) = D
    BY <1>0, <1>4
  <2> QED
    BY <1>3, <2>1 DEF S
<1> QED
  BY <1>4

\* A tree with nodes.
IsNode(n) == n \in Tree /\ n # Nil

LEMMA NilIsTree == Nil \in Tree
<1>1. Trees[0] \subseteq Tree
  BY DepthIsNat, TreesInTree
<1> QED
  BY <1>1, TreesOf

LEMMA NodeParts ==
  ASSUME NEW d \in Nat, NEW n \in Trees[d], n # Nil
  PROVE  /\ d # 0 /\ d - 1 \in Nat
         /\ n = Node(n.key, n.val, n.left, n.right)
         /\ n.key \in Key /\ n.val \in Value
         /\ n.left \in Trees[d - 1] /\ n.right \in Trees[d - 1]
<1>1. d # 0
  BY TreesOf
<1>2. d - 1 \in Nat /\ d = (d - 1) + 1
  BY <1>1
<1>3. n \in Grown(Trees[d - 1])
  BY <1>2, TreesOf
<1> QED
  BY <1>1, <1>2, <1>3 DEF Grown, Node

LEMMA NodePartsTree ==
  ASSUME NEW n, IsNode(n)
  PROVE  /\ n = Node(n.key, n.val, n.left, n.right)
         /\ n.key \in Key /\ n.key \in Int /\ n.val \in Value
         /\ n.left \in Tree /\ n.right \in Tree
<1>1. Cardinality(Key) \in Nat /\ n \in Trees[Cardinality(Key)]
  BY DepthIsNat DEF IsNode, Tree
<1>2. \A d \in Nat : d - 1 \in Nat => d - 1 <= d
  OBVIOUS
<1> QED
  BY <1>1, <1>2, NodeParts, TreesInTree, KeyAssumption DEF IsNode

\* What holds of the empty tree, and of a tree when it holds of its subtrees.
LEMMA TreeInduction ==
  ASSUME NEW S, Nil \in S,
         \A n : IsNode(n) /\ n.left \in S /\ n.right \in S => n \in S
  PROVE  \A t \in Tree : t \in S
<1> DEFINE D == Cardinality(Key)
           M == {d \in Nat : d <= D => \A t \in Trees[d] : t \in S}
<1>0. D \in Nat
  BY DepthIsNat
<1>1. 0 \in M
  BY TreesOf
<1>2. ASSUME NEW d \in Nat, d \in M PROVE d + 1 \in M
  <2> SUFFICES ASSUME d + 1 <= D, NEW t \in Trees[d + 1], t # Nil PROVE t \in S
    OBVIOUS
  <2>1. d + 1 \in Nat /\ (d + 1) - 1 = d /\ d <= D
    BY <1>0
  <2>2. t.left \in Trees[d] /\ t.right \in Trees[d]
    BY <2>1, NodeParts
  <2>3. IsNode(t)
    BY <2>1, TreesInTree DEF IsNode
  <2> QED
    BY <1>2, <2>1, <2>2, <2>3
<1> HIDE DEF M
<1>3. \A d \in Nat : d \in M
  BY <1>1, <1>2, NaturalInduction
<1> QED
  BY <1>0, <1>3 DEF M, Tree

LEMMA EditNode ==
  /\ \A n, l : IsNode(n) => WithLeft(n, l) = Node(n.key, n.val, l, n.right)
  /\ \A n, r : IsNode(n) => WithRight(n, r) = Node(n.key, n.val, n.left, r)
  /\ \A k, v, l, r, x : WithLeft(Node(k, v, l, r), x) = Node(k, v, x, r)
  /\ \A k, v, l, r, x : WithRight(Node(k, v, l, r), x) = Node(k, v, l, x)
<1>1. ASSUME NEW n, IsNode(n), NEW x
      PROVE  /\ WithLeft(n, x) = Node(n.key, n.val, x, n.right)
             /\ WithRight(n, x) = Node(n.key, n.val, n.left, x)
  <2>1. n \in [key : Key, val : Value, left : Tree, right : Tree]
    BY <1>1, NodePartsTree DEF Node
  <2>2. [n EXCEPT !.left = x] = Node(n.key, n.val, x, n.right)
    BY <2>1 DEF Node
  <2>3. [n EXCEPT !.right = x] = Node(n.key, n.val, n.left, x)
    BY <2>1 DEF Node
  <2> QED
    BY <2>2, <2>3 DEF WithLeft, WithRight
<1>2. ASSUME NEW k, NEW v, NEW l, NEW r, NEW x
      PROVE  [Node(k, v, l, r) EXCEPT !.left = x] = Node(k, v, x, r)
  BY DEF Node
<1>3. ASSUME NEW k, NEW v, NEW l, NEW r, NEW x
      PROVE  [Node(k, v, l, r) EXCEPT !.right = x] = Node(k, v, l, x)
  BY DEF Node
<1> QED
  BY <1>1, <1>2, <1>3, Zenon DEF WithLeft, WithRight

-----------------------------------------------------------------------------
(* The functions of avl.c, one node at a time *)

LEMMA NodesDefined ==
  \E f : f = [n \in Tree |-> IF n = Nil THEN {} ELSE {n} \cup f[n.left] \cup f[n.right]]
<1> DEFINE D == Cardinality(Key)
           B(n, f) == IF n = Nil THEN {} ELSE {n} \cup f[n.left] \cup f[n.right]
           M == {d \in Nat : d <= D => \E f : f = [n \in Trees[d] |-> B(n, f)]}
<1>0. D \in Nat
  BY DepthIsNat
<1>1. 0 \in M
  <2> DEFINE f == [n \in {Nil} |-> {}]
  <2>1. f = [n \in Trees[0] |-> B(n, f)]
    BY TreesOf
  <2> QED
    BY <2>1
<1>2. ASSUME NEW d \in Nat, d \in M PROVE d + 1 \in M
  <2> SUFFICES ASSUME d + 1 <= D PROVE \E f : f = [n \in Trees[d + 1] |-> B(n, f)]
    OBVIOUS
  <2>1. d <= D /\ d + 1 \in Nat /\ (d + 1) - 1 = d
    BY <1>0
  <2>2. PICK g : g = [n \in Trees[d] |-> B(n, g)]
    BY <1>2, <2>1
  <2> DEFINE f == [n \in Trees[d + 1] |-> B(n, g)]
  <2> HIDE DEF B
  <2>3. \A n \in Trees[d] : f[n] = g[n]
    BY <2>2, TreesGrow
  <2>4. \A n \in Trees[d + 1] : n # Nil => n.left \in Trees[d] /\ n.right \in Trees[d]
    BY <2>1, NodeParts
  <2> HIDE DEF f
  <2>5. \A n \in Trees[d + 1] : B(n, f) = B(n, g)
    BY <2>3, <2>4 DEF B
  <2>6. f = [n \in Trees[d + 1] |-> B(n, f)]
    BY <2>5 DEF f
  <2> QED
    BY <2>6
<1> HIDE DEF M
<1>3. \A d \in Nat : d \in M
  BY <1>1, <1>2, NaturalInduction
<1> QED
  BY <1>0, <1>3 DEF M, Tree

LEMMA NodesOf ==
  /\ Nodes(Nil) = {}
   /\ \A n : IsNode(n) => Nodes(n) = {n} \cup Nodes(n.left) \cup Nodes(n.right)
<1> DEFINE B(n, f) == IF n = Nil THEN {} ELSE {n} \cup f[n.left] \cup f[n.right]
           P(f) == f = [n \in Tree |-> B(n, f)]
           h == CHOOSE f : P(f)
<1>1. \A t : Nodes(t) = h[t]
  BY DEF Nodes
<1>2. P(h)
  <2>1. \E f : P(f)
    BY NodesDefined
  <2> HIDE DEF P
  <2> QED
    BY <2>1
<1> HIDE DEF h
<1>3. \A n \in Tree : h[n] = B(n, h)
  BY <1>2
<1>4. h[Nil] = {}
  BY <1>3, NilIsTree
<1>5. ASSUME NEW n, IsNode(n) PROVE h[n] = {n} \cup h[n.left] \cup h[n.right]
  BY <1>3, <1>5 DEF IsNode
<1> QED
  BY <1>1, <1>4, <1>5, NodePartsTree

LEMMA HeightDefined ==
  \E f : f = [n \in Tree |-> IF n = Nil THEN 0 ELSE LET l == f[n.left] r == f[n.right] IN 1 + (IF r > l THEN r ELSE l)]
<1> DEFINE D == Cardinality(Key)
           B(n, f) == IF n = Nil THEN 0 ELSE LET l == f[n.left] r == f[n.right] IN 1 + (IF r > l THEN r ELSE l)
           M == {d \in Nat : d <= D => \E f : f = [n \in Trees[d] |-> B(n, f)]}
<1>0. D \in Nat
  BY DepthIsNat
<1>1. 0 \in M
  <2> DEFINE f == [n \in {Nil} |-> 0]
  <2>1. f = [n \in Trees[0] |-> B(n, f)]
    BY TreesOf
  <2> QED
    BY <2>1
<1>2. ASSUME NEW d \in Nat, d \in M PROVE d + 1 \in M
  <2> SUFFICES ASSUME d + 1 <= D PROVE \E f : f = [n \in Trees[d + 1] |-> B(n, f)]
    OBVIOUS
  <2>1. d <= D /\ d + 1 \in Nat /\ (d + 1) - 1 = d
    BY <1>0
  <2>2. PICK g : g = [n \in Trees[d] |-> B(n, g)]
    BY <1>2, <2>1
  <2> DEFINE f == [n \in Trees[d + 1] |-> B(n, g)]
  <2> HIDE DEF B
  <2>3. \A n \in Trees[d] : f[n] = g[n]
    BY <2>2, TreesGrow
  <2>4. \A n \in Trees[d + 1] : n # Nil => n.left \in Trees[d] /\ n.right \in Trees[d]
    BY <2>1, NodeParts
  <2> HIDE DEF f
  <2>5. \A n \in Trees[d + 1] : B(n, f) = B(n, g)
    BY <2>3, <2>4 DEF B
  <2>6. f = [n \in Trees[d + 1] |-> B(n, f)]
    BY <2>5 DEF f
  <2> QED
    BY <2>6
<1> HIDE DEF M
<1>3. \A d \in Nat : d \in M
  BY <1>1, <1>2, NaturalInduction
<1> QED
  BY <1>0, <1>3 DEF M, Tree

LEMMA HeightOf ==
  /\ avlnode_height(Nil) = 0
   /\ \A n : IsNode(n) => avlnode_height(n) = 1 + (IF avlnode_height(n.right) > avlnode_height(n.left)
                                      THEN avlnode_height(n.right) ELSE avlnode_height(n.left))
<1> DEFINE B(n, f) == IF n = Nil THEN 0 ELSE LET l == f[n.left] r == f[n.right] IN 1 + (IF r > l THEN r ELSE l)
           P(f) == f = [n \in Tree |-> B(n, f)]
           h == CHOOSE f : P(f)
<1>1. \A t : avlnode_height(t) = h[t]
  BY DEF avlnode_height
<1>2. P(h)
  <2>1. \E f : P(f)
    BY HeightDefined
  <2> HIDE DEF P
  <2> QED
    BY <2>1
<1> HIDE DEF h
<1>3. \A n \in Tree : h[n] = B(n, h)
  BY <1>2
<1>4. h[Nil] = 0
  BY <1>3, NilIsTree
<1>5. ASSUME NEW n, IsNode(n) PROVE h[n] = LET l == h[n.left] r == h[n.right] IN 1 + (IF r > l THEN r ELSE l)
  BY <1>3, <1>5 DEF IsNode
<1> QED
  BY <1>1, <1>4, <1>5, NodePartsTree

LEMMA SearchDefined ==
  ASSUME NEW k
  PROVE  \E f : f = [n \in Tree |-> IF n = Nil THEN n ELSE IF n.key = k THEN n ELSE f[IF k < n.key THEN n.left ELSE n.right]]
<1> DEFINE D == Cardinality(Key)
           B(n, f) == IF n = Nil THEN n ELSE IF n.key = k THEN n ELSE f[IF k < n.key THEN n.left ELSE n.right]
           M == {d \in Nat : d <= D => \E f : f = [n \in Trees[d] |-> B(n, f)]}
<1>0. D \in Nat
  BY DepthIsNat
<1>1. 0 \in M
  <2> DEFINE f == [n \in {Nil} |-> n]
  <2>1. f = [n \in Trees[0] |-> B(n, f)]
    BY TreesOf
  <2> QED
    BY <2>1
<1>2. ASSUME NEW d \in Nat, d \in M PROVE d + 1 \in M
  <2> SUFFICES ASSUME d + 1 <= D PROVE \E f : f = [n \in Trees[d + 1] |-> B(n, f)]
    OBVIOUS
  <2>1. d <= D /\ d + 1 \in Nat /\ (d + 1) - 1 = d
    BY <1>0
  <2>2. PICK g : g = [n \in Trees[d] |-> B(n, g)]
    BY <1>2, <2>1
  <2> DEFINE f == [n \in Trees[d + 1] |-> B(n, g)]
  <2> HIDE DEF B
  <2>3. \A n \in Trees[d] : f[n] = g[n]
    BY <2>2, TreesGrow
  <2>4. \A n \in Trees[d + 1] : n # Nil => n.left \in Trees[d] /\ n.right \in Trees[d]
    BY <2>1, NodeParts
  <2> HIDE DEF f
  <2>5. \A n \in Trees[d + 1] : B(n, f) = B(n, g)
    BY <2>3, <2>4 DEF B
  <2>6. f = [n \in Trees[d + 1] |-> B(n, f)]
    BY <2>5 DEF f
  <2> QED
    BY <2>6
<1> HIDE DEF M
<1>3. \A d \in Nat : d \in M
  BY <1>1, <1>2, NaturalInduction
<1> QED
  BY <1>0, <1>3 DEF M, Tree

LEMMA SearchOf ==
  ASSUME NEW k
  PROVE  /\ avlnode_search(Nil, k) = Nil
         /\ \A n : IsNode(n) => avlnode_search(n, k) = IF n.key = k THEN n
                              ELSE IF k < n.key THEN avlnode_search(n.left, k) ELSE avlnode_search(n.right, k)
<1> DEFINE B(n, f) == IF n = Nil THEN n ELSE IF n.key = k THEN n ELSE f[IF k < n.key THEN n.left ELSE n.right]
           P(f) == f = [n \in Tree |-> B(n, f)]
           h == CHOOSE f : P(f)
<1>1. \A t : avlnode_search(t, k) = h[t]
  BY DEF avlnode_search
<1>2. P(h)
  <2>1. \E f : P(f)
    BY SearchDefined, ZenonT(30)
  <2> HIDE DEF P
  <2> QED
    BY <2>1
<1> HIDE DEF h
<1>3. \A n \in Tree : h[n] = B(n, h)
  BY <1>2
<1>4. h[Nil] = Nil
  BY <1>3, NilIsTree
<1>5. ASSUME NEW n, IsNode(n) PROVE h[n] = IF n.key = k THEN n ELSE h[IF k < n.key THEN n.left ELSE n.right]
  BY <1>3, <1>5 DEF IsNode
<1> QED
  BY <1>1, <1>4, <1>5, NodePartsTree

LEMMA BalanceDefined ==
  \E f : f = [n \in Tree |-> IF n = Nil THEN Nil ELSE Rotated(WithRight(WithLeft(n, f[n.left]), f[n.right]))]
<1> DEFINE D == Cardinality(Key)
           B(n, f) == IF n = Nil THEN Nil ELSE Rotated(WithRight(WithLeft(n, f[n.left]), f[n.right]))
           M == {d \in Nat : d <= D => \E f : f = [n \in Trees[d] |-> B(n, f)]}
<1>0. D \in Nat
  BY DepthIsNat
<1>1. 0 \in M
  <2> DEFINE f == [n \in {Nil} |-> Nil]
  <2>1. f = [n \in Trees[0] |-> B(n, f)]
    BY TreesOf
  <2> QED
    BY <2>1
<1>2. ASSUME NEW d \in Nat, d \in M PROVE d + 1 \in M
  <2> SUFFICES ASSUME d + 1 <= D PROVE \E f : f = [n \in Trees[d + 1] |-> B(n, f)]
    OBVIOUS
  <2>1. d <= D /\ d + 1 \in Nat /\ (d + 1) - 1 = d
    BY <1>0
  <2>2. PICK g : g = [n \in Trees[d] |-> B(n, g)]
    BY <1>2, <2>1
  <2> DEFINE f == [n \in Trees[d + 1] |-> B(n, g)]
  <2> HIDE DEF B
  <2>3. \A n \in Trees[d] : f[n] = g[n]
    BY <2>2, TreesGrow
  <2>4. \A n \in Trees[d + 1] : n # Nil => n.left \in Trees[d] /\ n.right \in Trees[d]
    BY <2>1, NodeParts
  <2> HIDE DEF f
  <2>5. \A n \in Trees[d + 1] : B(n, f) = B(n, g)
    BY <2>3, <2>4 DEF B
  <2>6. f = [n \in Trees[d + 1] |-> B(n, f)]
    BY <2>5 DEF f
  <2> QED
    BY <2>6
<1> HIDE DEF M
<1>3. \A d \in Nat : d \in M
  BY <1>1, <1>2, NaturalInduction
<1> QED
  BY <1>0, <1>3 DEF M, Tree

LEMMA BalanceOf ==
  /\ avlnode_balance(Nil) = Nil
   /\ \A n : IsNode(n) => avlnode_balance(n) =
                    Rotated(Node(n.key, n.val, avlnode_balance(n.left), avlnode_balance(n.right)))
<1> DEFINE B(n, f) == IF n = Nil THEN Nil ELSE Rotated(WithRight(WithLeft(n, f[n.left]), f[n.right]))
           P(f) == f = [n \in Tree |-> B(n, f)]
           h == CHOOSE f : P(f)
<1>1. \A t : avlnode_balance(t) = h[t]
  BY DEF avlnode_balance
<1>2. P(h)
  <2>1. \E f : P(f)
    BY BalanceDefined
  <2> HIDE DEF P
  <2> QED
    BY <2>1
<1> HIDE DEF h
<1>3. \A n \in Tree : h[n] = B(n, h)
  BY <1>2
<1>4. h[Nil] = Nil
  BY <1>3, NilIsTree
<1>5. ASSUME NEW n, IsNode(n) PROVE h[n] = Rotated(WithRight(WithLeft(n, h[n.left]), h[n.right]))
  BY <1>3, <1>5 DEF IsNode
<1> QED
  BY <1>1, <1>4, <1>5, EditNode

\* f hangs a new node for k into every tree.
Hangs(f, k, v) ==
  f = [n \in Tree |-> IF n = Nil THEN Node(k, v, Nil, Nil)
                      ELSE IF k < n.key THEN WithLeft(n, f[n.left]) ELSE WithRight(n, f[n.right])]

LEMMA HungDefined == \A k, v : \E f : Hangs(f, k, v)
<1> TAKE k, v
<1> DEFINE D == Cardinality(Key)
           B(n, f) == IF n = Nil THEN Node(k, v, Nil, Nil) ELSE IF k < n.key THEN WithLeft(n, f[n.left]) ELSE WithRight(n, f[n.right])
           M == {d \in Nat : d <= D => \E f : f = [n \in Trees[d] |-> B(n, f)]}
<1>0. D \in Nat
  BY DepthIsNat
<1>1. 0 \in M
  <2> DEFINE f == [n \in {Nil} |-> Node(k, v, Nil, Nil)]
  <2>1. f = [n \in Trees[0] |-> B(n, f)]
    BY TreesOf
  <2> QED
    BY <2>1
<1>2. ASSUME NEW d \in Nat, d \in M PROVE d + 1 \in M
  <2> SUFFICES ASSUME d + 1 <= D PROVE \E f : f = [n \in Trees[d + 1] |-> B(n, f)]
    OBVIOUS
  <2>1. d <= D /\ d + 1 \in Nat /\ (d + 1) - 1 = d
    BY <1>0
  <2>2. PICK g : g = [n \in Trees[d] |-> B(n, g)]
    BY <1>2, <2>1
  <2> DEFINE f == [n \in Trees[d + 1] |-> B(n, g)]
  <2> HIDE DEF B
  <2>3. \A n \in Trees[d] : f[n] = g[n]
    BY <2>2, TreesGrow
  <2>4. \A n \in Trees[d + 1] : n # Nil => n.left \in Trees[d] /\ n.right \in Trees[d]
    BY <2>1, NodeParts
  <2> HIDE DEF f
  <2>5. \A n \in Trees[d + 1] : B(n, f) = B(n, g)
    BY <2>3, <2>4 DEF B
  <2>6. f = [n \in Trees[d + 1] |-> B(n, f)]
    BY <2>5 DEF f
  <2> QED
    BY <2>6
<1> HIDE DEF M
<1>3. \A d \in Nat : d \in M
  BY <1>1, <1>2, NaturalInduction
<1> QED
  BY <1>0, <1>3 DEF M, Tree, Hangs

LEMMA HungOf ==
  ASSUME NEW k, NEW v
  PROVE  /\ Hung(Nil, k, v) = Node(k, v, Nil, Nil)
         /\ \A n : IsNode(n) => Hung(n, k, v) = IF k < n.key THEN Node(n.key, n.val, Hung(n.left, k, v), n.right)
                                    ELSE Node(n.key, n.val, n.left, Hung(n.right, k, v))
<1> DEFINE B(n, f) == IF n = Nil THEN Node(k, v, Nil, Nil) ELSE IF k < n.key THEN WithLeft(n, f[n.left]) ELSE WithRight(n, f[n.right])
           P(f) == f = [n \in Tree |-> B(n, f)]
           h == CHOOSE f : P(f)
<1>1. \A t : Hung(t, k, v) = h[t]
  BY DEF Hung
<1>2. P(h)
  <2>1. \E f : P(f)
    <3>1. \E f : Hangs(f, k, v)
      BY HungDefined
    <3> QED
      BY <3>1 DEF Hangs
  <2> HIDE DEF P
  <2> QED
    BY <2>1
<1> HIDE DEF h
<1>3. \A n \in Tree : h[n] = B(n, h)
  BY <1>2
<1>4. h[Nil] = Node(k, v, Nil, Nil)
  BY <1>3, NilIsTree
<1>5. ASSUME NEW n, IsNode(n) PROVE h[n] = IF k < n.key THEN WithLeft(n, h[n.left]) ELSE WithRight(n, h[n.right])
  BY <1>3, <1>5 DEF IsNode
<1> QED
  BY <1>1, <1>4, <1>5, EditNode

LEMMA RightmostDefined == \E f : f = [n \in Tree |-> IF n = Nil \/ n.right = Nil THEN n ELSE f[n.right]]
<1> DEFINE D == Cardinality(Key)
           B(n, f) == IF n = Nil \/ n.right = Nil THEN n ELSE f[n.right]
           M == {d \in Nat : d <= D => \E f : f = [n \in Trees[d] |-> B(n, f)]}
<1>0. D \in Nat
  BY DepthIsNat
<1>1. 0 \in M
  <2> DEFINE f == [n \in {Nil} |-> n]
  <2>1. f = [n \in Trees[0] |-> B(n, f)]
    BY TreesOf
  <2> QED
    BY <2>1
<1>2. ASSUME NEW d \in Nat, d \in M PROVE d + 1 \in M
  <2> SUFFICES ASSUME d + 1 <= D PROVE \E f : f = [n \in Trees[d + 1] |-> B(n, f)]
    OBVIOUS
  <2>1. d <= D /\ d + 1 \in Nat /\ (d + 1) - 1 = d
    BY <1>0
  <2>2. PICK g : g = [n \in Trees[d] |-> B(n, g)]
    BY <1>2, <2>1
  <2> DEFINE f == [n \in Trees[d + 1] |-> B(n, g)]
  <2> HIDE DEF B
  <2>3. \A n \in Trees[d] : f[n] = g[n]
    BY <2>2, TreesGrow
  <2>4. \A n \in Trees[d + 1] : n # Nil => n.left \in Trees[d] /\ n.right \in Trees[d]
    BY <2>1, NodeParts
  <2> HIDE DEF f
  <2>5. \A n \in Trees[d + 1] : B(n, f) = B(n, g)
    BY <2>3, <2>4 DEF B
  <2>6. f = [n \in Trees[d + 1] |-> B(n, f)]
    BY <2>5 DEF f
  <2> QED
    BY <2>6
<1> HIDE DEF M
<1>3. \A d \in Nat : d \in M
  BY <1>1, <1>2, NaturalInduction
<1> QED
  BY <1>0, <1>3 DEF M, Tree

LEMMA RightmostOf == \A n : IsNode(n) => Rightmost(n) = IF n.right = Nil THEN n ELSE Rightmost(n.right)
<1> DEFINE B(m, f) == IF m = Nil \/ m.right = Nil THEN m ELSE f[m.right]
           P(f) == f = [m \in Tree |-> B(m, f)]
           h == CHOOSE f : P(f)
<1>1. \A t : Rightmost(t) = h[t]
  BY DEF Rightmost
<1>2. P(h)
  <2>1. \E f : P(f)
    BY RightmostDefined
  <2> HIDE DEF P
  <2> QED
    BY <2>1
<1> HIDE DEF h
<1>3. \A m \in Tree : h[m] = B(m, h)
  BY <1>2
<1> QED
  BY <1>1, <1>3 DEF IsNode

\* What avlnode_remove makes of n, from what it makes of the subtrees.
RemovedFrom(n, j, l, r) ==
  avlnode_balance(
    IF j < n.key THEN WithLeft(n, l[j])
    ELSE IF j > n.key THEN WithRight(n, r[j])
    ELSE IF n.left # Nil /\ n.right # Nil THEN avlnode_swap(n, l[avlnode_ip(n).key])
    ELSE IF n.left # Nil THEN n.left ELSE n.right)

LEMMA RemoveDefined ==
  \E f : f = [n \in Tree |-> [j \in Key |-> IF n = Nil THEN Nil ELSE RemovedFrom(n, j, f[n.left], f[n.right])]]
<1> DEFINE D == Cardinality(Key)
           C(n, l, r) == [j \in Key |-> IF n = Nil THEN Nil ELSE RemovedFrom(n, j, l, r)]
           B(n, f) == C(n, f[n.left], f[n.right])
           M == {d \in Nat : d <= D => \E f : f = [n \in Trees[d] |-> B(n, f)]}
<1>0. D \in Nat
  BY DepthIsNat
<1>a. \A l, r : C(Nil, l, r) = [j \in Key |-> Nil]
  OBVIOUS
<1> HIDE DEF C
<1>1. 0 \in M
  <2> DEFINE f == [n \in {Nil} |-> [j \in Key |-> Nil]]
  <2>1. f = [n \in Trees[0] |-> B(n, f)]
    BY <1>a, TreesOf
  <2> QED
    BY <2>1
<1>2. ASSUME NEW d \in Nat, d \in M PROVE d + 1 \in M
  <2> SUFFICES ASSUME d + 1 <= D PROVE \E f : f = [n \in Trees[d + 1] |-> B(n, f)]
    OBVIOUS
  <2>1. d <= D /\ d + 1 \in Nat /\ (d + 1) - 1 = d
    BY <1>0
  <2>2. PICK g : g = [n \in Trees[d] |-> B(n, g)]
    BY <1>2, <2>1
  <2> DEFINE f == [n \in Trees[d + 1] |-> B(n, g)]
  <2> HIDE DEF B
  <2>3. \A n \in Trees[d] : f[n] = g[n]
    BY <2>2, TreesGrow
  <2>4. \A n \in Trees[d + 1] : n # Nil => n.left \in Trees[d] /\ n.right \in Trees[d]
    BY <2>1, NodeParts
  <2> HIDE DEF f
  <2>5. \A n \in Trees[d + 1] : B(n, f) = B(n, g)
    BY <1>a, <2>3, <2>4 DEF B
  <2>6. f = [n \in Trees[d + 1] |-> B(n, f)]
    BY <2>5 DEF f
  <2> QED
    BY <2>6
<1> HIDE DEF M, B
<1>3. \A d \in Nat : d \in M
  BY <1>1, <1>2, NaturalInduction
<1>4. \E f : f = [n \in Tree |-> B(n, f)]
  BY <1>0, <1>3 DEF M, Tree
<1> QED
  BY <1>4 DEF B, C

LEMMA RemoveOf ==
  /\ \A k \in Key : avlnode_remove(Nil, k) = Nil
  /\ \A n, k : IsNode(n) /\ k \in Key =>
       /\ k < n.key => avlnode_remove(n, k) =
                         avlnode_balance(Node(n.key, n.val, avlnode_remove(n.left, k), n.right))
       /\ k > n.key => avlnode_remove(n, k) =
                         avlnode_balance(Node(n.key, n.val, n.left, avlnode_remove(n.right, k)))
       /\ k = n.key /\ n.left # Nil /\ n.right # Nil /\ avlnode_ip(n).key \in Key =>
            avlnode_remove(n, k) = avlnode_balance(
              Node(avlnode_ip(n).key, avlnode_ip(n).val,
                   avlnode_remove(n.left, avlnode_ip(n).key), n.right))
       /\ k = n.key /\ (n.left = Nil \/ n.right = Nil) =>
            avlnode_remove(n, k) = avlnode_balance(IF n.left # Nil THEN n.left ELSE n.right)
<1> DEFINE B(n, f) == [j \in Key |-> IF n = Nil THEN Nil ELSE RemovedFrom(n, j, f[n.left], f[n.right])]
           P(f) == f = [n \in Tree |-> B(n, f)]
           h == CHOOSE f : P(f)
<1>1. \A t, k : avlnode_remove(t, k) = h[t][k]
  BY DEF avlnode_remove, RemovedFrom
<1>2. P(h)
  <2>1. \E f : P(f)
    BY RemoveDefined
  <2> HIDE DEF P
  <2> QED
    BY <2>1
<1> HIDE DEF h
<1>3. \A n \in Tree : h[n] = B(n, h)
  BY <1>2
<1>4. \A k \in Key : h[Nil][k] = Nil
  BY <1>3, NilIsTree
<1>5. ASSUME NEW n, IsNode(n), NEW k \in Key
      PROVE  h[n][k] = RemovedFrom(n, k, h[n.left], h[n.right])
  BY <1>3, <1>5 DEF IsNode
<1>6. ASSUME NEW n, IsNode(n), NEW k \in Key
      PROVE  avlnode_remove(n, k) = avlnode_balance(
               IF k < n.key THEN WithLeft(n, avlnode_remove(n.left, k))
               ELSE IF k > n.key THEN WithRight(n, avlnode_remove(n.right, k))
               ELSE IF n.left # Nil /\ n.right # Nil
               THEN avlnode_swap(n, avlnode_remove(n.left, avlnode_ip(n).key))
               ELSE IF n.left # Nil THEN n.left ELSE n.right)
  BY <1>1, <1>5, <1>6 DEF RemovedFrom
<1>7. ASSUME NEW n, IsNode(n), NEW k \in Key
      PROVE  k \in Int /\ n.key \in Int
  BY <1>7, NodePartsTree, KeyAssumption
<1>8. ASSUME NEW n, IsNode(n), NEW k \in Key
      PROVE  /\ k < n.key => avlnode_remove(n, k) =
                               avlnode_balance(Node(n.key, n.val, avlnode_remove(n.left, k), n.right))
             /\ k > n.key => avlnode_remove(n, k) =
                               avlnode_balance(Node(n.key, n.val, n.left, avlnode_remove(n.right, k)))
             /\ k = n.key /\ n.left # Nil /\ n.right # Nil /\ avlnode_ip(n).key \in Key =>
                  avlnode_remove(n, k) = avlnode_balance(
                    Node(avlnode_ip(n).key, avlnode_ip(n).val,
                         avlnode_remove(n.left, avlnode_ip(n).key), n.right))
             /\ k = n.key /\ (n.left = Nil \/ n.right = Nil) =>
                  avlnode_remove(n, k) = avlnode_balance(IF n.left # Nil THEN n.left ELSE n.right)
  <2>1. k < n.key => ~(k > n.key)
    BY <1>7, <1>8
  <2>2. k > n.key => ~(k < n.key)
    BY <1>7, <1>8
  <2>3. k = n.key => ~(k < n.key) /\ ~(k > n.key)
    BY <1>7, <1>8
  <2> QED
    BY <1>6, <1>8, <2>1, <2>2, <2>3, EditNode DEF avlnode_swap
<1> QED
  BY <1>1, <1>4, <1>8

-----------------------------------------------------------------------------
(* Heights and what a tree holds *)

Height(t) == avlnode_height(t)
Depth     == Cardinality(Key)

\* The height of a tree is the number of levels it needs.
LEMMA HeightIsLevels ==
  \A t \in Tree : /\ Height(t) \in Nat
                  /\ \A d \in Nat : t \in Trees[d] <=> Height(t) <= d
<1> DEFINE S == {t \in Tree : Height(t) \in Nat /\ \A d \in Nat : t \in Trees[d] <=> Height(t) <= d}
<1>1. Nil \in S
  <2>1. Height(Nil) = 0
    BY HeightOf DEF Height
  <2>2. ASSUME NEW d \in Nat PROVE Nil \in Trees[d]
    <3>1. CASE d = 0
      BY <3>1, TreesOf
    <3>2. CASE d # 0
      <4>1. d - 1 \in Nat /\ d = (d - 1) + 1
        BY <3>2
      <4> QED
        BY <4>1, TreesOf DEF Grown
    <3> QED
      BY <3>1, <3>2
  <2> QED
    BY <2>1, <2>2, NilIsTree
<1>2. ASSUME NEW n, IsNode(n), n.left \in S, n.right \in S PROVE n \in S
  <2>1. Height(n) = 1 + (IF Height(n.right) > Height(n.left) THEN Height(n.right) ELSE Height(n.left))
    BY <1>2, HeightOf DEF Height
  <2>2. Height(n.left) \in Nat /\ Height(n.right) \in Nat
    BY <1>2
  <2>3. Height(n) \in Nat /\ Height(n) # 0
    BY <2>1, <2>2
  <2>4. ASSUME NEW d \in Nat PROVE n \in Trees[d] <=> Height(n) <= d
    <3>1. CASE d = 0
      <4>1. n \notin Trees[0]
        BY <1>2, TreesOf DEF IsNode
      <4> QED
        BY <2>3, <3>1, <4>1
    <3>2. CASE d # 0
      <4>1. d - 1 \in Nat /\ d = (d - 1) + 1
        BY <3>2
      <4>2. n \in Trees[d] <=> n.left \in Trees[d - 1] /\ n.right \in Trees[d - 1]
        <5>1. Trees[d] = Grown(Trees[d - 1])
          BY <4>1, TreesOf
        <5>2. n # Nil /\ n = Node(n.key, n.val, n.left, n.right) /\ n.key \in Key /\ n.val \in Value
          BY <1>2, NodePartsTree DEF IsNode
        <5> QED
          BY <5>1, <5>2 DEF Grown, Node
      <4>3. n.left \in Trees[d - 1] <=> Height(n.left) <= d - 1
        BY <1>2, <4>1
      <4>4. n.right \in Trees[d - 1] <=> Height(n.right) <= d - 1
        BY <1>2, <4>1
      <4> QED
        BY <2>1, <2>2, <4>1, <4>2, <4>3, <4>4
    <3> QED
      BY <3>1, <3>2
  <2> QED
    BY <1>2, <2>3, <2>4 DEF IsNode
<1> HIDE DEF S
<1>3. \A t \in Tree : t \in S
  BY <1>1, <1>2, TreeInduction
<1> QED
  BY <1>3 DEF S

LEMMA HeightOfNode ==
  /\ Height(Nil) = 0
  /\ \A t \in Tree : Height(t) \in Nat /\ Height(t) <= Depth /\ (t # Nil => Height(t) # 0)
  /\ \A n : IsNode(n) =>
       /\ Height(n) = 1 + (IF Height(n.right) > Height(n.left) THEN Height(n.right) ELSE Height(n.left))
       /\ Height(n.left) \in Nat /\ Height(n.right) \in Nat
       /\ Height(n.left) < Height(n) /\ Height(n.right) < Height(n)
       /\ Height(n.left) < Depth /\ Height(n.right) < Depth
<1>1. Height(Nil) = 0
  BY HeightOf DEF Height
<1>2. ASSUME NEW t \in Tree PROVE Height(t) \in Nat /\ Height(t) <= Depth
  <2>1. t \in Trees[Depth] /\ Depth \in Nat
    BY DepthIsNat DEF Depth, Tree
  <2> QED
    BY <2>1, HeightIsLevels
<1>3. ASSUME NEW n, IsNode(n)
      PROVE  /\ Height(n) = 1 + (IF Height(n.right) > Height(n.left) THEN Height(n.right) ELSE Height(n.left))
             /\ Height(n.left) \in Nat /\ Height(n.right) \in Nat
             /\ Height(n.left) < Height(n) /\ Height(n.right) < Height(n)
             /\ Height(n.left) < Depth /\ Height(n.right) < Depth
  <2>1. Height(n) = 1 + (IF Height(n.right) > Height(n.left) THEN Height(n.right) ELSE Height(n.left))
    BY <1>3, HeightOf DEF Height
  <2>2. Height(n.left) \in Nat /\ Height(n.right) \in Nat
    BY <1>2, <1>3, NodePartsTree
  <2>3. Height(n) \in Nat /\ Height(n) <= Depth /\ Depth \in Nat
    BY <1>2, <1>3, DepthIsNat DEF IsNode, Depth
  <2> QED
    BY <2>1, <2>2, <2>3
<1>4. ASSUME NEW t \in Tree, t # Nil PROVE Height(t) # 0
  <2>1. IsNode(t)
    BY <1>4 DEF IsNode
  <2> QED
    BY <1>3, <2>1
<1> QED
  BY <1>1, <1>2, <1>3, <1>4

\* A node over two trees is a tree while they leave a level for it.
LEMMA NodeIsTree ==
  ASSUME NEW k \in Key, NEW v \in Value, NEW l \in Tree, NEW r \in Tree,
         Height(l) < Depth, Height(r) < Depth
  PROVE  /\ IsNode(Node(k, v, l, r))
         /\ Node(k, v, l, r).key = k /\ Node(k, v, l, r).val = v
         /\ Node(k, v, l, r).left = l /\ Node(k, v, l, r).right = r
         /\ Height(Node(k, v, l, r)) = 1 + (IF Height(r) > Height(l) THEN Height(r) ELSE Height(l))
<1> DEFINE n == Node(k, v, l, r)
<1>1. n \in [key : Key, val : Value, left : Tree, right : Tree]
  BY DEF Node
<1>2. n.key = k /\ n.val = v /\ n.left = l /\ n.right = r
  BY DEF Node
<1>3. n # Nil
  BY <1>1, NilIsNoNode
<1>4. Height(l) \in Nat /\ Height(r) \in Nat /\ Depth \in Nat /\ Depth - 1 \in Nat /\ Depth = (Depth - 1) + 1
  BY HeightOfNode, DepthIsNat DEF Depth
<1>5. l \in Trees[Depth - 1] /\ r \in Trees[Depth - 1]
  <2>1. Height(l) <= Depth - 1 /\ Height(r) <= Depth - 1
    BY <1>4
  <2> QED
    BY <1>4, <2>1, HeightIsLevels
<1>6. n \in Grown(Trees[Depth - 1])
  BY <1>5 DEF Grown, Node
<1>7. n \in Tree
  BY <1>4, <1>6, TreesOf DEF Tree, Depth
<1> HIDE DEF n
<1>8. IsNode(n)
  BY <1>3, <1>7 DEF IsNode
<1> QED
  BY <1>2, <1>8, HeightOfNode DEF n

Entry(k, v) == <<k, v>>

\* What the tree says about its keys.
Entries(t) == {Entry(n.key, n.val) : n \in Nodes(t)}

Sorted(t) ==
  \A n \in Nodes(t) : /\ \A k \in KeysOf(n.left) : k < n.key
                      /\ \A k \in KeysOf(n.right) : k > n.key

Even(t) == \A n \in Nodes(t) : avlnode_balance_factor(n) \in {-1, 0, 1}

LEMMA EntryIsPair == \A k, v, j, w : Entry(k, v) = Entry(j, w) => k = j /\ v = w
BY DEF Entry

LEMMA NodesAreNodes == \A t \in Tree : \A n \in Nodes(t) : IsNode(n)
<1> DEFINE S == {t \in Tree : \A n \in Nodes(t) : IsNode(n)}
<1>1. Nil \in S
  BY NilIsTree, NodesOf
<1>2. ASSUME NEW n, IsNode(n), n.left \in S, n.right \in S PROVE n \in S
  BY <1>2, NodesOf DEF IsNode
<1> HIDE DEF S
<1>3. \A t \in Tree : t \in S
  BY <1>1, <1>2, TreeInduction
<1> QED
  BY <1>3 DEF S

LEMMA NilHolds == KeysOf(Nil) = {} /\ Entries(Nil) = {} /\ Sorted(Nil) /\ Even(Nil)
BY NodesOf DEF KeysOf, Entries, Sorted, Even

LEMMA NodeHolds ==
  ASSUME NEW n, IsNode(n)
  PROVE  /\ KeysOf(n) = {n.key} \cup KeysOf(n.left) \cup KeysOf(n.right)
         /\ Entries(n) = {Entry(n.key, n.val)} \cup Entries(n.left) \cup Entries(n.right)
         /\ Sorted(n) <=> /\ Sorted(n.left) /\ Sorted(n.right)
                          /\ \A k \in KeysOf(n.left) : k < n.key
                          /\ \A k \in KeysOf(n.right) : k > n.key
         /\ Even(n) <=> /\ Even(n.left) /\ Even(n.right)
                        /\ Height(n.right) - Height(n.left) \in {-1, 0, 1}
<1>1. Nodes(n) = {n} \cup Nodes(n.left) \cup Nodes(n.right)
  BY NodesOf
<1>2. KeysOf(n) = {n.key} \cup KeysOf(n.left) \cup KeysOf(n.right)
  BY <1>1 DEF KeysOf
<1>3. Entries(n) = {Entry(n.key, n.val)} \cup Entries(n.left) \cup Entries(n.right)
  BY <1>1 DEF Entries
<1>4. Sorted(n) <=> /\ Sorted(n.left) /\ Sorted(n.right)
                    /\ \A k \in KeysOf(n.left) : k < n.key
                    /\ \A k \in KeysOf(n.right) : k > n.key
  BY <1>1 DEF Sorted
<1>5. Even(n) <=> /\ Even(n.left) /\ Even(n.right)
                  /\ Height(n.right) - Height(n.left) \in {-1, 0, 1}
  BY <1>1 DEF Even, avlnode_balance_factor, Height
<1> QED
  BY <1>2, <1>3, <1>4, <1>5

LEMMA KeysAreKeys ==
  ASSUME NEW t \in Tree
  PROVE  /\ KeysOf(t) \subseteq Key
         /\ \A k, v : Entry(k, v) \in Entries(t) => k \in KeysOf(t) /\ v \in Value
         /\ \A k \in KeysOf(t) : \E v \in Value : Entry(k, v) \in Entries(t)
<1>1. \A n \in Nodes(t) : n.key \in Key /\ n.val \in Value
  BY NodesAreNodes, NodePartsTree
<1>2. ASSUME NEW k, NEW v, Entry(k, v) \in Entries(t) PROVE k \in KeysOf(t) /\ v \in Value
  <2>1. PICK n \in Nodes(t) : Entry(k, v) = Entry(n.key, n.val)
    BY <1>2 DEF Entries
  <2> QED
    BY <1>1, <2>1, EntryIsPair DEF KeysOf
<1>3. ASSUME NEW k \in KeysOf(t) PROVE \E v \in Value : Entry(k, v) \in Entries(t)
  <2>1. PICK n \in Nodes(t) : k = n.key
    BY DEF KeysOf
  <2> QED
    BY <1>1, <2>1 DEF Entries
<1> QED
  BY <1>1, <1>2, <1>3 DEF KeysOf

\* A sorted tree has room for another key on one more level.
LEMMA HeightIsSmall == \A t \in Tree : Sorted(t) => Height(t) <= Cardinality(KeysOf(t))
<1> DEFINE S == {t \in Tree : Sorted(t) => Height(t) <= Cardinality(KeysOf(t))}
<1>0. \A t \in Tree : IsFiniteSet(KeysOf(t)) /\ Cardinality(KeysOf(t)) \in Nat
  BY KeysAreKeys, KeyAssumption, FS_Subset, FS_CardinalityType
<1>1. Nil \in S
  <2>1. Cardinality(KeysOf(Nil)) = 0
    BY NilHolds, FS_EmptySet
  <2> QED
    BY <2>1, NilIsTree, HeightOfNode
<1>2. ASSUME NEW n, IsNode(n), n.left \in S, n.right \in S PROVE n \in S
  <2> SUFFICES ASSUME Sorted(n) PROVE Height(n) <= Cardinality(KeysOf(n))
    BY <1>2 DEF IsNode
  <2> DEFINE K(t) == KeysOf(t)
  <2>1. /\ K(n) = {n.key} \cup K(n.left) \cup K(n.right)
        /\ Sorted(n.left) /\ Sorted(n.right)
        /\ \A k \in K(n.left) : k < n.key
        /\ \A k \in K(n.right) : k > n.key
    BY <1>2, NodeHolds
  <2>2. /\ IsFiniteSet(K(n)) /\ Cardinality(K(n)) \in Nat
        /\ IsFiniteSet(K(n.left)) /\ Cardinality(K(n.left)) \in Nat
        /\ IsFiniteSet(K(n.right)) /\ Cardinality(K(n.right)) \in Nat
    BY <1>0, <1>2, NodePartsTree DEF IsNode
  <2>3. n.key \in Int
    BY <1>2, NodePartsTree
  <2>4. n.key \notin K(n.left) /\ n.key \notin K(n.right)
    BY <2>1, <2>3
  <2> HIDE DEF K
  <2>5. ASSUME NEW A, A \subseteq K(n), n.key \notin A, IsFiniteSet(A)
        PROVE  Cardinality(A) + 1 <= Cardinality(K(n))
    <3>1. IsFiniteSet(A \cup {n.key}) /\ Cardinality(A \cup {n.key}) = Cardinality(A) + 1
      BY <2>5, FS_AddElement
    <3>2. A \cup {n.key} \subseteq K(n)
      BY <2>1, <2>5
    <3>3. Cardinality(A \cup {n.key}) <= Cardinality(K(n))
      BY <2>2, <3>2, FS_Subset
    <3> QED
      BY <3>1, <3>3
  <2>6. /\ Cardinality(K(n.left)) + 1 <= Cardinality(K(n))
        /\ Cardinality(K(n.right)) + 1 <= Cardinality(K(n))
    BY <2>1, <2>2, <2>4, <2>5
  <2>7. Height(n.left) <= Cardinality(K(n.left)) /\ Height(n.right) <= Cardinality(K(n.right))
    BY <1>2, <2>1 DEF K
  <2>8. Height(n) = 1 + (IF Height(n.right) > Height(n.left) THEN Height(n.right) ELSE Height(n.left))
        /\ Height(n.left) \in Nat /\ Height(n.right) \in Nat
    BY <1>2, HeightOfNode
  <2>9. Height(n) <= Cardinality(K(n))
    BY <2>2, <2>6, <2>7, <2>8
  <2> QED
    BY <2>9 DEF K
<1> HIDE DEF S
<1>3. \A t \in Tree : t \in S
  BY <1>1, <1>2, TreeInduction
<1> QED
  BY <1>3 DEF S

\* The search finds the client of a key, and nothing for a key that is not there.
Lookup(t, k) == LET n == avlnode_search(t, k) IN IF n = Nil THEN None ELSE n.val

LEMMA SearchFinds ==
  \A t \in Tree : Sorted(t) =>
    \A k \in Key : /\ k \notin KeysOf(t) => Lookup(t, k) = None
                   /\ \A v : Entry(k, v) \in Entries(t) => Lookup(t, k) = v
<1> DEFINE S == {t \in Tree : Sorted(t) =>
                   \A k \in Key : /\ k \notin KeysOf(t) => Lookup(t, k) = None
                                  /\ \A v : Entry(k, v) \in Entries(t) => Lookup(t, k) = v}
<1>1. Nil \in S
  BY NilIsTree, NilHolds, SearchOf DEF Lookup
<1>2. ASSUME NEW n, IsNode(n), n.left \in S, n.right \in S PROVE n \in S
  <2> SUFFICES ASSUME Sorted(n), NEW k \in Key
               PROVE  /\ k \notin KeysOf(n) => Lookup(n, k) = None
                      /\ \A v : Entry(k, v) \in Entries(n) => Lookup(n, k) = v
    BY <1>2 DEF IsNode
  <2>1. /\ KeysOf(n) = {n.key} \cup KeysOf(n.left) \cup KeysOf(n.right)
        /\ Entries(n) = {Entry(n.key, n.val)} \cup Entries(n.left) \cup Entries(n.right)
        /\ Sorted(n.left) /\ Sorted(n.right)
        /\ \A j \in KeysOf(n.left) : j < n.key
        /\ \A j \in KeysOf(n.right) : j > n.key
    BY <1>2, NodeHolds
  <2>2. n.key \in Int /\ k \in Int /\ n.left \in Tree /\ n.right \in Tree
    BY <1>2, NodePartsTree, KeyAssumption
  <2>3. \A v : /\ Entry(k, v) \in Entries(n.left) => k \in KeysOf(n.left)
               /\ Entry(k, v) \in Entries(n.right) => k \in KeysOf(n.right)
    BY <2>2, KeysAreKeys
  <2>4. \A v : Entry(k, v) = Entry(n.key, n.val) => k = n.key /\ v = n.val
    BY EntryIsPair
  <2>5. n # Nil
    BY <1>2 DEF IsNode
  <2>6. CASE k = n.key
    <3>1. Lookup(n, k) = n.val
      BY <1>2, <2>5, <2>6, SearchOf DEF Lookup
    <3>2. k \notin KeysOf(n.left) /\ k \notin KeysOf(n.right)
      BY <2>1, <2>2, <2>6
    <3> QED
      BY <2>1, <2>3, <2>4, <2>6, <3>1, <3>2
  <2>7. CASE k < n.key
    <3>1. Lookup(n, k) = Lookup(n.left, k)
      BY <1>2, <2>2, <2>7, SearchOf DEF Lookup
    <3>2. k \notin KeysOf(n.right) /\ k # n.key
      BY <2>1, <2>2, <2>7
    <3> QED
      BY <1>2, <2>1, <2>3, <2>4, <3>1, <3>2
  <2>8. CASE k > n.key
    <3>1. Lookup(n, k) = Lookup(n.right, k)
      BY <1>2, <2>2, <2>8, SearchOf DEF Lookup
    <3>2. k \notin KeysOf(n.left) /\ k # n.key
      BY <2>1, <2>2, <2>8
    <3> QED
      BY <1>2, <2>1, <2>3, <2>4, <3>1, <3>2
  <2> QED
    BY <2>2, <2>6, <2>7, <2>8
<1> HIDE DEF S
<1>3. \A t \in Tree : t \in S
  BY <1>1, <1>2, TreeInduction
<1> QED
  BY <1>3 DEF S

-----------------------------------------------------------------------------
(* Rotations *)

\* m has the keys and clients of n, sorted and balanced, and is not taller.
Kept(n, m) ==
  /\ IsNode(m) /\ Sorted(m) /\ Even(m)
  /\ KeysOf(m) = KeysOf(n) /\ Entries(m) = Entries(n)
  /\ Height(m) = Height(n) \/ Height(m) = Height(n) - 1

\* n leans by two to the right, or to the left.
Leans(n, l, r) ==
  /\ IsNode(n) /\ Sorted(n) /\ Even(n.left) /\ Even(n.right)
  /\ Height(r) - Height(l) = 2

LEMMA SingleOnRight ==
  ASSUME NEW n, Leans(n, n.left, n.right), Height(n.right.right) >= Height(n.right.left)
  PROVE  Kept(n, avlnode_rotate_rr(n))
<1> DEFINE b == n.right
           a == Node(n.key, n.val, n.left, b.left)
           m == Node(b.key, b.val, a, b.right)
<1>1. IsNode(n) /\ n.left \in Tree /\ n.right \in Tree /\ n.key \in Key /\ n.val \in Value /\ n.key \in Int
  BY NodePartsTree DEF Leans
<1>2. IsNode(b)
  BY <1>1, HeightOfNode DEF Leans, IsNode
<1>3. b.left \in Tree /\ b.right \in Tree /\ b.key \in Key /\ b.val \in Value /\ b.key \in Int
  BY <1>2, NodePartsTree
<1>4. avlnode_rotate_rr(n) = m
  BY <1>1, <1>2, EditNode DEF avlnode_rotate_rr
<1> DEFINE H(t) == Height(t)
<1>5. /\ H(n.left) \in Nat /\ H(b) \in Nat /\ H(b.left) \in Nat /\ H(b.right) \in Nat
      /\ H(b) - H(n.left) = 2 /\ H(b.right) >= H(b.left)
      /\ H(b.right) - H(b.left) \in {-1, 0, 1}
      /\ H(n) = 1 + H(b) /\ H(b) = 1 + H(b.right)
      /\ H(b) < Depth /\ Depth \in Nat
  <2>1. Even(b)
    BY DEF Leans
  <2>2. H(b.right) - H(b.left) \in {-1, 0, 1}
    BY <1>2, <2>1, NodeHolds
  <2>3. /\ H(b) = 1 + (IF H(b.right) > H(b.left) THEN H(b.right) ELSE H(b.left))
        /\ H(b.left) \in Nat /\ H(b.right) \in Nat
    BY <1>2, HeightOfNode
  <2>4. /\ H(n) = 1 + (IF H(n.right) > H(n.left) THEN H(n.right) ELSE H(n.left))
        /\ H(n.left) \in Nat /\ H(n.right) \in Nat /\ H(n.left) < Depth /\ H(n.right) < Depth
    BY <1>1, HeightOfNode
  <2>5. H(b) - H(n.left) = 2 /\ H(b.right) >= H(b.left)
    BY DEF Leans
  <2>6. Depth \in Nat
    BY DepthIsNat DEF Depth
  <2> HIDE DEF H
  <2> QED
    BY <2>2, <2>3, <2>4, <2>5, <2>6
<1>6. /\ IsNode(a) /\ a.key = n.key /\ a.val = n.val /\ a.left = n.left /\ a.right = b.left
      /\ H(a) = 1 + (IF H(a.right) > H(a.left) THEN H(a.right) ELSE H(a.left))
  <2>1. H(n.left) < Depth /\ H(b.left) < Depth
    BY <1>5
  <2> QED
    BY <1>1, <1>3, <2>1, NodeIsTree
<1> HIDE DEF a
<1>7. /\ H(a) \in Nat /\ H(a) = 1 + (IF H(b.left) > H(n.left) THEN H(b.left) ELSE H(n.left))
  BY <1>5, <1>6
<1>8. /\ IsNode(m) /\ m.key = b.key /\ m.val = b.val /\ m.left = a /\ m.right = b.right
      /\ H(m) = 1 + (IF H(m.right) > H(m.left) THEN H(m.right) ELSE H(m.left))
  <2>1. H(a) < Depth /\ H(b.right) < Depth
    BY <1>5, <1>7
  <2>2. a \in Tree
    BY <1>6 DEF IsNode
  <2> QED
    BY <1>3, <2>1, <2>2, NodeIsTree
<1> HIDE DEF m
<1>9. Sorted(n) /\ Sorted(b) /\ Even(n.left) /\ Even(b.left) /\ Even(b.right)
  BY <1>1, <1>2, NodeHolds DEF Leans
<1>10. /\ KeysOf(n) = {n.key} \cup KeysOf(n.left) \cup KeysOf(b)
       /\ KeysOf(b) = {b.key} \cup KeysOf(b.left) \cup KeysOf(b.right)
       /\ KeysOf(a) = {n.key} \cup KeysOf(n.left) \cup KeysOf(b.left)
       /\ KeysOf(m) = {b.key} \cup KeysOf(a) \cup KeysOf(b.right)
       /\ Entries(n) = {Entry(n.key, n.val)} \cup Entries(n.left) \cup Entries(b)
       /\ Entries(b) = {Entry(b.key, b.val)} \cup Entries(b.left) \cup Entries(b.right)
       /\ Entries(a) = {Entry(n.key, n.val)} \cup Entries(n.left) \cup Entries(b.left)
       /\ Entries(m) = {Entry(b.key, b.val)} \cup Entries(a) \cup Entries(b.right)
  <2>1. /\ KeysOf(n) = {n.key} \cup KeysOf(n.left) \cup KeysOf(n.right)
        /\ Entries(n) = {Entry(n.key, n.val)} \cup Entries(n.left) \cup Entries(n.right)
    BY <1>1, NodeHolds
  <2>2. /\ KeysOf(b) = {b.key} \cup KeysOf(b.left) \cup KeysOf(b.right)
        /\ Entries(b) = {Entry(b.key, b.val)} \cup Entries(b.left) \cup Entries(b.right)
    BY <1>2, NodeHolds
  <2>3. /\ KeysOf(a) = {a.key} \cup KeysOf(a.left) \cup KeysOf(a.right)
        /\ Entries(a) = {Entry(a.key, a.val)} \cup Entries(a.left) \cup Entries(a.right)
    BY <1>6, NodeHolds
  <2>4. /\ KeysOf(m) = {m.key} \cup KeysOf(m.left) \cup KeysOf(m.right)
        /\ Entries(m) = {Entry(m.key, m.val)} \cup Entries(m.left) \cup Entries(m.right)
    BY <1>8, NodeHolds
  <2> QED
    BY <1>6, <1>8, <2>1, <2>2, <2>3, <2>4
<1>11. Sorted(m)
  <2>1. KeysOf(n.left) \subseteq Int /\ KeysOf(n.right) \subseteq Int
    BY <1>1, KeysAreKeys, KeyAssumption
  <2>2. /\ \A k \in KeysOf(n.left) : k < n.key
        /\ \A k \in KeysOf(n.right) : k > n.key
        /\ Sorted(n.left)
    BY <1>1, <1>9, NodeHolds
  <2>3. /\ \A k \in KeysOf(b.left) : k < b.key
        /\ \A k \in KeysOf(b.right) : k > b.key
        /\ Sorted(b.left) /\ Sorted(b.right)
    BY <1>2, <1>9, NodeHolds
  <2>4. /\ \A k \in KeysOf(a.left) : k < a.key
        /\ \A k \in KeysOf(a.right) : k > a.key
    BY <1>6, <1>10, <2>2
  <2>5. Sorted(a)
    BY <1>6, <2>2, <2>3, <2>4, NodeHolds
  <2>6. /\ \A k \in KeysOf(m.left) : k < m.key
        /\ \A k \in KeysOf(m.right) : k > m.key
    BY <1>1, <1>3, <1>8, <1>10, <2>1, <2>2, <2>3
  <2> QED
    BY <1>8, <2>3, <2>5, <2>6, NodeHolds
<1>12. Even(m)
  <2>1. Even(a)
    BY <1>5, <1>6, <1>9, NodeHolds
  <2>2. H(m.right) - H(m.left) \in {-1, 0, 1}
    BY <1>5, <1>7, <1>8
  <2> QED
    BY <1>8, <1>9, <2>1, <2>2, NodeHolds
<1>13. H(m) = H(n) \/ H(m) = H(n) - 1
  BY <1>5, <1>7, <1>8
<1> QED
  BY <1>4, <1>8, <1>10, <1>11, <1>12, <1>13 DEF Kept

LEMMA SingleOnLeft ==
  ASSUME NEW n, Leans(n, n.right, n.left), Height(n.left.left) >= Height(n.left.right)
  PROVE  Kept(n, avlnode_rotate_ll(n))
<1> DEFINE b == n.left
           a == Node(n.key, n.val, b.right, n.right)
           m == Node(b.key, b.val, b.left, a)
<1>1. IsNode(n) /\ n.left \in Tree /\ n.right \in Tree /\ n.key \in Key /\ n.val \in Value /\ n.key \in Int
  BY NodePartsTree DEF Leans
<1>2. IsNode(b)
  BY <1>1, HeightOfNode DEF Leans, IsNode
<1>3. b.left \in Tree /\ b.right \in Tree /\ b.key \in Key /\ b.val \in Value /\ b.key \in Int
  BY <1>2, NodePartsTree
<1>4. avlnode_rotate_ll(n) = m
  BY <1>1, <1>2, EditNode DEF avlnode_rotate_ll
<1> DEFINE H(t) == Height(t)
<1>5. /\ H(n.right) \in Nat /\ H(b) \in Nat /\ H(b.right) \in Nat /\ H(b.left) \in Nat
      /\ H(b) - H(n.right) = 2 /\ H(b.left) >= H(b.right)
      /\ H(b.left) - H(b.right) \in {-1, 0, 1}
      /\ H(n) = 1 + H(b) /\ H(b) = 1 + H(b.left)
      /\ H(b) < Depth /\ Depth \in Nat
  <2>1. Even(b)
    BY DEF Leans
  <2>2. H(b.right) - H(b.left) \in {-1, 0, 1}
    BY <1>2, <2>1, NodeHolds
  <2>3. /\ H(b) = 1 + (IF H(b.right) > H(b.left) THEN H(b.right) ELSE H(b.left))
        /\ H(b.left) \in Nat /\ H(b.right) \in Nat
    BY <1>2, HeightOfNode
  <2>4. /\ H(n) = 1 + (IF H(n.right) > H(n.left) THEN H(n.right) ELSE H(n.left))
        /\ H(n.left) \in Nat /\ H(n.right) \in Nat /\ H(n.left) < Depth /\ H(n.right) < Depth
    BY <1>1, HeightOfNode
  <2>5. H(b) - H(n.right) = 2 /\ H(b.left) >= H(b.right)
    BY DEF Leans
  <2>6. Depth \in Nat
    BY DepthIsNat DEF Depth
  <2> HIDE DEF H
  <2> QED
    BY <2>2, <2>3, <2>4, <2>5, <2>6
<1>6. /\ IsNode(a) /\ a.key = n.key /\ a.val = n.val /\ a.right = n.right /\ a.left = b.right
      /\ H(a) = 1 + (IF H(a.right) > H(a.left) THEN H(a.right) ELSE H(a.left))
  <2>1. H(n.right) < Depth /\ H(b.right) < Depth
    BY <1>5
  <2> QED
    BY <1>1, <1>3, <2>1, NodeIsTree
<1> HIDE DEF a
<1>7. /\ H(a) \in Nat /\ H(a) = 1 + (IF H(b.right) > H(n.right) THEN H(b.right) ELSE H(n.right))
  BY <1>5, <1>6
<1>8. /\ IsNode(m) /\ m.key = b.key /\ m.val = b.val /\ m.right = a /\ m.left = b.left
      /\ H(m) = 1 + (IF H(m.right) > H(m.left) THEN H(m.right) ELSE H(m.left))
  <2>1. H(a) < Depth /\ H(b.left) < Depth
    BY <1>5, <1>7
  <2>2. a \in Tree
    BY <1>6 DEF IsNode
  <2> QED
    BY <1>3, <2>1, <2>2, NodeIsTree
<1> HIDE DEF m
<1>9. Sorted(n) /\ Sorted(b) /\ Even(n.right) /\ Even(b.left) /\ Even(b.right)
  BY <1>1, <1>2, NodeHolds DEF Leans
<1>10. /\ KeysOf(n) = {n.key} \cup KeysOf(n.right) \cup KeysOf(b)
       /\ KeysOf(b) = {b.key} \cup KeysOf(b.left) \cup KeysOf(b.right)
       /\ KeysOf(a) = {n.key} \cup KeysOf(n.right) \cup KeysOf(b.right)
       /\ KeysOf(m) = {b.key} \cup KeysOf(a) \cup KeysOf(b.left)
       /\ Entries(n) = {Entry(n.key, n.val)} \cup Entries(n.right) \cup Entries(b)
       /\ Entries(b) = {Entry(b.key, b.val)} \cup Entries(b.left) \cup Entries(b.right)
       /\ Entries(a) = {Entry(n.key, n.val)} \cup Entries(n.right) \cup Entries(b.right)
       /\ Entries(m) = {Entry(b.key, b.val)} \cup Entries(a) \cup Entries(b.left)
  <2>1. /\ KeysOf(n) = {n.key} \cup KeysOf(n.left) \cup KeysOf(n.right)
        /\ Entries(n) = {Entry(n.key, n.val)} \cup Entries(n.left) \cup Entries(n.right)
    BY <1>1, NodeHolds
  <2>2. /\ KeysOf(b) = {b.key} \cup KeysOf(b.left) \cup KeysOf(b.right)
        /\ Entries(b) = {Entry(b.key, b.val)} \cup Entries(b.left) \cup Entries(b.right)
    BY <1>2, NodeHolds
  <2>3. /\ KeysOf(a) = {a.key} \cup KeysOf(a.left) \cup KeysOf(a.right)
        /\ Entries(a) = {Entry(a.key, a.val)} \cup Entries(a.left) \cup Entries(a.right)
    BY <1>6, NodeHolds
  <2>4. /\ KeysOf(m) = {m.key} \cup KeysOf(m.left) \cup KeysOf(m.right)
        /\ Entries(m) = {Entry(m.key, m.val)} \cup Entries(m.left) \cup Entries(m.right)
    BY <1>8, NodeHolds
  <2> QED
    BY <1>6, <1>8, <2>1, <2>2, <2>3, <2>4
<1>11. Sorted(m)
  <2>1. KeysOf(n.left) \subseteq Int /\ KeysOf(n.right) \subseteq Int
    BY <1>1, KeysAreKeys, KeyAssumption
  <2>2. /\ \A k \in KeysOf(n.left) : k < n.key
        /\ \A k \in KeysOf(n.right) : k > n.key
        /\ Sorted(n.right)
    BY <1>1, <1>9, NodeHolds
  <2>3. /\ \A k \in KeysOf(b.left) : k < b.key
        /\ \A k \in KeysOf(b.right) : k > b.key
        /\ Sorted(b.left) /\ Sorted(b.right)
    BY <1>2, <1>9, NodeHolds
  <2>4. /\ \A k \in KeysOf(a.left) : k < a.key
        /\ \A k \in KeysOf(a.right) : k > a.key
    BY <1>6, <1>10, <2>2
  <2>5. Sorted(a)
    BY <1>6, <2>2, <2>3, <2>4, NodeHolds
  <2>6. /\ \A k \in KeysOf(m.left) : k < m.key
        /\ \A k \in KeysOf(m.right) : k > m.key
    BY <1>1, <1>3, <1>8, <1>10, <2>1, <2>2, <2>3
  <2> QED
    BY <1>8, <2>3, <2>5, <2>6, NodeHolds
<1>12. Even(m)
  <2>1. Even(a)
    BY <1>5, <1>6, <1>9, NodeHolds
  <2>2. H(m.right) - H(m.left) \in {-1, 0, 1}
    BY <1>5, <1>7, <1>8
  <2> QED
    BY <1>8, <1>9, <2>1, <2>2, NodeHolds
<1>13. H(m) = H(n) \/ H(m) = H(n) - 1
  BY <1>5, <1>7, <1>8
<1> QED
  BY <1>4, <1>8, <1>10, <1>11, <1>12, <1>13 DEF Kept

LEMMA DoubleOnRight ==
  ASSUME NEW n, Leans(n, n.left, n.right), Height(n.right.right) < Height(n.right.left)
  PROVE  Kept(n, avlnode_rotate_rl(n))
<1> DEFINE b == n.right
           c == b.left
           a == Node(n.key, n.val, n.left, c.left)
           d == Node(b.key, b.val, c.right, b.right)
           m == Node(c.key, c.val, a, d)
<1>1. IsNode(n) /\ n.left \in Tree /\ n.right \in Tree /\ n.key \in Key /\ n.val \in Value /\ n.key \in Int
  BY NodePartsTree DEF Leans
<1>2. IsNode(b)
  BY <1>1, HeightOfNode DEF Leans, IsNode
<1>3. b.left \in Tree /\ b.right \in Tree /\ b.key \in Key /\ b.val \in Value /\ b.key \in Int
  BY <1>2, NodePartsTree
<1>4. IsNode(c)
  BY <1>2, <1>3, HeightOfNode DEF IsNode
<1>5. c.left \in Tree /\ c.right \in Tree /\ c.key \in Key /\ c.val \in Value /\ c.key \in Int
  BY <1>4, NodePartsTree
<1>6. avlnode_rotate_rl(n) = m
  BY <1>1, <1>2, <1>4, EditNode DEF avlnode_rotate_rl
<1> DEFINE H(t) == Height(t)
<1>7. /\ H(n.left) \in Nat /\ H(b) = H(n.left) + 2 /\ H(n) = H(n.left) + 3
      /\ H(c) = H(n.left) + 1 /\ H(b.right) = H(n.left)
      /\ H(c.left) \in Nat /\ H(c.right) \in Nat
      /\ H(c.left) = H(n.left) \/ H(c.left) = H(n.left) - 1
      /\ H(c.right) = H(n.left) \/ H(c.right) = H(n.left) - 1
      /\ H(b) < Depth /\ Depth \in Nat
  <2>1. Even(b) /\ Even(c)
    BY <1>2, NodeHolds DEF Leans
  <2>2. H(b.right) - H(b.left) \in {-1, 0, 1} /\ H(c.right) - H(c.left) \in {-1, 0, 1}
    BY <1>2, <1>4, <2>1, NodeHolds
  <2>3. /\ H(b) = 1 + (IF H(b.right) > H(b.left) THEN H(b.right) ELSE H(b.left))
        /\ H(b.left) \in Nat /\ H(b.right) \in Nat
    BY <1>2, HeightOfNode
  <2>4. /\ H(n) = 1 + (IF H(n.right) > H(n.left) THEN H(n.right) ELSE H(n.left))
        /\ H(n.left) \in Nat /\ H(n.right) \in Nat /\ H(n.left) < Depth /\ H(n.right) < Depth
    BY <1>1, HeightOfNode
  <2>5. /\ H(c) = 1 + (IF H(c.right) > H(c.left) THEN H(c.right) ELSE H(c.left))
        /\ H(c.left) \in Nat /\ H(c.right) \in Nat
    BY <1>4, HeightOfNode
  <2>6. H(b) - H(n.left) = 2 /\ H(b.right) < H(c)
    BY DEF Leans
  <2>7. Depth \in Nat
    BY DepthIsNat DEF Depth
  <2> HIDE DEF H
  <2>8. H(c) = H(b.right) + 1 /\ H(b) = H(c) + 1
    BY <2>2, <2>3, <2>6
  <2>9. H(c.left) = H(c) - 1 \/ H(c.left) = H(c) - 2
    BY <2>2, <2>5
  <2>10. H(c.right) = H(c) - 1 \/ H(c.right) = H(c) - 2
    BY <2>2, <2>5
  <2> QED
    BY <2>3, <2>4, <2>5, <2>6, <2>7, <2>8, <2>9, <2>10
<1>8. /\ IsNode(a) /\ a.key = n.key /\ a.val = n.val /\ a.left = n.left /\ a.right = c.left
      /\ H(a) = 1 + (IF H(a.right) > H(a.left) THEN H(a.right) ELSE H(a.left))
  <2>1. H(n.left) < Depth /\ H(c.left) < Depth
    BY <1>7
  <2> QED
    BY <1>1, <1>5, <2>1, NodeIsTree
<1> HIDE DEF a
<1>9. /\ IsNode(d) /\ d.key = b.key /\ d.val = b.val /\ d.left = c.right /\ d.right = b.right
      /\ H(d) = 1 + (IF H(d.right) > H(d.left) THEN H(d.right) ELSE H(d.left))
  <2>1. H(c.right) < Depth /\ H(b.right) < Depth
    BY <1>7
  <2> QED
    BY <1>3, <1>5, <2>1, NodeIsTree
<1> HIDE DEF d
<1>10. H(a) = H(n.left) + 1 /\ H(d) = H(n.left) + 1
  BY <1>7, <1>8, <1>9
<1>11. /\ IsNode(m) /\ m.key = c.key /\ m.val = c.val /\ m.left = a /\ m.right = d
       /\ H(m) = 1 + (IF H(m.right) > H(m.left) THEN H(m.right) ELSE H(m.left))
  <2>1. H(a) < Depth /\ H(d) < Depth
    BY <1>7, <1>10
  <2>2. a \in Tree /\ d \in Tree
    BY <1>8, <1>9 DEF IsNode
  <2> QED
    BY <1>5, <2>1, <2>2, NodeIsTree
<1> HIDE DEF m
<1>12. /\ KeysOf(n) = {n.key} \cup KeysOf(n.left) \cup KeysOf(b)
       /\ KeysOf(b) = {b.key} \cup KeysOf(c) \cup KeysOf(b.right)
       /\ KeysOf(c) = {c.key} \cup KeysOf(c.left) \cup KeysOf(c.right)
       /\ KeysOf(a) = {n.key} \cup KeysOf(n.left) \cup KeysOf(c.left)
       /\ KeysOf(d) = {b.key} \cup KeysOf(c.right) \cup KeysOf(b.right)
       /\ KeysOf(m) = {c.key} \cup KeysOf(a) \cup KeysOf(d)
       /\ Entries(n) = {Entry(n.key, n.val)} \cup Entries(n.left) \cup Entries(b)
       /\ Entries(b) = {Entry(b.key, b.val)} \cup Entries(c) \cup Entries(b.right)
       /\ Entries(c) = {Entry(c.key, c.val)} \cup Entries(c.left) \cup Entries(c.right)
       /\ Entries(a) = {Entry(n.key, n.val)} \cup Entries(n.left) \cup Entries(c.left)
       /\ Entries(d) = {Entry(b.key, b.val)} \cup Entries(c.right) \cup Entries(b.right)
       /\ Entries(m) = {Entry(c.key, c.val)} \cup Entries(a) \cup Entries(d)
  <2>1. /\ KeysOf(n) = {n.key} \cup KeysOf(n.left) \cup KeysOf(n.right)
        /\ Entries(n) = {Entry(n.key, n.val)} \cup Entries(n.left) \cup Entries(n.right)
    BY <1>1, NodeHolds
  <2>2. /\ KeysOf(b) = {b.key} \cup KeysOf(b.left) \cup KeysOf(b.right)
        /\ Entries(b) = {Entry(b.key, b.val)} \cup Entries(b.left) \cup Entries(b.right)
    BY <1>2, NodeHolds
  <2>3. /\ KeysOf(c) = {c.key} \cup KeysOf(c.left) \cup KeysOf(c.right)
        /\ Entries(c) = {Entry(c.key, c.val)} \cup Entries(c.left) \cup Entries(c.right)
    BY <1>4, NodeHolds
  <2>4. /\ KeysOf(a) = {a.key} \cup KeysOf(a.left) \cup KeysOf(a.right)
        /\ Entries(a) = {Entry(a.key, a.val)} \cup Entries(a.left) \cup Entries(a.right)
    BY <1>8, NodeHolds
  <2>5. /\ KeysOf(d) = {d.key} \cup KeysOf(d.left) \cup KeysOf(d.right)
        /\ Entries(d) = {Entry(d.key, d.val)} \cup Entries(d.left) \cup Entries(d.right)
    BY <1>9, NodeHolds
  <2>6. /\ KeysOf(m) = {m.key} \cup KeysOf(m.left) \cup KeysOf(m.right)
        /\ Entries(m) = {Entry(m.key, m.val)} \cup Entries(m.left) \cup Entries(m.right)
    BY <1>11, NodeHolds
  <2>7. /\ KeysOf(a) = {n.key} \cup KeysOf(n.left) \cup KeysOf(c.left)
        /\ Entries(a) = {Entry(n.key, n.val)} \cup Entries(n.left) \cup Entries(c.left)
    BY <1>8, <2>4
  <2>8. /\ KeysOf(d) = {b.key} \cup KeysOf(c.right) \cup KeysOf(b.right)
        /\ Entries(d) = {Entry(b.key, b.val)} \cup Entries(c.right) \cup Entries(b.right)
    BY <1>9, <2>5
  <2>9. /\ KeysOf(m) = {c.key} \cup KeysOf(a) \cup KeysOf(d)
        /\ Entries(m) = {Entry(c.key, c.val)} \cup Entries(a) \cup Entries(d)
    BY <1>11, <2>6
  <2> QED
    BY <2>1, <2>2, <2>3, <2>7, <2>8, <2>9
<1>13. KeysOf(m) = KeysOf(n)
  BY <1>12
<1>14. Entries(m) = Entries(n)
  BY <1>12
<1>15. Sorted(m)
  <2>1. Sorted(n) /\ Sorted(b) /\ Sorted(c)
    BY <1>1, <1>2, NodeHolds DEF Leans
  <2>2. KeysOf(n.left) \subseteq Int /\ KeysOf(n.right) \subseteq Int
    BY <1>1, KeysAreKeys, KeyAssumption
  <2>3. /\ \A k \in KeysOf(n.left) : k < n.key
        /\ \A k \in KeysOf(n.right) : k > n.key
        /\ Sorted(n.left)
    BY <1>1, <2>1, NodeHolds
  <2>4. /\ \A k \in KeysOf(b.left) : k < b.key
        /\ \A k \in KeysOf(b.right) : k > b.key
        /\ Sorted(b.right)
    BY <1>2, <2>1, NodeHolds
  <2>5. /\ \A k \in KeysOf(c.left) : k < c.key
        /\ \A k \in KeysOf(c.right) : k > c.key
        /\ Sorted(c.left) /\ Sorted(c.right)
    BY <1>4, <2>1, NodeHolds
  <2>6. /\ \A k \in KeysOf(a.left) : k < a.key
        /\ \A k \in KeysOf(a.right) : k > a.key
    BY <1>8, <1>12, <2>3
  <2>7. /\ \A k \in KeysOf(d.left) : k < d.key
        /\ \A k \in KeysOf(d.right) : k > d.key
    BY <1>9, <1>12, <2>4
  <2>8. Sorted(a) /\ Sorted(d)
    BY <1>8, <1>9, <2>3, <2>4, <2>5, <2>6, <2>7, NodeHolds
  <2>9. c.key \in KeysOf(b.left) /\ b.key \in KeysOf(n.right) /\ c.key \in KeysOf(n.right)
    BY <1>12
  <2>10. n.key < c.key /\ c.key < b.key
    BY <2>3, <2>4, <2>9, <1>1, <1>3, <1>5
  <2>11. \A k \in KeysOf(a) : k < c.key
    BY <1>1, <1>5, <1>12, <2>2, <2>3, <2>5, <2>10
  <2>12. \A k \in KeysOf(d) : k > c.key
    BY <1>1, <1>3, <1>5, <1>12, <2>2, <2>4, <2>5, <2>10
  <2>13. /\ \A k \in KeysOf(m.left) : k < m.key
         /\ \A k \in KeysOf(m.right) : k > m.key
    BY <1>11, <2>11, <2>12
  <2>14. Sorted(m.left) /\ Sorted(m.right)
    BY <1>11, <2>8
  <2> QED
    BY <1>11, <2>13, <2>14, NodeHolds
<1>16. Even(m)
  <2>1. Even(n.left) /\ Even(b.right) /\ Even(c.left) /\ Even(c.right)
    BY <1>2, <1>4, NodeHolds DEF Leans
  <2>2. H(a.right) - H(a.left) \in {-1, 0, 1} /\ H(d.right) - H(d.left) \in {-1, 0, 1}
    BY <1>7, <1>8, <1>9
  <2>3. Even(a) /\ Even(d)
    BY <1>8, <1>9, <2>1, <2>2, NodeHolds
  <2>4. H(m.right) - H(m.left) \in {-1, 0, 1}
    BY <1>7, <1>10, <1>11
  <2>5. Even(m.left) /\ Even(m.right)
    BY <1>11, <2>3
  <2> QED
    BY <1>11, <2>4, <2>5, NodeHolds
<1>17. H(m) = H(n) - 1
  BY <1>7, <1>10, <1>11
<1> QED
  BY <1>6, <1>11, <1>13, <1>14, <1>15, <1>16, <1>17 DEF Kept

LEMMA DoubleOnLeft ==
  ASSUME NEW n, Leans(n, n.right, n.left), Height(n.left.left) < Height(n.left.right)
  PROVE  Kept(n, avlnode_rotate_lr(n))
<1> DEFINE b == n.left
           c == b.right
           a == Node(n.key, n.val, c.right, n.right)
           d == Node(b.key, b.val, b.left, c.left)
           m == Node(c.key, c.val, d, a)
<1>1. IsNode(n) /\ n.left \in Tree /\ n.right \in Tree /\ n.key \in Key /\ n.val \in Value /\ n.key \in Int
  BY NodePartsTree DEF Leans
<1>2. IsNode(b)
  BY <1>1, HeightOfNode DEF Leans, IsNode
<1>3. b.left \in Tree /\ b.right \in Tree /\ b.key \in Key /\ b.val \in Value /\ b.key \in Int
  BY <1>2, NodePartsTree
<1>4. IsNode(c)
  BY <1>2, <1>3, HeightOfNode DEF IsNode
<1>5. c.left \in Tree /\ c.right \in Tree /\ c.key \in Key /\ c.val \in Value /\ c.key \in Int
  BY <1>4, NodePartsTree
<1>6. avlnode_rotate_lr(n) = m
  BY <1>1, <1>2, <1>4, EditNode DEF avlnode_rotate_lr
<1> DEFINE H(t) == Height(t)
<1>7. /\ H(n.right) \in Nat /\ H(b) = H(n.right) + 2 /\ H(n) = H(n.right) + 3
      /\ H(c) = H(n.right) + 1 /\ H(b.left) = H(n.right)
      /\ H(c.left) \in Nat /\ H(c.right) \in Nat
      /\ H(c.left) = H(n.right) \/ H(c.left) = H(n.right) - 1
      /\ H(c.right) = H(n.right) \/ H(c.right) = H(n.right) - 1
      /\ H(b) < Depth /\ Depth \in Nat
  <2>1. Even(b) /\ Even(c)
    BY <1>2, NodeHolds DEF Leans
  <2>2. H(b.right) - H(b.left) \in {-1, 0, 1} /\ H(c.right) - H(c.left) \in {-1, 0, 1}
    BY <1>2, <1>4, <2>1, NodeHolds
  <2>3. /\ H(b) = 1 + (IF H(b.right) > H(b.left) THEN H(b.right) ELSE H(b.left))
        /\ H(b.left) \in Nat /\ H(b.right) \in Nat
    BY <1>2, HeightOfNode
  <2>4. /\ H(n) = 1 + (IF H(n.right) > H(n.left) THEN H(n.right) ELSE H(n.left))
        /\ H(n.left) \in Nat /\ H(n.right) \in Nat /\ H(n.left) < Depth /\ H(n.right) < Depth
    BY <1>1, HeightOfNode
  <2>5. /\ H(c) = 1 + (IF H(c.right) > H(c.left) THEN H(c.right) ELSE H(c.left))
        /\ H(c.left) \in Nat /\ H(c.right) \in Nat
    BY <1>4, HeightOfNode
  <2>6. H(b) - H(n.right) = 2 /\ H(b.left) < H(c)
    BY DEF Leans
  <2>7. Depth \in Nat
    BY DepthIsNat DEF Depth
  <2> HIDE DEF H
  <2>8. H(c) = H(b.left) + 1 /\ H(b) = H(c) + 1
    BY <2>2, <2>3, <2>6
  <2>9. H(c.left) = H(c) - 1 \/ H(c.left) = H(c) - 2
    BY <2>2, <2>5
  <2>10. H(c.right) = H(c) - 1 \/ H(c.right) = H(c) - 2
    BY <2>2, <2>5
  <2> QED
    BY <2>3, <2>4, <2>5, <2>6, <2>7, <2>8, <2>9, <2>10
<1>8. /\ IsNode(a) /\ a.key = n.key /\ a.val = n.val /\ a.right = n.right /\ a.left = c.right
      /\ H(a) = 1 + (IF H(a.right) > H(a.left) THEN H(a.right) ELSE H(a.left))
  <2>1. H(n.right) < Depth /\ H(c.right) < Depth
    BY <1>7
  <2> QED
    BY <1>1, <1>5, <2>1, NodeIsTree
<1> HIDE DEF a
<1>9. /\ IsNode(d) /\ d.key = b.key /\ d.val = b.val /\ d.right = c.left /\ d.left = b.left
      /\ H(d) = 1 + (IF H(d.right) > H(d.left) THEN H(d.right) ELSE H(d.left))
  <2>1. H(c.left) < Depth /\ H(b.left) < Depth
    BY <1>7
  <2> QED
    BY <1>3, <1>5, <2>1, NodeIsTree
<1> HIDE DEF d
<1>10. H(a) = H(n.right) + 1 /\ H(d) = H(n.right) + 1
  BY <1>7, <1>8, <1>9
<1>11. /\ IsNode(m) /\ m.key = c.key /\ m.val = c.val /\ m.right = a /\ m.left = d
       /\ H(m) = 1 + (IF H(m.right) > H(m.left) THEN H(m.right) ELSE H(m.left))
  <2>1. H(a) < Depth /\ H(d) < Depth
    BY <1>7, <1>10
  <2>2. a \in Tree /\ d \in Tree
    BY <1>8, <1>9 DEF IsNode
  <2> QED
    BY <1>5, <2>1, <2>2, NodeIsTree
<1> HIDE DEF m
<1>12. /\ KeysOf(n) = {n.key} \cup KeysOf(n.right) \cup KeysOf(b)
       /\ KeysOf(b) = {b.key} \cup KeysOf(c) \cup KeysOf(b.left)
       /\ KeysOf(c) = {c.key} \cup KeysOf(c.left) \cup KeysOf(c.right)
       /\ KeysOf(a) = {n.key} \cup KeysOf(n.right) \cup KeysOf(c.right)
       /\ KeysOf(d) = {b.key} \cup KeysOf(c.left) \cup KeysOf(b.left)
       /\ KeysOf(m) = {c.key} \cup KeysOf(a) \cup KeysOf(d)
       /\ Entries(n) = {Entry(n.key, n.val)} \cup Entries(n.right) \cup Entries(b)
       /\ Entries(b) = {Entry(b.key, b.val)} \cup Entries(c) \cup Entries(b.left)
       /\ Entries(c) = {Entry(c.key, c.val)} \cup Entries(c.left) \cup Entries(c.right)
       /\ Entries(a) = {Entry(n.key, n.val)} \cup Entries(n.right) \cup Entries(c.right)
       /\ Entries(d) = {Entry(b.key, b.val)} \cup Entries(c.left) \cup Entries(b.left)
       /\ Entries(m) = {Entry(c.key, c.val)} \cup Entries(a) \cup Entries(d)
  <2>1. /\ KeysOf(n) = {n.key} \cup KeysOf(n.left) \cup KeysOf(n.right)
        /\ Entries(n) = {Entry(n.key, n.val)} \cup Entries(n.left) \cup Entries(n.right)
    BY <1>1, NodeHolds
  <2>2. /\ KeysOf(b) = {b.key} \cup KeysOf(b.left) \cup KeysOf(b.right)
        /\ Entries(b) = {Entry(b.key, b.val)} \cup Entries(b.left) \cup Entries(b.right)
    BY <1>2, NodeHolds
  <2>3. /\ KeysOf(c) = {c.key} \cup KeysOf(c.left) \cup KeysOf(c.right)
        /\ Entries(c) = {Entry(c.key, c.val)} \cup Entries(c.left) \cup Entries(c.right)
    BY <1>4, NodeHolds
  <2>4. /\ KeysOf(a) = {a.key} \cup KeysOf(a.left) \cup KeysOf(a.right)
        /\ Entries(a) = {Entry(a.key, a.val)} \cup Entries(a.left) \cup Entries(a.right)
    BY <1>8, NodeHolds
  <2>5. /\ KeysOf(d) = {d.key} \cup KeysOf(d.left) \cup KeysOf(d.right)
        /\ Entries(d) = {Entry(d.key, d.val)} \cup Entries(d.left) \cup Entries(d.right)
    BY <1>9, NodeHolds
  <2>6. /\ KeysOf(m) = {m.key} \cup KeysOf(m.left) \cup KeysOf(m.right)
        /\ Entries(m) = {Entry(m.key, m.val)} \cup Entries(m.left) \cup Entries(m.right)
    BY <1>11, NodeHolds
  <2>7. /\ KeysOf(a) = {n.key} \cup KeysOf(n.right) \cup KeysOf(c.right)
        /\ Entries(a) = {Entry(n.key, n.val)} \cup Entries(n.right) \cup Entries(c.right)
    BY <1>8, <2>4
  <2>8. /\ KeysOf(d) = {b.key} \cup KeysOf(c.left) \cup KeysOf(b.left)
        /\ Entries(d) = {Entry(b.key, b.val)} \cup Entries(c.left) \cup Entries(b.left)
    BY <1>9, <2>5
  <2>9. /\ KeysOf(m) = {c.key} \cup KeysOf(a) \cup KeysOf(d)
        /\ Entries(m) = {Entry(c.key, c.val)} \cup Entries(a) \cup Entries(d)
    BY <1>11, <2>6
  <2> QED
    BY <2>1, <2>2, <2>3, <2>7, <2>8, <2>9
<1>13. KeysOf(m) = KeysOf(n)
  BY <1>12
<1>14. Entries(m) = Entries(n)
  BY <1>12
<1>15. Sorted(m)
  <2>1. Sorted(n) /\ Sorted(b) /\ Sorted(c)
    BY <1>1, <1>2, NodeHolds DEF Leans
  <2>2. KeysOf(n.left) \subseteq Int /\ KeysOf(n.right) \subseteq Int
    BY <1>1, KeysAreKeys, KeyAssumption
  <2>3. /\ \A k \in KeysOf(n.left) : k < n.key
        /\ \A k \in KeysOf(n.right) : k > n.key
        /\ Sorted(n.right)
    BY <1>1, <2>1, NodeHolds
  <2>4. /\ \A k \in KeysOf(b.left) : k < b.key
        /\ \A k \in KeysOf(b.right) : k > b.key
        /\ Sorted(b.left)
    BY <1>2, <2>1, NodeHolds
  <2>5. /\ \A k \in KeysOf(c.left) : k < c.key
        /\ \A k \in KeysOf(c.right) : k > c.key
        /\ Sorted(c.left) /\ Sorted(c.right)
    BY <1>4, <2>1, NodeHolds
  <2>6. /\ \A k \in KeysOf(a.left) : k < a.key
        /\ \A k \in KeysOf(a.right) : k > a.key
    BY <1>8, <1>12, <2>3
  <2>7. /\ \A k \in KeysOf(d.left) : k < d.key
        /\ \A k \in KeysOf(d.right) : k > d.key
    BY <1>9, <1>12, <2>4
  <2>8. Sorted(a) /\ Sorted(d)
    BY <1>8, <1>9, <2>3, <2>4, <2>5, <2>6, <2>7, NodeHolds
  <2>9. c.key \in KeysOf(b.right) /\ b.key \in KeysOf(n.left) /\ c.key \in KeysOf(n.left)
    BY <1>12
  <2>10. n.key > c.key /\ c.key > b.key
    BY <2>3, <2>4, <2>9, <1>1, <1>3, <1>5
  <2>11. \A k \in KeysOf(a) : k > c.key
    BY <1>1, <1>5, <1>12, <2>2, <2>3, <2>5, <2>10
  <2>12. \A k \in KeysOf(d) : k < c.key
    BY <1>1, <1>3, <1>5, <1>12, <2>2, <2>4, <2>5, <2>10
  <2>13. /\ \A k \in KeysOf(m.left) : k < m.key
         /\ \A k \in KeysOf(m.right) : k > m.key
    BY <1>11, <2>11, <2>12
  <2>14. Sorted(m.left) /\ Sorted(m.right)
    BY <1>11, <2>8
  <2> QED
    BY <1>11, <2>13, <2>14, NodeHolds
<1>16. Even(m)
  <2>1. Even(n.right) /\ Even(b.left) /\ Even(c.left) /\ Even(c.right)
    BY <1>2, <1>4, NodeHolds DEF Leans
  <2>2. H(a.right) - H(a.left) \in {-1, 0, 1} /\ H(d.right) - H(d.left) \in {-1, 0, 1}
    BY <1>7, <1>8, <1>9
  <2>3. Even(a) /\ Even(d)
    BY <1>8, <1>9, <2>1, <2>2, NodeHolds
  <2>4. H(m.right) - H(m.left) \in {-1, 0, 1}
    BY <1>7, <1>10, <1>11
  <2>5. Even(m.left) /\ Even(m.right)
    BY <1>11, <2>3
  <2> QED
    BY <1>11, <2>4, <2>5, NodeHolds
<1>17. H(m) = H(n) - 1
  BY <1>7, <1>10, <1>11
<1> QED
  BY <1>6, <1>11, <1>13, <1>14, <1>15, <1>16, <1>17 DEF Kept

\* A node whose subtrees are balanced, and differ by two levels at most.
LEMMA RotatedKeeps ==
  ASSUME NEW n, IsNode(n), Sorted(n), Even(n.left), Even(n.right),
         Height(n.right) - Height(n.left) \in -2..2
  PROVE  /\ Kept(n, Rotated(n))
         /\ Height(n.right) - Height(n.left) \in {-1, 0, 1} => Rotated(n) = n
<1> DEFINE bf(t) == Height(t.right) - Height(t.left)
<1>1. /\ \A t : avlnode_balance_factor(t) = bf(t)
      /\ Height(n.left) \in Nat /\ Height(n.right) \in Nat
  BY HeightOfNode DEF avlnode_balance_factor, Height
<1>2. CASE bf(n) \in {-1, 0, 1}
  <2>1. Rotated(n) = n
    BY <1>1, <1>2 DEF Rotated
  <2>2. Even(n)
    BY <1>2, NodeHolds
  <2> QED
    BY <2>1, <2>2 DEF Kept
<1>3. CASE bf(n) = 2
  <2>1. Leans(n, n.left, n.right)
    BY <1>3 DEF Leans
  <2>2. IsNode(n.right)
    BY <1>1, <1>3, NodePartsTree, HeightOfNode DEF IsNode
  <2>3. Height(n.right.left) \in Nat /\ Height(n.right.right) \in Nat
    BY <2>2, HeightOfNode
  <2>4. CASE bf(n.right) < 0
    <3>1. Rotated(n) = avlnode_rotate_rl(n)
      BY <1>1, <1>3, <2>4 DEF Rotated
    <3>2. Height(n.right.right) < Height(n.right.left)
      BY <2>3, <2>4
    <3> QED
      BY <1>3, <2>1, <3>1, <3>2, DoubleOnRight
  <2>5. CASE ~(bf(n.right) < 0)
    <3>1. Rotated(n) = avlnode_rotate_rr(n)
      BY <1>1, <1>3, <2>5 DEF Rotated
    <3>2. Height(n.right.right) >= Height(n.right.left)
      BY <2>3, <2>5
    <3> QED
      BY <1>3, <2>1, <3>1, <3>2, SingleOnRight
  <2> QED
    BY <2>4, <2>5
<1>4. CASE bf(n) = -2
  <2>1. Leans(n, n.right, n.left)
    BY <1>1, <1>4 DEF Leans
  <2>2. IsNode(n.left)
    BY <1>1, <1>4, NodePartsTree, HeightOfNode DEF IsNode
  <2>3. Height(n.left.left) \in Nat /\ Height(n.left.right) \in Nat
    BY <2>2, HeightOfNode
  <2>4. CASE bf(n.left) > 0
    <3>1. Rotated(n) = avlnode_rotate_lr(n)
      BY <1>1, <1>4, <2>4 DEF Rotated
    <3>2. Height(n.left.left) < Height(n.left.right)
      BY <2>3, <2>4
    <3> QED
      BY <1>4, <2>1, <3>1, <3>2, DoubleOnLeft
  <2>5. CASE ~(bf(n.left) > 0)
    <3>1. Rotated(n) = avlnode_rotate_ll(n)
      BY <1>1, <1>4, <2>5 DEF Rotated
    <3>2. Height(n.left.left) >= Height(n.left.right)
      BY <2>3, <2>5
    <3> QED
      BY <1>4, <2>1, <3>1, <3>2, SingleOnLeft
  <2> QED
    BY <2>4, <2>5
<1>5. bf(n) \in -2..2 => bf(n) \in {-1, 0, 1} \/ bf(n) = 2 \/ bf(n) = -2
  BY <1>1
<1> QED
  BY <1>2, <1>3, <1>4, <1>5

\* A balanced tree stays as it is.
LEMMA BalanceIdle == \A t \in Tree : Sorted(t) /\ Even(t) => avlnode_balance(t) = t
<1> DEFINE S == {t \in Tree : Sorted(t) /\ Even(t) => avlnode_balance(t) = t}
<1>1. Nil \in S
  BY NilIsTree, BalanceOf
<1>2. ASSUME NEW n, IsNode(n), n.left \in S, n.right \in S PROVE n \in S
  <2> SUFFICES ASSUME Sorted(n), Even(n) PROVE avlnode_balance(n) = n
    BY <1>2 DEF IsNode
  <2>1. /\ Sorted(n.left) /\ Sorted(n.right) /\ Even(n.left) /\ Even(n.right)
        /\ Height(n.right) - Height(n.left) \in {-1, 0, 1}
    BY <1>2, NodeHolds
  <2>2. avlnode_balance(n.left) = n.left /\ avlnode_balance(n.right) = n.right
    BY <1>2, <2>1
  <2>3. avlnode_balance(n) = Rotated(Node(n.key, n.val, n.left, n.right))
    BY <1>2, <2>2, BalanceOf
  <2>4. avlnode_balance(n) = Rotated(n)
    BY <1>2, <2>3, NodePartsTree
  <2>5. Height(n.right) - Height(n.left) \in -2..2
    BY <2>1
  <2> QED
    BY <1>2, <2>1, <2>4, <2>5, RotatedKeeps
<1> HIDE DEF S
<1>3. \A t \in Tree : t \in S
  BY <1>1, <1>2, TreeInduction
<1> QED
  BY <1>3 DEF S

\* Over balanced subtrees only the node at the top can be rotated.
LEMMA BalanceTop ==
  ASSUME NEW n, IsNode(n), Sorted(n), Even(n.left), Even(n.right)
  PROVE  avlnode_balance(n) = Rotated(n)
<1>1. Sorted(n.left) /\ Sorted(n.right) /\ n.left \in Tree /\ n.right \in Tree
  BY NodeHolds, NodePartsTree
<1>2. avlnode_balance(n.left) = n.left /\ avlnode_balance(n.right) = n.right
  BY <1>1, BalanceIdle
<1>3. avlnode_balance(n) = Rotated(Node(n.key, n.val, n.left, n.right))
  BY <1>2, BalanceOf
<1> QED
  BY <1>3, NodePartsTree

\* What becomes of a key and a client over two balanced trees.
Joined(k, v, l, r, w) ==
  /\ w \in Tree /\ Sorted(w) /\ Even(w)
  /\ KeysOf(w) = {k} \cup KeysOf(l) \cup KeysOf(r)
  /\ Entries(w) = {Entry(k, v)} \cup Entries(l) \cup Entries(r)
  /\ LET h == IF Height(r) > Height(l) THEN Height(r) ELSE Height(l)
     IN  /\ Height(w) = h + 1 \/ Height(w) = h
         /\ Height(r) - Height(l) \in {-1, 0, 1} => Height(w) = h + 1

LEMMA BalanceJoins ==
  ASSUME NEW k \in Key, NEW v \in Value, NEW l \in Tree, NEW r \in Tree,
         Sorted(l), Sorted(r), Even(l), Even(r),
         \A j \in KeysOf(l) : j < k, \A j \in KeysOf(r) : j > k,
         Height(l) < Depth, Height(r) < Depth, Height(r) - Height(l) \in -2..2
  PROVE  /\ avlnode_balance(Node(k, v, l, r)) = Rotated(Node(k, v, l, r))
         /\ Joined(k, v, l, r, avlnode_balance(Node(k, v, l, r)))
<1> DEFINE n == Node(k, v, l, r)
           m == Rotated(n)
           h == IF Height(r) > Height(l) THEN Height(r) ELSE Height(l)
<1>1. /\ IsNode(n) /\ n.key = k /\ n.val = v /\ n.left = l /\ n.right = r
      /\ Height(n) = 1 + h /\ Height(l) \in Nat /\ Height(r) \in Nat
  BY NodeIsTree, HeightOfNode
<1> HIDE DEF n
<1>2. /\ KeysOf(n) = {k} \cup KeysOf(l) \cup KeysOf(r)
      /\ Entries(n) = {Entry(k, v)} \cup Entries(l) \cup Entries(r)
  <2>1. /\ KeysOf(n) = {n.key} \cup KeysOf(n.left) \cup KeysOf(n.right)
        /\ Entries(n) = {Entry(n.key, n.val)} \cup Entries(n.left) \cup Entries(n.right)
    BY <1>1, NodeHolds
  <2> QED
    BY <1>1, <2>1
<1>3. Sorted(n) /\ Even(n.left) /\ Even(n.right)
  <2>1. /\ \A j \in KeysOf(n.left) : j < n.key
        /\ \A j \in KeysOf(n.right) : j > n.key
        /\ Sorted(n.left) /\ Sorted(n.right) /\ Even(n.left) /\ Even(n.right)
    BY <1>1
  <2> QED
    BY <1>1, <2>1, NodeHolds
<1>4. Height(n.right) - Height(n.left) \in -2..2
  BY <1>1
<1>5. avlnode_balance(n) = m
  BY <1>1, <1>3, BalanceTop
<1>6. /\ Kept(n, m)
      /\ Height(n.right) - Height(n.left) \in {-1, 0, 1} => m = n
  BY <1>1, <1>3, <1>4, RotatedKeeps
<1> HIDE DEF m
<1>7. /\ Height(m) = h + 1 \/ Height(m) = h
      /\ Height(r) - Height(l) \in {-1, 0, 1} => Height(m) = h + 1
  BY <1>1, <1>6 DEF Kept
<1>8. Joined(k, v, l, r, m)
  BY <1>2, <1>6, <1>7 DEF Joined, Kept, IsNode
<1> QED
  BY <1>5, <1>8 DEF n, m

-----------------------------------------------------------------------------
(* Insertion *)

\* w holds what t holds, and the client v of k besides.
Added(t, k, v, w) ==
  /\ w \in Tree /\ Sorted(w) /\ Even(w)
  /\ KeysOf(w) = KeysOf(t) \cup {k} /\ Entries(w) = Entries(t) \cup {Entry(k, v)}
  /\ Height(w) = Height(t) \/ Height(w) = Height(t) + 1

LEMMA InsertAdds ==
  ASSUME NEW k \in Key, NEW v \in Value
  PROVE  \A t \in Tree : Sorted(t) /\ Even(t) /\ k \notin KeysOf(t) /\ Height(t) < Depth =>
           /\ Hung(t, k, v) \in Tree
           /\ Height(Hung(t, k, v)) = Height(t) \/ Height(Hung(t, k, v)) = Height(t) + 1
           /\ Added(t, k, v, avlnode_balance(Hung(t, k, v)))
<1> DEFINE H(t) == Height(t)
           B(t) == avlnode_balance(t)
           W(t) == Hung(t, k, v)
           Good(t) == Sorted(t) /\ Even(t) /\ k \notin KeysOf(t) /\ H(t) < Depth
           Done(t) == /\ W(t) \in Tree
                      /\ H(W(t)) = H(t) \/ H(W(t)) = H(t) + 1
                      /\ Added(t, k, v, B(W(t)))
           S == {t \in Tree : Good(t) => Done(t)}
<1>0. Depth \in Nat
  BY DepthIsNat DEF Depth
<1>1. Nil \in S
  <2> SUFFICES ASSUME Good(Nil) PROVE Done(Nil)
    BY NilIsTree
  <2> DEFINE m == Node(k, v, Nil, Nil)
  <2>1. W(Nil) = m
    BY HungOf
  <2>2. H(Nil) = 0
    BY HeightOfNode
  <2>3. /\ IsNode(m) /\ m.key = k /\ m.val = v /\ m.left = Nil /\ m.right = Nil /\ H(m) = 1
    BY <2>2, NilIsTree, NodeIsTree
  <2> HIDE DEF m
  <2>4. KeysOf(m) = {k} /\ Entries(m) = {Entry(k, v)} /\ Sorted(m) /\ Even(m)
    BY <2>2, <2>3, NodeHolds, NilHolds
  <2>5. B(m) = m
    BY <2>3, <2>4, BalanceIdle DEF IsNode
  <2> QED
    BY <2>1, <2>2, <2>3, <2>4, <2>5, NilHolds DEF Added, IsNode
<1>2. ASSUME NEW n, IsNode(n), n.left \in S, n.right \in S PROVE n \in S
  <2> SUFFICES ASSUME Good(n) PROVE Done(n)
    BY <1>2 DEF IsNode
  <2>1. /\ n = Node(n.key, n.val, n.left, n.right)
        /\ n.key \in Key /\ n.key \in Int /\ n.val \in Value /\ n.left \in Tree /\ n.right \in Tree /\ k \in Int
    BY <1>2, NodePartsTree, KeyAssumption
  <2>2. /\ KeysOf(n) = {n.key} \cup KeysOf(n.left) \cup KeysOf(n.right)
        /\ Entries(n) = {Entry(n.key, n.val)} \cup Entries(n.left) \cup Entries(n.right)
        /\ Sorted(n.left) /\ Sorted(n.right)
        /\ \A j \in KeysOf(n.left) : j < n.key
        /\ \A j \in KeysOf(n.right) : j > n.key
        /\ Even(n.left) /\ Even(n.right)
        /\ H(n.right) - H(n.left) \in {-1, 0, 1}
    BY <1>2, NodeHolds
  <2>3. /\ H(n) = 1 + (IF H(n.right) > H(n.left) THEN H(n.right) ELSE H(n.left))
        /\ H(n.left) \in Nat /\ H(n.right) \in Nat
        /\ H(n.left) < H(n) /\ H(n.right) < H(n) /\ H(n) \in Nat
    BY <1>2, HeightOfNode DEF IsNode
  <2>4. Good(n.left) /\ Good(n.right)
    BY <1>0, <2>2, <2>3
  <2>5. Done(n.left) /\ Done(n.right)
    BY <1>2, <2>4
  <2>6. CASE k < n.key
    <3> DEFINE x == W(n.left)
               y == B(x)
               u == Node(n.key, n.val, x, n.right)
               w == Node(n.key, n.val, y, n.right)
    <3>1. W(n) = u
      <4>1. k < n.key
        BY <2>1, <2>6
      <4> QED
        BY <1>2, <4>1, HungOf
    <3>2. x \in Tree /\ H(x) \in Nat /\ (H(x) = H(n.left) \/ H(x) = H(n.left) + 1)
      BY <2>5, HeightOfNode
    <3>3. /\ y \in Tree /\ H(y) \in Nat /\ (H(y) = H(n.left) \/ H(y) = H(n.left) + 1)
          /\ Sorted(y) /\ Even(y)
          /\ KeysOf(y) = KeysOf(n.left) \cup {k} /\ Entries(y) = Entries(n.left) \cup {Entry(k, v)}
      BY <2>5, HeightOfNode DEF Added
    <3> HIDE DEF B, W, x, y
    <3>4. /\ IsNode(u) /\ u.key = n.key /\ u.val = n.val /\ u.left = x /\ u.right = n.right
          /\ H(u) = H(n) \/ H(u) = H(n) + 1
      <4>1. H(x) < Depth /\ H(n.right) < Depth
        BY <1>0, <2>3, <3>2
      <4>2. /\ IsNode(u) /\ u.key = n.key /\ u.val = n.val /\ u.left = x /\ u.right = n.right
            /\ H(u) = 1 + (IF H(n.right) > H(x) THEN H(n.right) ELSE H(x))
        BY <2>1, <3>2, <4>1, NodeIsTree
      <4> QED
        BY <2>3, <3>2, <4>2
    <3>5. B(w) = Rotated(w) /\ Joined(n.key, n.val, y, n.right, B(w))
      <4>1. \A j \in KeysOf(y) : j < n.key
        BY <2>2, <2>6, <3>3
      <4>2. H(y) < Depth /\ H(n.right) < Depth
        BY <1>0, <2>3, <3>3
      <4>3. H(n.right) - H(y) \in -2..2
        BY <2>2, <2>3, <3>3
      <4> QED
        BY <2>1, <2>2, <3>3, <4>1, <4>2, <4>3, BalanceJoins DEF B
    <3>6. B(u) = B(w)
      <4>1. B(n.right) = n.right /\ B(u.left) = y
        BY <2>1, <2>2, <3>4, BalanceIdle DEF B, y
      <4> HIDE DEF u
      <4>2. B(u) = Rotated(Node(n.key, n.val, B(u.left), B(u.right)))
        BY <3>4, BalanceOf DEF B
      <4> QED
        BY <3>4, <3>5, <4>1, <4>2
    <3> HIDE DEF w
    <3>7. H(B(w)) = H(n) \/ H(B(w)) = H(n) + 1
      <4>1. CASE H(y) = H(n.left)
        BY <2>2, <2>3, <3>3, <3>5, <4>1 DEF Joined
      <4>2. CASE H(y) = H(n.left) + 1
        BY <2>2, <2>3, <3>3, <3>5, <4>2 DEF Joined
      <4> QED
        BY <3>3, <4>1, <4>2
    <3>8. Added(n, k, v, B(w))
      <4>1. /\ KeysOf(B(w)) = {n.key} \cup KeysOf(y) \cup KeysOf(n.right)
            /\ Entries(B(w)) = {Entry(n.key, n.val)} \cup Entries(y) \cup Entries(n.right)
            /\ B(w) \in Tree /\ Sorted(B(w)) /\ Even(B(w))
        BY <3>5 DEF Joined
      <4>2. KeysOf(B(w)) = KeysOf(n) \cup {k} /\ Entries(B(w)) = Entries(n) \cup {Entry(k, v)}
        BY <2>2, <3>3, <4>1
      <4> QED
        BY <3>7, <4>1, <4>2 DEF Added
    <3> QED
      BY <3>1, <3>4, <3>6, <3>8 DEF IsNode
  <2>7. CASE k > n.key
    <3> DEFINE x == W(n.right)
               y == B(x)
               u == Node(n.key, n.val, n.left, x)
               w == Node(n.key, n.val, n.left, y)
    <3>1. W(n) = u
      <4>1. ~(k < n.key)
        BY <2>1, <2>7
      <4> QED
        BY <1>2, <4>1, HungOf
    <3>2. x \in Tree /\ H(x) \in Nat /\ (H(x) = H(n.right) \/ H(x) = H(n.right) + 1)
      BY <2>5, HeightOfNode
    <3>3. /\ y \in Tree /\ H(y) \in Nat /\ (H(y) = H(n.right) \/ H(y) = H(n.right) + 1)
          /\ Sorted(y) /\ Even(y)
          /\ KeysOf(y) = KeysOf(n.right) \cup {k} /\ Entries(y) = Entries(n.right) \cup {Entry(k, v)}
      BY <2>5, HeightOfNode DEF Added
    <3> HIDE DEF B, W, x, y
    <3>4. /\ IsNode(u) /\ u.key = n.key /\ u.val = n.val /\ u.right = x /\ u.left = n.left
          /\ H(u) = H(n) \/ H(u) = H(n) + 1
      <4>1. H(x) < Depth /\ H(n.left) < Depth
        BY <1>0, <2>3, <3>2
      <4>2. /\ IsNode(u) /\ u.key = n.key /\ u.val = n.val /\ u.right = x /\ u.left = n.left
            /\ H(u) = 1 + (IF H(x) > H(n.left) THEN H(x) ELSE H(n.left))
        BY <2>1, <3>2, <4>1, NodeIsTree
      <4> QED
        BY <2>3, <3>2, <4>2
    <3>5. B(w) = Rotated(w) /\ Joined(n.key, n.val, n.left, y, B(w))
      <4>1. \A j \in KeysOf(y) : j > n.key
        BY <2>2, <2>7, <3>3
      <4>2. H(y) < Depth /\ H(n.left) < Depth
        BY <1>0, <2>3, <3>3
      <4>3. H(y) - H(n.left) \in -2..2
        BY <2>2, <2>3, <3>3
      <4> QED
        BY <2>1, <2>2, <3>3, <4>1, <4>2, <4>3, BalanceJoins DEF B
    <3>6. B(u) = B(w)
      <4>1. B(n.left) = n.left /\ B(u.right) = y
        BY <2>1, <2>2, <3>4, BalanceIdle DEF B, y
      <4> HIDE DEF u
      <4>2. B(u) = Rotated(Node(n.key, n.val, B(u.left), B(u.right)))
        BY <3>4, BalanceOf DEF B
      <4> QED
        BY <3>4, <3>5, <4>1, <4>2
    <3> HIDE DEF w
    <3>7. H(B(w)) = H(n) \/ H(B(w)) = H(n) + 1
      <4>1. CASE H(y) = H(n.right)
        BY <2>2, <2>3, <3>3, <3>5, <4>1 DEF Joined
      <4>2. CASE H(y) = H(n.right) + 1
        BY <2>2, <2>3, <3>3, <3>5, <4>2 DEF Joined
      <4> QED
        BY <3>3, <4>1, <4>2
    <3>8. Added(n, k, v, B(w))
      <4>1. /\ KeysOf(B(w)) = {n.key} \cup KeysOf(y) \cup KeysOf(n.left)
            /\ Entries(B(w)) = {Entry(n.key, n.val)} \cup Entries(y) \cup Entries(n.left)
            /\ B(w) \in Tree /\ Sorted(B(w)) /\ Even(B(w))
        BY <3>5 DEF Joined
      <4>2. KeysOf(B(w)) = KeysOf(n) \cup {k} /\ Entries(B(w)) = Entries(n) \cup {Entry(k, v)}
        BY <2>2, <3>3, <4>1
      <4> QED
        BY <3>7, <4>1, <4>2 DEF Added
    <3> QED
      BY <3>1, <3>4, <3>6, <3>8 DEF IsNode
  <2>8. k # n.key
    BY <2>2
  <2> QED
    BY <2>1, <2>6, <2>7, <2>8
<1> HIDE DEF S
<1>3. \A t \in Tree : t \in S
  BY <1>1, <1>2, TreeInduction
<1> QED
  BY <1>3 DEF S

-----------------------------------------------------------------------------
(* Removal *)

KeyOf(e) == e[1]

LEMMA EntriesOfKeys ==
  /\ \A k, v : KeyOf(Entry(k, v)) = k
  /\ \A t \in Tree : \A e \in Entries(t) : KeyOf(e) \in KeysOf(t)
  /\ \A t \in Tree : Sorted(t) => \A e, f \in Entries(t) : KeyOf(e) = KeyOf(f) => e = f
<1>1. \A k, v : KeyOf(Entry(k, v)) = k
  BY DEF KeyOf, Entry
<1>2. ASSUME NEW t \in Tree, NEW e \in Entries(t)
      PROVE  KeyOf(e) \in KeysOf(t) /\ \E v : e = Entry(KeyOf(e), v)
  BY <1>1 DEF Entries, KeysOf
<1>3. ASSUME NEW t \in Tree, Sorted(t), NEW e \in Entries(t), NEW f \in Entries(t), KeyOf(e) = KeyOf(f)
      PROVE  e = f
  <2>1. PICK v : e = Entry(KeyOf(e), v)
    BY <1>2
  <2>2. PICK w : f = Entry(KeyOf(e), w)
    BY <1>2, <1>3
  <2>3. KeyOf(e) \in Key
    BY <1>2, KeysAreKeys
  <2>4. Lookup(t, KeyOf(e)) = v /\ Lookup(t, KeyOf(e)) = w
    BY <1>3, <2>1, <2>2, <2>3, SearchFinds
  <2> QED
    BY <2>1, <2>2, <2>4
<1> QED
  BY <1>1, <1>2, <1>3

\* The rightmost node has the largest key.
LEMMA RightmostIsLargest ==
  \A t \in Tree : t # Nil /\ Sorted(t) =>
    /\ Rightmost(t).key \in KeysOf(t) /\ Rightmost(t).val \in Value
    /\ Entry(Rightmost(t).key, Rightmost(t).val) \in Entries(t)
    /\ \A j \in KeysOf(t) : j <= Rightmost(t).key
<1> DEFINE L(t) == /\ Rightmost(t).key \in KeysOf(t) /\ Rightmost(t).val \in Value
                   /\ Entry(Rightmost(t).key, Rightmost(t).val) \in Entries(t)
                   /\ \A j \in KeysOf(t) : j <= Rightmost(t).key
           S == {t \in Tree : t # Nil /\ Sorted(t) => L(t)}
<1>1. Nil \in S
  BY NilIsTree
<1>2. ASSUME NEW n, IsNode(n), n.left \in S, n.right \in S PROVE n \in S
  <2> SUFFICES ASSUME Sorted(n) PROVE L(n)
    BY <1>2 DEF IsNode
  <2>1. /\ KeysOf(n) = {n.key} \cup KeysOf(n.left) \cup KeysOf(n.right)
        /\ Entries(n) = {Entry(n.key, n.val)} \cup Entries(n.left) \cup Entries(n.right)
        /\ Sorted(n.right)
        /\ \A j \in KeysOf(n.left) : j < n.key
        /\ \A j \in KeysOf(n.right) : j > n.key
    BY <1>2, NodeHolds
  <2>2. n.key \in Int /\ n.val \in Value /\ KeysOf(n.left) \subseteq Int /\ KeysOf(n.right) \subseteq Int
    BY <1>2, NodePartsTree, KeysAreKeys, KeyAssumption
  <2>3. CASE n.right = Nil
    <3>1. Rightmost(n) = n
      BY <1>2, <2>3, RightmostOf
    <3>2. KeysOf(n.right) = {}
      BY <2>3, NilHolds
    <3>3. \A j \in KeysOf(n) : j <= n.key
      BY <2>1, <2>2, <3>2
    <3> QED
      BY <2>1, <2>2, <3>1, <3>3
  <2>4. CASE n.right # Nil
    <3>1. Rightmost(n) = Rightmost(n.right)
      BY <1>2, <2>4, RightmostOf
    <3>2. L(n.right)
      BY <1>2, <2>1, <2>4
    <3>3. \A j \in KeysOf(n) : j <= Rightmost(n.right).key
      BY <2>1, <2>2, <3>2
    <3> QED
      BY <2>1, <3>1, <3>2, <3>3
  <2> QED
    BY <2>3, <2>4
<1> HIDE DEF S
<1>3. \A t \in Tree : t \in S
  BY <1>1, <1>2, TreeInduction
<1> QED
  BY <1>3 DEF S

\* w holds what t holds, but nothing for k.
Without(E, k) == {e \in E : KeyOf(e) # k}

Removed(t, k, w) ==
  /\ w \in Tree /\ Sorted(w) /\ Even(w)
  /\ KeysOf(w) = KeysOf(t) \ {k} /\ Entries(w) = Without(Entries(t), k)
  /\ Height(w) = Height(t) \/ Height(w) = Height(t) - 1

\* A subtree that has lost a level at most is joined with the other one again.
LEMMA ShrunkHeight ==
  ASSUME NEW n, IsNode(n), Even(n), NEW k, NEW v, NEW l \in Tree, NEW r \in Tree, NEW w,
         Joined(k, v, l, r, w),
         \/ r = n.right /\ (Height(l) = Height(n.left) \/ Height(l) = Height(n.left) - 1)
         \/ l = n.left /\ (Height(r) = Height(n.right) \/ Height(r) = Height(n.right) - 1)
  PROVE  Height(w) = Height(n) \/ Height(w) = Height(n) - 1
<1> DEFINE H(t) == Height(t)
<1>1. /\ H(n) = 1 + (IF H(n.right) > H(n.left) THEN H(n.right) ELSE H(n.left))
      /\ H(n.left) \in Nat /\ H(n.right) \in Nat /\ H(l) \in Nat /\ H(r) \in Nat
      /\ H(n.right) - H(n.left) \in {-1, 0, 1}
  BY HeightOfNode, NodeHolds
<1> DEFINE h == IF H(r) > H(l) THEN H(r) ELSE H(l)
<1>2. /\ H(w) = h + 1 \/ H(w) = h
      /\ H(r) - H(l) \in {-1, 0, 1} => H(w) = h + 1
  BY DEF Joined
<1> SUFFICES H(w) = H(n) \/ H(w) = H(n) - 1
  OBVIOUS
<1>3. \/ H(r) = H(n.right) /\ (H(l) = H(n.left) \/ H(l) = H(n.left) - 1)
      \/ H(l) = H(n.left) /\ (H(r) = H(n.right) \/ H(r) = H(n.right) - 1)
  OBVIOUS
<1> HIDE DEF H
<1> QED
  BY <1>1, <1>2, <1>3

LEMMA RemoveRemoves ==
  \A t \in Tree : Sorted(t) /\ Even(t) => \A k \in Key : Removed(t, k, avlnode_remove(t, k))
<1> DEFINE H(t) == Height(t)
           R(t, k) == avlnode_remove(t, k)
           S == {t \in Tree : Sorted(t) /\ Even(t) => \A k \in Key : Removed(t, k, R(t, k))}
<1>0. Depth \in Nat
  BY DepthIsNat DEF Depth
<1>1. Nil \in S
  <2>1. \A k \in Key : R(Nil, k) = Nil
    BY RemoveOf
  <2> QED
    BY <2>1, NilIsTree, NilHolds DEF Removed, Without
<1>2. ASSUME NEW n, IsNode(n), n.left \in S, n.right \in S PROVE n \in S
  <2> SUFFICES ASSUME Sorted(n), Even(n), NEW k \in Key PROVE Removed(n, k, R(n, k))
    BY <1>2 DEF IsNode
  <2>1. /\ n.key \in Key /\ n.key \in Int /\ n.val \in Value /\ n.left \in Tree /\ n.right \in Tree /\ k \in Int
        /\ KeysOf(n.left) \subseteq Key /\ KeysOf(n.right) \subseteq Key
        /\ KeysOf(n.left) \subseteq Int /\ KeysOf(n.right) \subseteq Int
    BY <1>2, NodePartsTree, KeysAreKeys, KeyAssumption
  <2>2. /\ KeysOf(n) = {n.key} \cup KeysOf(n.left) \cup KeysOf(n.right)
        /\ Entries(n) = {Entry(n.key, n.val)} \cup Entries(n.left) \cup Entries(n.right)
        /\ Sorted(n.left) /\ Sorted(n.right)
        /\ \A j \in KeysOf(n.left) : j < n.key
        /\ \A j \in KeysOf(n.right) : j > n.key
        /\ Even(n.left) /\ Even(n.right)
        /\ H(n.right) - H(n.left) \in {-1, 0, 1}
    BY <1>2, NodeHolds
  <2>3. /\ H(n) = 1 + (IF H(n.right) > H(n.left) THEN H(n.right) ELSE H(n.left))
        /\ H(n.left) \in Nat /\ H(n.right) \in Nat
        /\ H(n.left) < Depth /\ H(n.right) < Depth
    BY <1>2, HeightOfNode
  <2>4. /\ \A j \in Key : Removed(n.left, j, R(n.left, j))
        /\ \A j \in Key : Removed(n.right, j, R(n.right, j))
    BY <1>2, <2>2
  <2>5. /\ \A e \in Entries(n.left) : KeyOf(e) \in KeysOf(n.left)
        /\ \A e \in Entries(n.right) : KeyOf(e) \in KeysOf(n.right)
        /\ KeyOf(Entry(n.key, n.val)) = n.key
    BY <2>1, EntriesOfKeys
  <2>6. CASE k < n.key
    <3> DEFINE x == R(n.left, k)
               w == avlnode_balance(Node(n.key, n.val, x, n.right))
    <3>1. R(n, k) = w
      BY <1>2, <2>6, RemoveOf
    <3>2. /\ x \in Tree /\ Sorted(x) /\ Even(x) /\ H(x) \in Nat
          /\ KeysOf(x) = KeysOf(n.left) \ {k} /\ Entries(x) = Without(Entries(n.left), k)
          /\ H(x) = H(n.left) \/ H(x) = H(n.left) - 1
      BY <2>4, HeightOfNode DEF Removed
    <3> HIDE DEF R, x
    <3>3. Joined(n.key, n.val, x, n.right, w)
      <4>1. H(x) < Depth
        BY <1>0, <2>3, <3>2
      <4>2. H(n.right) - H(x) \in -2..2
        BY <2>2, <2>3, <3>2
      <4>3. \A j \in KeysOf(x) : j < n.key
        BY <2>2, <3>2
      <4> QED
        BY <2>1, <2>2, <2>3, <3>2, <4>1, <4>2, <4>3, BalanceJoins
    <3> HIDE DEF w
    <3>4. H(w) = H(n) \/ H(w) = H(n) - 1
      BY <1>2, <2>1, <3>2, <3>3, ShrunkHeight
    <3>5. /\ w \in Tree /\ Sorted(w) /\ Even(w)
          /\ KeysOf(w) = {n.key} \cup KeysOf(n.right) \cup KeysOf(x)
          /\ Entries(w) = {Entry(n.key, n.val)} \cup Entries(n.right) \cup Entries(x)
      BY <3>3 DEF Joined
    <3>6. k # n.key /\ k \notin KeysOf(n.right)
      BY <2>1, <2>2, <2>6
    <3>7. KeysOf(w) = KeysOf(n) \ {k}
      BY <2>2, <3>2, <3>5, <3>6
    <3>8. Entries(w) = Without(Entries(n), k)
      BY <2>2, <2>5, <3>2, <3>5, <3>6 DEF Without
    <3> QED
      BY <3>1, <3>4, <3>5, <3>7, <3>8 DEF Removed
  <2>7. CASE k > n.key
    <3> DEFINE x == R(n.right, k)
               w == avlnode_balance(Node(n.key, n.val, n.left, x))
    <3>1. R(n, k) = w
      BY <1>2, <2>7, RemoveOf
    <3>2. /\ x \in Tree /\ Sorted(x) /\ Even(x) /\ H(x) \in Nat
          /\ KeysOf(x) = KeysOf(n.right) \ {k} /\ Entries(x) = Without(Entries(n.right), k)
          /\ H(x) = H(n.right) \/ H(x) = H(n.right) - 1
      BY <2>4, HeightOfNode DEF Removed
    <3> HIDE DEF R, x
    <3>3. Joined(n.key, n.val, n.left, x, w)
      <4>1. H(x) < Depth
        BY <1>0, <2>3, <3>2
      <4>2. H(x) - H(n.left) \in -2..2
        BY <2>2, <2>3, <3>2
      <4>3. \A j \in KeysOf(x) : j > n.key
        BY <2>2, <3>2
      <4> QED
        BY <2>1, <2>2, <2>3, <3>2, <4>1, <4>2, <4>3, BalanceJoins
    <3> HIDE DEF w
    <3>4. H(w) = H(n) \/ H(w) = H(n) - 1
      BY <1>2, <2>1, <3>2, <3>3, ShrunkHeight
    <3>5. /\ w \in Tree /\ Sorted(w) /\ Even(w)
          /\ KeysOf(w) = {n.key} \cup KeysOf(n.left) \cup KeysOf(x)
          /\ Entries(w) = {Entry(n.key, n.val)} \cup Entries(n.left) \cup Entries(x)
      BY <3>3 DEF Joined
    <3>6. k # n.key /\ k \notin KeysOf(n.left)
      BY <2>1, <2>2, <2>7
    <3>7. KeysOf(w) = KeysOf(n) \ {k}
      BY <2>2, <3>2, <3>5, <3>6
    <3>8. Entries(w) = Without(Entries(n), k)
      BY <2>2, <2>5, <3>2, <3>5, <3>6 DEF Without
    <3> QED
      BY <3>1, <3>4, <3>5, <3>7, <3>8 DEF Removed
  <2>8. CASE k = n.key /\ n.left # Nil /\ n.right # Nil
    <3> DEFINE p == avlnode_ip(n)
               x == R(n.left, p.key)
               w == avlnode_balance(Node(p.key, p.val, x, n.right))
    <3>1. /\ p.key \in KeysOf(n.left) /\ p.val \in Value
          /\ Entry(p.key, p.val) \in Entries(n.left)
          /\ \A j \in KeysOf(n.left) : j <= p.key
      BY <2>1, <2>2, <2>8, RightmostIsLargest DEF avlnode_ip
    <3>2. p.key \in Key /\ p.key \in Int
      BY <2>1, <3>1
    <3>3. R(n, k) = w
      BY <1>2, <2>8, <3>2, RemoveOf
    <3>4. /\ x \in Tree /\ Sorted(x) /\ Even(x) /\ H(x) \in Nat
          /\ KeysOf(x) = KeysOf(n.left) \ {p.key} /\ Entries(x) = Without(Entries(n.left), p.key)
          /\ H(x) = H(n.left) \/ H(x) = H(n.left) - 1
      BY <2>4, <3>2, HeightOfNode DEF Removed
    <3> HIDE DEF R, p, x
    <3>5. Joined(p.key, p.val, x, n.right, w)
      <4>1. H(x) < Depth
        BY <1>0, <2>3, <3>4
      <4>2. H(n.right) - H(x) \in -2..2
        BY <2>2, <2>3, <3>4
      <4>3. \A j \in KeysOf(x) : j < p.key
        <5>1. ASSUME NEW j \in KeysOf(x) PROVE j < p.key
          <6>1. j \in KeysOf(n.left) /\ j # p.key /\ j \in Int
            BY <2>1, <3>4
          <6> QED
            BY <3>1, <3>2, <6>1
        <5> QED
          BY <5>1
      <4>4. \A j \in KeysOf(n.right) : j > p.key
        <5>1. p.key < n.key
          BY <2>2, <3>1
        <5> QED
          BY <2>1, <2>2, <3>2, <5>1
      <4> QED
        BY <2>1, <2>2, <2>3, <3>1, <3>2, <3>4, <4>1, <4>2, <4>3, <4>4, BalanceJoins
    <3> HIDE DEF w
    <3>6. H(w) = H(n) \/ H(w) = H(n) - 1
      BY <1>2, <2>1, <3>4, <3>5, ShrunkHeight
    <3>7. /\ w \in Tree /\ Sorted(w) /\ Even(w)
          /\ KeysOf(w) = {p.key} \cup KeysOf(x) \cup KeysOf(n.right)
          /\ Entries(w) = {Entry(p.key, p.val)} \cup Entries(x) \cup Entries(n.right)
      BY <3>5 DEF Joined
    <3>8. k \notin KeysOf(n.left) /\ k \notin KeysOf(n.right)
      BY <2>1, <2>2, <2>8
    <3>9. KeysOf(w) = KeysOf(n) \ {k}
      BY <2>2, <2>8, <3>1, <3>4, <3>7, <3>8
    <3>10. Entries(n.left) = {Entry(p.key, p.val)} \cup Entries(x)
      <4>1. ASSUME NEW e \in Entries(n.left), KeyOf(e) = p.key PROVE e = Entry(p.key, p.val)
        BY <2>1, <2>2, <3>1, <4>1, EntriesOfKeys
      <4> QED
        BY <3>1, <3>4, <4>1 DEF Without
    <3>11. Entries(w) = Without(Entries(n), k)
      BY <2>2, <2>5, <2>8, <3>7, <3>8, <3>10 DEF Without
    <3> QED
      BY <3>3, <3>6, <3>7, <3>9, <3>11 DEF Removed
  <2>9. CASE k = n.key /\ (n.left = Nil \/ n.right = Nil)
    <3> DEFINE w == IF n.left # Nil THEN n.left ELSE n.right
    <3>1. w \in Tree /\ Sorted(w) /\ Even(w)
      BY <2>1, <2>2
    <3>2. R(n, k) = w
      <4>1. R(n, k) = avlnode_balance(w)
        BY <1>2, <2>9, RemoveOf
      <4> HIDE DEF w
      <4> QED
        BY <3>1, <4>1, BalanceIdle
    <3>3. KeysOf(n) = {k} \cup KeysOf(w) /\ Entries(n) = {Entry(n.key, n.val)} \cup Entries(w)
      BY <2>2, <2>9, NilHolds
    <3>4. H(w) = H(n) - 1
      BY <2>3, <2>9, HeightOfNode
    <3>5. k \notin KeysOf(w)
      BY <2>1, <2>2, <2>9
    <3> HIDE DEF w
    <3>6. Entries(w) = Without(Entries(n), k)
      BY <2>5, <2>9, <3>1, <3>3, <3>5, EntriesOfKeys DEF Without
    <3> QED
      BY <3>1, <3>2, <3>3, <3>4, <3>5, <3>6 DEF Removed
  <2> QED
    BY <2>1, <2>6, <2>7, <2>8, <2>9
<1> HIDE DEF S
<1>3. \A t \in Tree : t \in S
  BY <1>1, <1>2, TreeInduction
<1> QED
  BY <1>3 DEF S

-----------------------------------------------------------------------------
(* The tree of server->clients *)

TreeInv == root \in Tree /\ Sorted(root) /\ Even(root)

LEMMA InsertKeeps ==
  ASSUME NEW k \in Key, NEW v \in Value, NEW t \in Tree, Sorted(t), Even(t), k \notin KeysOf(t)
  PROVE  avltree_insert(t, k, v) \in Tree /\ Added(t, k, v, avltree_insert(t, k, v))
<1>1. Height(t) <= Cardinality(KeysOf(t)) /\ Height(t) \in Nat
  BY HeightIsSmall, HeightOfNode
<1>2. Cardinality(KeysOf(t)) < Depth
  <2>1. KeysOf(t) \subseteq Key /\ KeysOf(t) # Key
    BY KeysAreKeys
  <2>2. Cardinality(KeysOf(t)) \in Nat /\ Depth \in Nat
    BY <2>1, KeyAssumption, FS_Subset, FS_CardinalityType DEF Depth
  <2>3. Cardinality(KeysOf(t)) <= Depth /\ Cardinality(KeysOf(t)) # Depth
    BY <2>1, KeyAssumption, FS_Subset DEF Depth
  <2> QED
    BY <2>2, <2>3
<1>3. Height(t) < Depth
  <2>1. Cardinality(KeysOf(t)) \in Nat /\ Depth \in Nat
    BY KeysAreKeys, KeyAssumption, FS_Subset, FS_CardinalityType DEF Depth
  <2> QED
    BY <1>1, <1>2, <2>1
<1>4. Added(t, k, v, avlnode_balance(Hung(t, k, v)))
  BY <1>3, InsertAdds
<1> QED
  BY <1>4 DEF avltree_insert, Added

LEMMA TreeInvHolds == Spec => []TreeInv
<1>1. Init => TreeInv
  BY NilIsTree, NilHolds DEF Init, TreeInv
<1>2. TreeInv /\ [Next]_vars => TreeInv'
  <2> SUFFICES ASSUME TreeInv, [Next]_vars PROVE TreeInv'
    OBVIOUS
  <2>1. CASE Destroy
    BY <2>1, NilIsTree, NilHolds DEF Destroy, TreeInv
  <2>2. ASSUME NEW k \in Key, Remove(k) PROVE TreeInv'
    <3>1. Removed(root, k, avlnode_remove(root, k))
      BY RemoveRemoves DEF TreeInv
    <3> QED
      BY <2>2, <3>1 DEF Remove, Removed, TreeInv
  <2>3. ASSUME NEW k \in Key, NEW v \in Value, Insert(k, v) PROVE TreeInv'
    <3>1. CASE k \in KeysOf(root)
      BY <2>3, <3>1 DEF Insert, avltree_insert, TreeInv
    <3>2. CASE k \notin KeysOf(root)
      BY <2>3, <3>2, InsertKeeps DEF Insert, Added, TreeInv
    <3> QED
      BY <3>1, <3>2
  <2>4. CASE UNCHANGED vars
    BY <2>4 DEF vars, TreeInv
  <2> QED
    BY <2>1, <2>2, <2>3, <2>4 DEF Next
<1> QED
  BY <1>1, <1>2, PTL DEF Spec

\* After every sequence of calls each key is in one place, the one in which
\* avlnode_search looks for it (util/avl.c).
THEOREM TreeOrdered == Spec => []Ordered
<1>1. TreeInv => Ordered
  BY DEF TreeInv, Sorted, Ordered
<1> QED
  BY <1>1, TreeInvHolds, PTL

\* After every sequence of calls the heights of the subtrees of every node differ
\* by one at most: avlnode_balance repairs what one insertion or removal can do,
\* however many nodes the removal has moved (util/avl.c).
THEOREM TreeBalanced == Spec => []Balanced
<1>1. TreeInv => Balanced
  BY DEF TreeInv, Even, Balanced
<1> QED
  BY <1>1, TreeInvHolds, PTL

-----------------------------------------------------------------------------
(* The tree as a map *)

LEMMA SameEntriesSameClient ==
  ASSUME NEW t \in Tree, NEW w \in Tree, Sorted(t), Sorted(w), NEW j \in Key,
         \A x : Entry(j, x) \in Entries(t) <=> Entry(j, x) \in Entries(w)
  PROVE  Lookup(t, j) = Lookup(w, j)
<1>1. CASE j \in KeysOf(t)
  <2>1. PICK x \in Value : Entry(j, x) \in Entries(t)
    BY <1>1, KeysAreKeys
  <2> QED
    BY <2>1, SearchFinds
<1>2. CASE j \notin KeysOf(t)
  <2>1. j \notin KeysOf(w)
    BY <1>2, KeysAreKeys
  <2> QED
    BY <1>2, <2>1, SearchFinds
<1> QED
  BY <1>1, <1>2

LEMMA LookupAfterInsert ==
  ASSUME NEW t \in Tree, Sorted(t), Even(t), NEW k \in Key, NEW v \in Value, NEW j \in Key
  PROVE  Lookup(avltree_insert(t, k, v), j) =
           IF j = k THEN (IF Lookup(t, k) = None THEN v ELSE Lookup(t, k)) ELSE Lookup(t, j)
<1> DEFINE w == avltree_insert(t, k, v)
<1>1. CASE k \in KeysOf(t)
  <2>1. w = t
    BY <1>1 DEF avltree_insert
  <2>2. PICK x \in Value : Entry(k, x) \in Entries(t)
    BY <1>1, KeysAreKeys
  <2>3. Lookup(t, k) = x
    BY <2>2, SearchFinds
  <2> QED
    BY <2>1, <2>3, NoneIsNoClient
<1>2. CASE k \notin KeysOf(t)
  <2>1. w \in Tree /\ Sorted(w) /\ Entries(w) = Entries(t) \cup {Entry(k, v)}
    BY <1>2, InsertKeeps DEF Added
  <2> HIDE DEF w
  <2>2. Lookup(t, k) = None
    BY <1>2, SearchFinds
  <2>3. Lookup(w, k) = v
    BY <2>1, SearchFinds
  <2>4. ASSUME j # k PROVE Lookup(w, j) = Lookup(t, j)
    <3>1. \A x : Entry(j, x) # Entry(k, v)
      BY <2>4, EntryIsPair
    <3>2. \A x : Entry(j, x) \in Entries(t) <=> Entry(j, x) \in Entries(w)
      BY <2>1, <3>1
    <3> QED
      BY <2>1, <3>2, SameEntriesSameClient
  <2> QED
    BY <2>2, <2>3, <2>4 DEF w
<1> QED
  BY <1>1, <1>2

LEMMA LookupAfterRemove ==
  ASSUME NEW t \in Tree, Sorted(t), Even(t), NEW k \in Key, NEW j \in Key
  PROVE  Lookup(avlnode_remove(t, k), j) = IF j = k THEN None ELSE Lookup(t, j)
<1> DEFINE w == avlnode_remove(t, k)
<1>1. w \in Tree /\ Sorted(w) /\ KeysOf(w) = KeysOf(t) \ {k} /\ Entries(w) = Without(Entries(t), k)
  BY RemoveRemoves DEF Removed
<1> HIDE DEF w
<1>2. CASE j = k
  BY <1>1, <1>2, SearchFinds DEF w
<1>3. CASE j # k
  <2>1. \A x : KeyOf(Entry(j, x)) = j
    BY EntriesOfKeys
  <2>2. \A x : Entry(j, x) \in Entries(t) <=> Entry(j, x) \in Entries(w)
    BY <1>1, <1>3, <2>1 DEF Without
  <2> QED
    BY <1>1, <1>3, <2>2, SameEntriesSameClient DEF w
<1> QED
  BY <1>2, <1>3

\* What avltree_search finds is the map of descriptors to clients: an insertion
\* gives a client to a descriptor that has none, a removal takes that of one
\* descriptor, and no rotation or copied node changes any other (util/avl.c).
THEOREM TreeIsMap == Spec => IsMap
<1> DEFINE map(t) == [k \in Key |-> Lookup(t, k)]
<1>1. Init => Map!Init
  <2>1. \A k \in Key : Lookup(Nil, k) = None
    BY NilIsTree, NilHolds, SearchFinds
  <2> QED
    BY <2>1 DEF Init, Map!Init, Found, Lookup
<1>2. TreeInv /\ [Next]_vars =>
        [Map!Destroy \/ \E k \in Key : Map!Remove(k) \/ \E v \in Value : Map!Add(k, v)]_
          <<[k \in Key |-> Found(k)], call>>
  <2> SUFFICES ASSUME TreeInv, [Next]_vars
               PROVE  \/ Map!Destroy
                      \/ \E k \in Key : Map!Remove(k) \/ \E v \in Value : Map!Add(k, v)
                      \/ UNCHANGED <<[k \in Key |-> Found(k)], call>>
    OBVIOUS
  <2>a. [k \in Key |-> Found(k)] = map(root)
    BY DEF Found, Lookup
  <2>b. [k \in Key |-> Found(k)]' = map(root')
    BY DEF Found, Lookup
  <2>1. CASE Destroy
    <3>1. \A k \in Key : Lookup(Nil, k) = None
      BY NilIsTree, NilHolds, SearchFinds
    <3>2. Map!Destroy
      BY <2>1, <2>b, <3>1 DEF Destroy, Map!Destroy
    <3> QED
      BY <3>2
  <2>2. ASSUME NEW k \in Key, Remove(k) PROVE Map!Remove(k)
    <3>1. \A j \in Key : Lookup(root', j) = IF j = k THEN None ELSE Lookup(root, j)
      BY <2>2, LookupAfterRemove DEF Remove, TreeInv
    <3>2. map(root') = [map(root) EXCEPT ![k] = None]
      BY <3>1
    <3> QED
      BY <2>2, <2>a, <2>b, <3>2 DEF Remove, Map!Remove
  <2>3. ASSUME NEW k \in Key, NEW v \in Value, Insert(k, v) PROVE Map!Add(k, v)
    <3>1. \A j \in Key : Lookup(root', j) =
            IF j = k THEN (IF Lookup(root, k) = None THEN v ELSE Lookup(root, k)) ELSE Lookup(root, j)
      BY <2>3, LookupAfterInsert DEF Insert, TreeInv
    <3>2. map(root') = [map(root) EXCEPT ![k] = IF @ = None THEN v ELSE @]
      BY <3>1
    <3> QED
      BY <2>3, <2>a, <2>b, <3>2 DEF Insert, Map!Add
  <2>4. CASE UNCHANGED vars
    BY <2>4 DEF vars, Found
  <2> QED
    BY <2>1, <2>2, <2>3, <2>4 DEF Next
<1> QED
  BY <1>1, <1>2, TreeInvHolds, PTL DEF Spec, IsMap, Map!AddSpec

=============================================================================
