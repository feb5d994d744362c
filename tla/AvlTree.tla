------------------------------- MODULE AvlTree -------------------------------
(***************************************************************************)
(* util/avl.c: the tree in which ftpserv_run finds the client of a         *)
(* descriptor.  A node is [key, val, left, right], NULL is Nil; a tree is  *)
(* a value, since nothing outside avl.c keeps a pointer into it over a     *)
(* call that changes it.                                                   *)
(***************************************************************************)
EXTENDS Integers, FiniteSets

CONSTANTS Key,     \* descriptor numbers, integers
          Value,   \* clients
          None,    \* no client
          Nil      \* the empty tree

ASSUME KeyAssumption == Key \subseteq Int /\ IsFiniteSet(Key)

ASSUME NoneIsNoClient == None \notin Value

VARIABLES root,  \* server->clients->root
          call   \* the last call, for the comparison with KeyMap

vars == <<root, call>>

Node(k, v, l, r) == [key |-> k, val |-> v, left |-> l, right |-> r]

WithLeft(n, l)  == [n EXCEPT !.left = l]
WithRight(n, r) == [n EXCEPT !.right = r]

\* The trees on at most d levels.
Trees[d \in Nat] ==
  IF d = 0 THEN {Nil}
  ELSE {Nil} \cup [key : Key, val : Value, left : Trees[d - 1], right : Trees[d - 1]]

\* A tree with one node for each key has no more levels than there are keys.
Tree == Trees[Cardinality(Key)]

ASSUME NilIsNoNode == Nil \notin [key : Key, val : Value, left : Tree, right : Tree]

\* The functions that call themselves in the code are functions on Tree here.
Nodes(t) ==
  LET nodes[n \in Tree] == IF n = Nil THEN {} ELSE {n} \cup nodes[n.left] \cup nodes[n.right]
  IN  nodes[t]

KeysOf(n) == {m.key : m \in Nodes(n)}

------------------------------------------------------------------------------
avlnode_search(t, k) ==
  LET at[n \in Tree] ==
        IF n = Nil THEN n ELSE IF n.key = k THEN n ELSE at[IF k < n.key THEN n.left ELSE n.right]
  IN  at[t]

avlnode_height(t) ==
  LET height[n \in Tree] ==
        IF n = Nil THEN 0
        ELSE LET l == height[n.left]
                 r == height[n.right]
             IN  1 + (IF r > l THEN r ELSE l)
  IN  height[t]

avlnode_balance_factor(n) == avlnode_height(n.right) - avlnode_height(n.left)

avlnode_rotate_ll(a) ==
  LET b == a.left IN WithRight(b, WithLeft(a, b.right))

avlnode_rotate_rr(a) ==
  LET b == a.right IN WithLeft(b, WithRight(a, b.left))

\* Mutant: the left subtree of c is hung on the wrong side.
avlnode_rotate_lr_swapped(a) ==
  LET b == a.left
      c == b.right
  IN  WithRight(WithLeft(c, WithRight(b, c.right)), WithLeft(a, c.left))

avlnode_rotate_lr(a) ==
  LET b == a.left
      c == b.right
  IN  WithRight(WithLeft(c, WithRight(b, c.left)), WithLeft(a, c.right))

avlnode_rotate_rl(a) ==
  LET b == a.right
      c == b.left
  IN  WithLeft(WithRight(c, WithLeft(b, c.right)), WithRight(a, c.left))

\* Mutant: a heavy right side is always rotated once.
Rotated_once(n) ==
  LET bf == avlnode_balance_factor(n)
  IN  IF bf >= 2 THEN avlnode_rotate_rr(n)
      ELSE IF bf <= -2 THEN avlnode_rotate_ll(n) ELSE n

Rotated(n) ==
  LET bf == avlnode_balance_factor(n)
  IN  IF bf >= 2
      THEN IF avlnode_balance_factor(n.right) < 0 THEN avlnode_rotate_rl(n) ELSE avlnode_rotate_rr(n)
      ELSE IF bf <= -2
      THEN IF avlnode_balance_factor(n.left) > 0 THEN avlnode_rotate_lr(n) ELSE avlnode_rotate_ll(n)
      ELSE n

\* Every subtree is balanced again, from the leaves up.
avlnode_balance(t) ==
  LET balanced[n \in Tree] ==
        IF n = Nil THEN Nil
        ELSE Rotated(WithRight(WithLeft(n, balanced[n.left]), balanced[n.right]))
  IN  balanced[t]

\* The tree t with a new node where the search for k ends.
Hung(t, k, v) ==
  LET hung[n \in Tree] ==
        IF n = Nil THEN Node(k, v, Nil, Nil)
        ELSE IF k < n.key THEN WithLeft(n, hung[n.left]) ELSE WithRight(n, hung[n.right])
  IN  hung[t]

\* An existing key changes nothing, the balance included.
avltree_insert(t, k, v) ==
  IF k \in KeysOf(t) THEN t ELSE avlnode_balance(Hung(t, k, v))

Rightmost(t) ==
  LET rightmost[n \in Tree] == IF n = Nil \/ n.right = Nil THEN n ELSE rightmost[n.right]
  IN  rightmost[t]

\* In-order predecessor: the rightmost node on the left.
avlnode_ip(n) == Rightmost(n.left)

\* Mutant: the predecessor's key is copied and its client is not.
avlnode_swap_key_only(n, l) == Node(avlnode_ip(n).key, n.val, l, n.right)

\* A node takes over its predecessor, which is gone from l, its left side.
avlnode_swap(n, l) ==
  LET ip == avlnode_ip(n) IN Node(ip.key, ip.val, l, n.right)

\* A node with two subtrees stays, with its predecessor in it; any other is freed.
avlnode_remove(t, k) ==
  LET removed[n \in Tree] == [j \in Key |->
        IF n = Nil THEN Nil
        ELSE avlnode_balance(
          IF j < n.key THEN WithLeft(n, removed[n.left][j])
          ELSE IF j > n.key THEN WithRight(n, removed[n.right][j])
          ELSE IF n.left # Nil /\ n.right # Nil THEN avlnode_swap(n, removed[n.left][avlnode_ip(n).key])
          ELSE IF n.left # Nil THEN n.left ELSE n.right)]
  IN  removed[t][k]

------------------------------------------------------------------------------
Init == root = Nil /\ call = <<"create">>

\* Without memory for the node the tree stays as it was; not modelled.
Insert(k, v) ==
  /\ call' = <<"insert", k, v>>
  /\ root' = avltree_insert(root, k, v)

Remove(k) ==
  /\ call' = <<"remove", k>>
  /\ root' = avlnode_remove(root, k)

\* The tree is freed; a new one may be made.
Destroy ==
  /\ call' = <<"create">>
  /\ root' = Nil

Next == Destroy \/ \E k \in Key : Remove(k) \/ \E v \in Value : Insert(k, v)

Spec == Init /\ [][Next]_vars

------------------------------------------------------------------------------
\* Every key is in one node, and on the side where avlnode_search looks for it.
Ordered ==
  \A n \in Nodes(root) : /\ \A k \in KeysOf(n.left) : k < n.key
                         /\ \A k \in KeysOf(n.right) : k > n.key

\* No client is far from the root: heights of siblings differ by one at most,
\* after every removal as well as after every insertion.
Balanced == \A n \in Nodes(root) : avlnode_balance_factor(n) \in {-1, 0, 1}

\* What avltree_search finds for a key.
Found(k) == LET n == avlnode_search(root, k) IN IF n = Nil THEN None ELSE n.val

Map == INSTANCE KeyMap WITH map <- [k \in Key |-> Found(k)]

\* Rotations and copied predecessors lose no client and mistake none: the tree
\* is the map EventLoop takes it for.
IsMap == Map!AddSpec

==============================================================================
