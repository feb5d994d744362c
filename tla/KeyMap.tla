------------------------------- MODULE KeyMap -------------------------------
(***************************************************************************)
(* What server->clients and the two command tables promise their users: a  *)
(* finite map from keys to values, which each call changes in one place.   *)
(* util/avl.c and util/pt.c implement it (AvlTree, CommandTable);          *)
(* EventLoop uses it in place of the tree.                                 *)
(***************************************************************************)
CONSTANTS Key, Value, None

VARIABLES map,   \* the value of each key, None for the others
          call   \* the last call

Init == map = [k \in Key |-> None] /\ call = <<"create">>

\* avltree_insert: a key that is there keeps its value.
Add(k, v) ==
  /\ call' = <<"insert", k, v>>
  /\ map' = [map EXCEPT ![k] = IF @ = None THEN v ELSE @]

\* pttree_insert: a key that is there gets the new value.
Set(k, v) ==
  /\ call' = <<"insert", k, v>>
  /\ map' = [map EXCEPT ![k] = v]

Remove(k) ==
  /\ call' = <<"remove", k>>
  /\ map' = [map EXCEPT ![k] = None]

Destroy ==
  /\ call' = <<"create">>
  /\ map' = [k \in Key |-> None]

\* The map as the AVL tree and as the prefix tree keep it.
AddSpec == Init /\ [][Destroy \/ \E k \in Key : Remove(k) \/ \E v \in Value : Add(k, v)]_<<map, call>>
SetSpec == Init /\ [][Destroy \/ \E k \in Key, v \in Value : Set(k, v)]_<<map, call>>

=============================================================================
