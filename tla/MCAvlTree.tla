------------------------------ MODULE MCAvlTree ------------------------------
(* Instances of AvlTree for TLC. *)
EXTENDS AvlTree

\* Enough for a tree of three full levels.
Seven == 1..7

==============================================================================
