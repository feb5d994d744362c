------------------------------ MODULE MCSession ------------------------------
(* Instances of Session for TLC. *)
EXTENDS Session, TLC

CONSTANTS Sub, f, g, X, Y

TheFile == <<Root, f>>
TwoBlocks == <<X, Y>>

Inodes == Permutations(Inode)

==============================================================================
