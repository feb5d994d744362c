------------------------------- MODULE MCLibFtp -------------------------------
(* Instances of LibFtp for TLC. *)
EXTENDS LibFtp

==============================================================================
