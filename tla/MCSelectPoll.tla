----------------------------- MODULE MCSelectPoll -----------------------------
(* Instances of SelectPoll for TLC. *)
EXTENDS SelectPoll

==============================================================================
