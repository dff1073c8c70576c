------------------------------- MODULE MCHistory -------------------------------
(* History for TLC: shells are interchangeable, and states in which some shell
   wrote over what it had not read are followed only while few lines were typed. *)
EXTENDS History, TLC

CONSTANT MaxRaced

Symmetry == Permutations(Shell)
FewRaced == raced \/ broken => next <= MaxRaced

================================================================================
