--------------------------- MODULE MCEventJournal ---------------------------
(***************************************************************************)
(* Two or three processes append the events of two runs.                   *)
(***************************************************************************)
EXTENDS EventJournal, TLC

Symmetry == Permutations(Proc) \cup Permutations(Run)
=============================================================================
