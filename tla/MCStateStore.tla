---------------------------- MODULE MCStateStore ----------------------------
(***************************************************************************)
(* Three processes that share one project.                                 *)
(***************************************************************************)
EXTENDS StateStore, TLC

Symmetry == Permutations(Proc)
=============================================================================
