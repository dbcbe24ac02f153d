---------------------------- MODULE MCRemediation ----------------------------
(***************************************************************************)
(* Two findings and the user at four paths: a test of the user's in which  *)
(* a repair may put a directive, a test that both repairs write, a path    *)
(* out of scope and one that git ignores.                                  *)
(***************************************************************************)
EXTENDS Remediation

Versions ==
  {[at |-> "unit", by |-> 0, suppresses |-> FALSE], [at |-> "unit", by |-> 2, suppresses |-> TRUE],
   [at |-> "spec", by |-> 1, suppresses |-> FALSE], [at |-> "spec", by |-> 2, suppresses |-> FALSE],
   [at |-> "other", by |-> 2, suppresses |-> FALSE],
   [at |-> "ignored", by |-> 2, suppresses |-> FALSE]}
=============================================================================
