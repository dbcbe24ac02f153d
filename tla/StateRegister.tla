--------------------------- MODULE StateRegister ---------------------------
(***************************************************************************)
(* What the state store promises its callers: one register whose updates   *)
(* form a single chain.  An update either extends exactly the chain its    *)
(* caller loaded, or changes nothing; an update the caller was told of is  *)
(* in the chain for good.  Nothing here mentions locks or files.           *)
(***************************************************************************)
EXTENDS Integers, Sequences

VARIABLES chain, acked
vars == <<chain, acked>>

Init == chain = <<>> /\ acked = {}

\* One update on top of everything before it.
Extend ==
  /\ Len(chain') = Len(chain) + 1
  /\ SubSeq(chain', 1, Len(chain)) = chain
  /\ acked' = acked

Acknowledge ==
  \E i \in DOMAIN chain : acked' = acked \cup {chain[i]} /\ chain' = chain

Next == Extend \/ Acknowledge

Spec == Init /\ [][Next]_vars
=============================================================================
