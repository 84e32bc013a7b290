-------------------------- MODULE MCChainFollower --------------------------
(* Instances of ChainFollower. *)
EXTENDS ChainFollower

MCClosedAt == [n \in 0..LastLedger + 1 |-> n]

\* A message with two phrases is told by the first.
MCMessages == SUBSET {"Timeout", "disconnected from "}
=============================================================================
