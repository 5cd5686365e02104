----------------------------- MODULE MCBatcher -----------------------------
(* An instance of Batcher for TLC: two callers that share a batch. *)
EXTENDS Batcher

CONSTANTS r1, r2, k1

MCKey == [r \in Requests |-> k1]
============================================================================
