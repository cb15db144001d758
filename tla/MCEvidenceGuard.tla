-------------------------- MODULE MCEvidenceGuard --------------------------
(* A small room: a vague request and a precise one that it resolves to. *)
EXTENDS EvidenceGuard, TLC

CONSTANTS g1, g2, vague, precise

MCResolved == [q \in Queries |-> precise]
GapSymmetry == Permutations(Gaps)
=============================================================================
