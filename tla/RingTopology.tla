---------------------------- MODULE RingTopology ----------------------------
(***************************************************************************)
(* The periodic one-dimensional ring of the halo exchanges:                *)
(* left = (pe - 1 + pes) % pes and right = (pe + 1) % pes.                 *)
(***************************************************************************)
EXTENDS Integers

CONSTANT N   (* Number of PEs, or ranks, of the ring.                      *)

(* "ring halo exchange requires at least 2 PEs"                            *)
ASSUME RingSize == N \in Nat /\ N >= 2

PE == 0 .. N-1

(* The direction a boundary is sent in, or the halo it arrives at.         *)
Side == {"left", "right"}

Opp(s) == IF s = "left" THEN "right" ELSE "left"

Neighbour(p, s) == IF s = "left" THEN (p - 1 + N) % N ELSE (p + 1) % N

=============================================================================
