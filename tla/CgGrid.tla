------------------------------- MODULE CgGrid -------------------------------
(***************************************************************************)
(* The grid every cg_step program works on: a rank owns a slab of columns  *)
(* of a nonperiodic square grid, exchanges its two boundary columns with   *)
(* the neighbours it has, and a sweep goes through several grid sides with *)
(* the same buffers.                                                       *)
(*                                                                         *)
(* A column is represented by its index in the whole grid and the step it  *)
(* was packed in, counted over the whole sweep.                            *)
(***************************************************************************)
EXTENDS Partition, Sequences

CONSTANTS
  N,      (* Number of ranks.                                              *)
  Sides   (* The grid sides of the sweep.                                  *)

ASSUME GridAssumption ==
  /\ N \in Nat \ {0}
  /\ Sides \in Seq(Nat \ {0}) /\ Sides # <<>>

(* "The validated experiment configurations use a grid side at least as    *)
(* large as the rank count so every rank owns grid columns."               *)
ASSUME GridCoversRanks == \A i \in 1 .. Len(Sides) : Sides[i] >= N

PE == 0 .. N-1
Dir == {"west", "east"}
Opposite(d) == IF d = "west" THEN "east" ELSE "west"

(* left is -1 at rank 0, right at the last one.                            *)
HasNeighbour(p, d) == IF d = "west" THEN p > 0 ELSE p < N - 1
Neighbour(p, d) == IF d = "west" THEN p - 1 ELSE p + 1

Facing(p) == {d \in Dir : HasNeighbour(p, d)}

OwnsColumns(p, i) == LocalCount(Sides[i], p, N) > 0

Column == [index : Int, step : Nat]

(* What memset leaves, which is also the field outside the grid; and what  *)
(* an allocation holds before anything is written to it.                   *)
Zero == [index |-> -1, step |-> 0]
Garbage == [index |-> -2, step |-> 0]

(* The first and the last column of p's slab of the i-th side.             *)
Edge(p, i, d) ==
  LocalOffset(Sides[i], p, N) + IF d = "west" THEN 0 ELSE LocalCount(Sides[i], p, N) - 1

Boundary(p, i, s) == [d \in Dir |-> [index |-> Edge(p, i, d), step |-> s]]

(* The columns p must compute step s with: those next to its slab, of that *)
(* step, and zero outside the grid.                                        *)
ExpectedGhosts(p, i, s) ==
  [d \in Dir |->
     IF HasNeighbour(p, d)
     THEN [index |-> Edge(p, i, d) + (IF d = "west" THEN -1 ELSE 1), step |-> s]
     ELSE Zero]

=============================================================================
