------------------------------ MODULE Partition ------------------------------
(***************************************************************************)
(* The block decomposition of include/partition.hpp: total items over      *)
(* ranks, the first total % ranks of which get one item more.              *)
(***************************************************************************)
EXTENDS Integers

LocalCount(total, rank, ranks) ==
  (total \div ranks) + (IF rank < total % ranks THEN 1 ELSE 0)

LocalOffset(total, rank, ranks) ==
  rank * (total \div ranks) + (IF rank < total % ranks THEN rank ELSE total % ranks)

(* The items of a rank.                                                    *)
Slab(total, rank, ranks) ==
  LocalOffset(total, rank, ranks) ..
    LocalOffset(total, rank, ranks) + LocalCount(total, rank, ranks) - 1

=============================================================================
