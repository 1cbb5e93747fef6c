----------------------------- MODULE MCHarness -----------------------------
(* The matrix of pingpong for TLC, two ranks within a node or on two, and  *)
(* every allocation of up to two nodes with up to two tasks on each.       *)
EXTENDS Harness

MCTopologies == {[nodes |-> 1, gpus |-> 2], [nodes |-> 2, gpus |-> 1]}
MCGranted == [nodes : {1, 2}, gpus : {1, 2}]

=============================================================================
