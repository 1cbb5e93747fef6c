----------------------------- MODULE MCCgShmem -----------------------------
(* A sweep of two grid sides for TLC: one that divides evenly, one not.    *)
EXTENDS CgShmem

MCSides == <<4, 3>>

=============================================================================
