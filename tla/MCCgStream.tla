----------------------------- MODULE MCCgStream -----------------------------
(* A sweep of two grid sides for TLC.                                      *)
EXTENDS CgStream

MCSides == <<4, 3>>

=============================================================================
