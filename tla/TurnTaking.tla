------------------------------ MODULE TurnTaking ------------------------------
(***************************************************************************)
(* What a ping-pong promises: the initiator and its peer take turns, and   *)
(* no leg starts before the one it answers is over.                        *)
(***************************************************************************)
EXTENDS Integers

VARIABLES
  pings,  (* Pings the initiator has completed.                            *)
  pongs   (* Pongs the peer has completed.                                 *)

turnVars == <<pings, pongs>>

Init == pings = 0 /\ pongs = 0

Ping == pings = pongs /\ pings' = pings + 1 /\ UNCHANGED pongs

Pong == pongs < pings /\ pongs' = pings /\ UNCHANGED pings

Spec == Init /\ [][Ping \/ Pong]_turnVars

=============================================================================
