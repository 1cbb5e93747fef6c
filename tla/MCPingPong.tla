------------------------------ MODULE MCPingPong ------------------------------
(***************************************************************************)
(* The six ping-pong programs over one sweep, for TLC: the signal-driven   *)
(* one of PingPongSignal, or those of PingPongHost.  What they promise is  *)
(* the same; the properties below state it of both.                        *)
(***************************************************************************)
EXTENDS PingPongSignal

VARIABLES
  driver,     (* What drives the round trips: signals, or the host.        *)
  transport, hostPC, hostRound, hostRecv, hostPuts  (* of PingPongHost     *)

Host == INSTANCE PingPongHost WITH
          pc <- hostPC, round <- hostRound, recv <- hostRecv, puts <- hostPuts

hostDriven == <<transport, hostPC, hostRound, hostRecv, hostPuts>>
allVars == <<vars, driver, hostDriven>>

MCInit ==
  /\ driver \in {"signals", "host"}
  /\ driver = "signals" => transport = "puts"
  /\ Init
  /\ Host!Init

MCNext ==
  \/ driver = "signals" /\ Next /\ UNCHANGED <<driver, hostDriven>>
  \/ driver = "host" /\ Host!Next /\ UNCHANGED <<driver, vars>>

MCFairness ==
  /\ driver = "signals" => Fairness
  /\ driver = "host" => Host!Fairness

MCSpec == MCInit /\ [][MCNext]_allVars /\ MCFairness

-----------------------------------------------------------------------------
(* Properties.                                                             *)

(* Whoever has passed the wait, barrier or receive of a leg holds the data *)
(* of that very round trip, though the buffers are never cleared and all   *)
(* round trips move the same bytes.                                        *)
LegsArrive == RoundTrip /\ Host!RoundTrip

(* The initiator and its peer take turns, whether flags, barriers or       *)
(* messages hand the turn over: no leg starts before the one it answers is *)
(* over.                                                                   *)
PEsTakeTurns == ImplementsTurns /\ Host!ImplementsTurns

(* No PE is left alone in a wait, at a barrier or in a receive.            *)
EveryoneFinishes ==
  /\ driver = "signals" => Termination
  /\ driver = "host" => Host!Termination
=============================================================================
