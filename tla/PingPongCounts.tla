---------------------------- MODULE PingPongCounts ----------------------------
(* What every ping-pong goes through: two PEs, a sweep of message sizes,   *)
(* and for each of them a warm-up and a timed number of round trips.       *)
EXTENDS Integers

CONSTANTS
  Sizes,      (* Number of message sizes.                                  *)
  Warmup,     (* Round trips before the timed ones.                        *)
  Iterations  (* Timed round trips.                                        *)

ASSUME CountsAssumption == {Sizes, Warmup, Iterations} \subseteq Nat \ {0}

PE == {0, 1}

(* Round trips of a size, and of a run.                                    *)
Rounds == Warmup + Iterations
Total == Sizes * Rounds

=============================================================================
