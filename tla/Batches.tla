------------------------------- MODULE Batches -------------------------------
(***************************************************************************)
(* The batches of a halo benchmark (timing.hpp): every halo size is        *)
(* measured with one exchange per batch ("isolated") and with Iterations   *)
(* of them ("steady"), and each such case is one warm-up batch, number 0,  *)
(* followed by its samples.                                                *)
(***************************************************************************)
EXTENDS Integers, Sequences

CONSTANTS
  Sizes,           (* Number of halo sizes the host loop goes through.     *)
  Iterations,      (* Exchanges of a "steady" batch.                       *)
  Warmup,          (* Exchanges of the warm-up batch of each case.         *)
  SteadySamples,   (* GPU_BENCH_BATCH_SAMPLES                              *)
  IsolatedSamples  (* GPU_BENCH_ISOLATED_SAMPLES                           *)

BatchCounts == IF Iterations = 1 THEN <<1>> ELSE <<1, Iterations>>
Cases == Sizes * Len(BatchCounts)
CaseIters(c) == BatchCounts[((c - 1) % Len(BatchCounts)) + 1]
Samples(c) == IF CaseIters(c) = 1 THEN IsolatedSamples ELSE SteadySamples
Count(c, b) == IF b = 0 THEN Warmup ELSE CaseIters(c)

=============================================================================
