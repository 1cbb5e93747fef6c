------------------------------- MODULE MoePlan -------------------------------
(***************************************************************************)
(* make_moe_plan and pack_moe_send of include/moe.hpp: from the expert of  *)
(* every token of every rank, how many tokens each rank sends to each      *)
(* expert, and where they lie in the three buffers of a rank.  Counts and  *)
(* displacements are in tokens; the code multiplies each by hidden.        *)
(***************************************************************************)
EXTENDS Integers, FiniteSets, FiniteSetsExt

CONSTANTS
  N,      (* Number of ranks, which are also the experts.                  *)
  Tokens  (* Tokens per rank.                                              *)

ASSUME MoeAssumption == {N, Tokens} \subseteq Nat \ {0}

PE == 0 .. N-1
Token == 0 .. Tokens-1

(* What the hash of (source, token) may pick: any expert for any token.    *)
Routings == [PE -> [Token -> PE]]

(* The tokens a source sends to an expert, and the entry of the matrix.    *)
Routed(route, s, e) == {t \in Token : route[s][t] = e}
TokenCount(route, s, e) == Cardinality(Routed(route, s, e))

(* send_token_displacements of rank s                                      *)
SendDispl(route, s, e) == MapThenSumSet(LAMBDA q : TokenCount(route, s, q), 0 .. e-1)

(* Fault: the row of the matrix in place of the column.                    *)
RecvDisplOfRow(route, e, s) == MapThenSumSet(LAMBDA q : TokenCount(route, e, q), 0 .. s-1)

(* recv_token_displacements of rank e                                      *)
RecvDispl(route, e, s) == MapThenSumSet(LAMBDA q : TokenCount(route, q, e), 0 .. s-1)

ExpertTokens(route, e) == MapThenSumSet(LAMBDA s : TokenCount(route, s, e), PE)

(* max_expert_tokens, which every PE sizes its dispatch buffer by.         *)
MaxExpertTokens(route) == Max({ExpertTokens(route, e) : e \in PE})

(* pack_moe_send: the slot of a token is its expert's displacement plus    *)
(* the number of earlier tokens of that expert.                            *)
PackedAt(route, s, t) ==
  LET e == route[s][t]
  IN  SendDispl(route, s, e) + Cardinality({u \in Routed(route, s, e) : u < t})

(* The token in a slot of the send buffer.                                 *)
TokenAt(route, s, slot) == CHOOSE t \in Token : PackedAt(route, s, t) = slot

(* The slots of the receive buffer of e that its plan keeps for s.         *)
RecvSlots(route, e, s) ==
  RecvDispl(route, e, s) .. RecvDispl(route, e, s) + TokenCount(route, s, e) - 1

=============================================================================
