---------------------------- MODULE RingExchange ----------------------------
(***************************************************************************)
(* What every ring halo exchange of the benchmark suite promises, whatever *)
(* the transport: a rank finishes round r of the exchange only after it    *)
(* has posted both of its boundaries for round r and both neighbours have  *)
(* posted the boundary that faces it.  HaloRing and HostRing are shown to   *)
(* implement this specification.                                           *)
(***************************************************************************)
EXTENDS RingTopology

CONSTANT
  Rounds   (* The rounds a rank may start: completed counts it may leave.  *)

VARIABLES
  posted,  (* posted[p][s]: rounds whose boundary p has posted towards s.  *)
  done     (* done[p]: rounds p has completed.                             *)

ringVars == <<posted, done>>

TypeOK ==
  /\ posted \in [PE -> [Side -> Nat]]
  /\ done \in [PE -> Nat]

Init ==
  /\ posted = [p \in PE |-> [s \in Side |-> 0]]
  /\ done = [p \in PE |-> 0]

Post(p, s) ==
  /\ done[p] \in Rounds
  /\ posted[p][s] = done[p]
  /\ posted' = [posted EXCEPT ![p][s] = @ + 1]
  /\ UNCHANGED done

Complete(p) ==
  /\ \A s \in Side : posted[p][s] > done[p]
  /\ \A s \in Side : posted[Neighbour(p, s)][Opp(s)] > done[p]
  /\ done' = [done EXCEPT ![p] = @ + 1]
  /\ UNCHANGED posted

Next == \E p \in PE : Complete(p) \/ \E s \in Side : Post(p, s)

Spec == Init /\ [][Next]_ringVars

-----------------------------------------------------------------------------
(* Neighbours never drift apart by more than one round, so a rank's halo   *)
(* holds the data of the round it waited for or of the next one.           *)
NeighbourSkew ==
  \A p \in PE, s \in Side : done[Neighbour(p, s)] - done[p] \in {-1, 0, 1}

(* Two posts towards one neighbour are the most it has not yet consumed:   *)
(* the depth every transport must be able to hold, whatever N is.          *)
PostsUnconsumed ==
  \A p \in PE, s \in Side : posted[p][s] - done[Neighbour(p, s)] <= 2

=============================================================================
