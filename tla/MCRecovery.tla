----------------------------- MODULE MCRecovery -----------------------------
(***************************************************************************)
(* Instances of Recovery for TLC: four nodes (F = 1), two transfers that   *)
(* are always affordable.                                                  *)
(***************************************************************************)
EXTENDS Recovery, TLC

CONSTANTS p1, p2, p3, A, B

ThreePeers   == {p1, p2, p3}
TwoTransfers == [s \in Seqs |-> [src |-> A, dst |-> B, amount |-> 10 * s]]
PeerSymmetry == Permutations({p1, p2})

\* Number 1 is executed on the COMMITs of the peers alone, number 2 on the
\* node's own PREPARE and COMMIT and those of p1 and p2, in either order.
MostArrive ==
    PeerMessages \ ([type: {"PREPARE"}, seq: {1}, sender: Peers]
                       \cup [type: {"PREPARE", "COMMIT"}, seq: {2}, sender: {p3}])
=============================================================================
