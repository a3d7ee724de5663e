------------------------------- MODULE MCPBFT -------------------------------
(***************************************************************************)
(* Instances of PBFT for TLC: four nodes (F = 1), of which s0 has sid 0    *)
(* and leads view 0, and s3 has sid 3.                                     *)
(***************************************************************************)
EXTENDS PBFT, TLC

CONSTANTS s0, s1, s2, s3, q1, q2, c1, c2, A, B, C

FourSites == {s0, s1, s2, s3}
SidOrder  == 0 :> s0 @@ 1 :> s1 @@ 2 :> s2 @@ 3 :> s3
NoDemo    == [q \in {} |-> 0]
DemoOrder == [q \in Demo |-> IF q = q1 THEN 1 ELSE 2]

\* Two transfers that A can pay only one of.
RivalOps  == [q \in Requests |->
                [src |-> A, dst |-> B, amount |-> IF q = q1 THEN 60 ELSE 70]]
SmallOps  == [q \in Requests |-> [src |-> A, dst |-> B, amount |-> 10]]
OwnClient == [q \in Requests |-> IF q = q1 THEN c1 ELSE c2]

Tx(q, s) == [req |-> q, id |-> s, fake |-> FALSE]
TwoTxs   == {Tx(q1, 1), Tx(q2, 1)}

\* A request and the copy of it that the is_malicious leader sends to Victim.
RealOrForged == {Tx(q1, 1), [Tx(q1, 1) EXCEPT !.fake = TRUE]}

AfterOneTx == {Transferred([a \in Accounts |-> InitialBalance], Op[q1])}

\* s1, s2 and s3 differ in nothing while s0 leads.
BackupSymmetry == Permutations({s1, s2, s3})
OtherSymmetry  == Permutations({s1, s2})

\* A message that is consumed without effect can as well stay in flight for
\* ever: a safety run may leave such steps out.
EveryStepCounts == net' \subseteq net => <<requests, checkpoints, viewChangeSent, success>>'
                        # <<requests, checkpoints, viewChangeSent, success>>

-----------------------------------------------------------------------------
(* What a document says of the program and the code does not do. *)

Applied(i, s) == requests[i][s].tx \in ledger[i]

\* No two correct nodes store different results for one sequence number
\* (README.md, "Safety").  Nodes execute in the order of their commit quorums,
\* so a transfer that one can still pay another cannot.
SameResult ==
    \A i, j \in Correct, s \in Seqs :
        Decided(i, s) /\ Decided(j, s) => Applied(i, s) = Applied(j, s)

=============================================================================
