----------------------------- MODULE MCTransport -----------------------------
(***************************************************************************)
(* Instances of Transport for TLC: the message thread and the heartbeat    *)
(* thread send one message each to the same destination.                   *)
(***************************************************************************)
EXTENDS Transport, TLC

\* A message is named after the thread that sends it.
OneEach == [t \in Senders |-> <<t>>]

SenderSymmetry == Permutations(Senders)

\* Bound: a line is written in at most two pieces.
TwoPieces ==
    \A t \in Senders : InLine(t) /\ left'[t] # left[t] => Len(left'[t]) \notin {1, 2}
=============================================================================
