---------------------------- MODULE ReplicatedLog ----------------------------
(***************************************************************************)
(* What the ledger promises: every node fills the slots of one log.  A     *)
(* node fills a slot once, for good, and with the value any other node has *)
(* there already.  README.md, "Safety", states it; consensus/pbft.py is    *)
(* meant to implement it.                                                  *)
(***************************************************************************)
CONSTANTS Nodes, Slots, Values, None

VARIABLE log

Init == log = [n \in Nodes |-> [s \in Slots |-> None]]

\* Node n fills slot s with v.
Decide(n, s, v) ==
    /\ log[n][s] = None
    /\ \A o \in Nodes : log[o][s] \in {None, v}
    /\ log' = [log EXCEPT ![n][s] = v]

Next == \E n \in Nodes, s \in Slots, v \in Values : Decide(n, s, v)

Spec == Init /\ [][Next]_log
==============================================================================
