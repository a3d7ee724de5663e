---------------------------- MODULE MCViewChange ----------------------------
(***************************************************************************)
(* Instances of ViewChange for TLC: four nodes (F = 1); s0 leads view 0,   *)
(* s1 view 1 and s2 view 2.                                                *)
(***************************************************************************)
EXTENDS ViewChange, TLC

CONSTANTS s0, s1, s2, s3, q1, Prompt

FourSites == {s0, s1, s2, s3}
SidOrder  == 0 :> s0 @@ 1 :> s1 @@ 2 :> s2 @@ 3 :> s3

\* Steps that nothing can tell from a lost message are left out: a vote counted
\* after the quorum it could have made, and a request for a view that reaches
\* nobody because its sender would lead it.
EveryStepCounts ==
    \A i \in Sites :
        /\ \A s \in Seqs : LET r == requests[i][s] IN
              r # NoRequest /\ requests'[i][s] # NoRequest /\ requests'[i][s].tx = r.tx =>
                 /\ r.phase # "prepare" => requests'[i][s].prepares \subseteq r.prepares
                 /\ r.decided => requests'[i][s].commits \subseteq r.commits
        /\ initiating'[i].phase = "read" => get_leader(initiating'[i].view) # i

\* A vote in flight that its receiver would count.
Useful(m) ==
    /\ m.type \in {"PREPARE", "COMMIT"}
    /\ Matches(m.dst, m)
    /\ LET r == requests[m.dst][m.seq] IN
       \/ m.type = "PREPARE" /\ r.phase = "prepare" /\ m.sender \notin r.prepares
       \/ m.type = "COMMIT" /\ ~r.decided /\ m.sender \notin r.commits

\* A node has counted a vote of another one.
Counting(i) ==
    \E s \in Seqs : LET r == requests[i][s] IN
        /\ r # NoRequest
        /\ \/ r.phase = "prepare" /\ Cardinality(r.prepares) > 1
           \/ ~r.decided /\ r.commits \ {i} # {}

\* Bound: a node is late with all the votes sent to it or with none.  In the
\* last view a vote counted late shows nothing more than one counted at once.
\* The VIEW-CHANGEs of a quorum are counted together.
LateTogether ==
    /\ LET prompt == {m \in net : (view[m.dst] = MaxView \/ m.dst \in Prompt \/ Counting(m.dst)) /\ Useful(m)} IN
       prompt # {} => ~(prompt \subseteq net')
    /\ \A i \in Sites : collected[i] # {} => collected'[i] # collected[i]

\* One thread at a time starts a view change, and nothing comes between.
AtomicTimeouts ==
    \A i \in Sites : initiating[i] # Idle => initiating'[i] # initiating[i]

\* For a counterexample only: a node restarts after it executed a request and
\* after another one entered the last view.
LateRestart ==
    restarts' # restarts =>
        \E i, j \in Sites : /\ i # j /\ view[i] = MaxView
                           /\ executed[j] # {} /\ executed'[j] = executed[j]

-----------------------------------------------------------------------------
\* Votes and proposals are lost; what is sent about views arrives or is lost.
VotesAreLost == \A m \in net \ net' : m.type \in {"VIEW_CHANGE", "NEW_VIEW"}

\* Bound: the node that restarts had collected VIEW-CHANGEs.
RestartForgets == restarts' # restarts => collected' # collected

\* The leader of view 0 has stopped before it did anything; the others run on and
\* their heartbeats time out.
Survivors == Sites \ {s0}
SurvivorSpec ==
    Spec /\ \A i \in Survivors : Fairness(i) /\ TimeoutFairness(i)

\* A leader that stopped is replaced: the cluster goes on with one node down
\* (README.md, "Liveness").
LeaderIsReplaced == <>(\E i \in Survivors : view[i] > 0)
=============================================================================
