-------------------------- MODULE CheckpointProofs --------------------------
(***************************************************************************)
(* Proof about PBFT that a correct node moves its watermark only to a      *)
(* sequence number that F + 1 correct nodes have executed.                 *)
(***************************************************************************)
EXTENDS PBFTProofs

-----------------------------------------------------------------------------
(* The invariant: a correct node votes for what it has executed, and a      *)
(* watermark rests on a quorum of votes.                                    *)

Executors(s) == {j \in Correct : Decided(j, s)}

CheckpointsInFlight ==
    \A m \in net : m.type = "CHECKPOINT" /\ m.sender \in Correct => Decided(m.sender, m.seq)

CheckpointsCounted ==
    \A i \in Correct : \A v \in checkpoints[i] :
        v.sender \in Correct => Decided(v.sender, v.seq)

WatermarksAreExecuted ==
    \A i \in Correct : low[i] \in Seqs => Cardinality(Executors(low[i])) > F

CheckpointInv == CheckpointsInFlight /\ CheckpointsCounted /\ WatermarksAreExecuted

-----------------------------------------------------------------------------
(* What a step does to checkpoints: nothing, or node i counts one vote.     *)

\* Nothing is forgotten that was executed.
DecisionsStay == \A j \in Correct, s \in Seqs : Decided(j, s) => Decided(j, s)'

NewVotesAreExecuted ==
    \A m \in net' \ net :
        m.type = "CHECKPOINT" /\ m.sender \in Correct => Decided(m.sender, m.seq)'

\* Where i has a vote from: itself, a faulty node or a message it may take now.
Heard(i, s, sender) ==
    \/ sender = i \/ sender \in Faulty
    \/ \E m \in net : /\ m.type = "CHECKPOINT" /\ m.sender = sender
                      /\ m.dst = i /\ m.seq = s /\ Deliverable(m)

Counted ==
    \E i \in Correct, s \in Seqs, sender \in Sites : \E digest, bal :
        /\ RecordCheckpointVote(i, s, digest, sender, bal)
        /\ sender \in Correct => Decided(sender, s)'
        /\ Heard(i, s, sender)

CheckpointStep ==
    /\ NewVotesAreExecuted
    /\ Counted \/ UNCHANGED <<checkpoints, low>>

LEMMA StepDecisionsStay == IInv /\ [Next]_vars => DecisionsStay
BY StepAdvances, StepExecutesOnce DEF DecisionsStay

\* Of a quorum, more than F are correct.
LEMMA QuorumIsHonest ==
    ASSUME NEW P \in SUBSET Sites, Cardinality(P) >= Quorum
    PROVE  Cardinality(P \cap Correct) > F
<1>1. /\ IsFiniteSet(P) /\ Cardinality(P) \in Nat
      /\ Cardinality(P \cap Faulty) \in Nat
  BY SiteSets
<1>2. Cardinality(P \cap Faulty) <= F
  <2>1. /\ Cardinality(P \cap Faulty) <= Cardinality(Faulty)
        /\ Cardinality(Faulty) \in Nat
    BY FaultAssumption, SiteSets
  <2> QED
    BY <1>1, <2>1, FaultAssumption
<1>3. Cardinality(P \ Faulty) = Cardinality(P) - Cardinality(P \cap Faulty)
  BY <1>1, FS_Difference
<1>4. P \cap Correct = P \ Faulty
  BY DEF Correct
<1>5. Cardinality(P \cap Correct) = Cardinality(P) - Cardinality(P \cap Faulty)
  BY <1>3, <1>4
<1>6. F \in Nat /\ Cardinality(P) >= 2 * F + 1
  BY FaultAssumption DEF Quorum
<1> QED
  BY <1>1, <1>2, <1>5, <1>6

LEMMA CheckpointStepKeeps ==
    ASSUME TypeOK, CheckpointInv, DecisionsStay, CheckpointStep, TypeOK'
    PROVE  CheckpointInv'
<1>1. \A s \in Seqs : Executors(s) \subseteq Executors(s)'
  BY DEF DecisionsStay, Executors
<1>2. ASSUME NEW s \in Seqs, NEW S \in SUBSET Executors(s)', Cardinality(S) > F
      PROVE  Cardinality(Executors(s)') > F
  <2>1. Executors(s)' \in SUBSET Sites
    BY DEF Executors, Correct
  <2>2. /\ Cardinality(S) \in Nat /\ Cardinality(Executors(s)') \in Nat
        /\ Cardinality(S) <= Cardinality(Executors(s)')
    BY <2>1, SiteSets
  <2> QED
    BY <1>2, <2>2, FaultAssumption
<1>3. CheckpointsInFlight'
  <2>1. ASSUME NEW m \in net', m \in net, m.type = "CHECKPOINT", m.sender \in Correct
        PROVE  Decided(m.sender, m.seq)'
    <3>1. m.seq \in Seqs
      BY <2>1, MessageFields DEF TypeOK
    <3> QED
      BY <2>1, <3>1 DEF CheckpointInv, CheckpointsInFlight, DecisionsStay
  <2> QED
    BY <2>1 DEF CheckpointStep, NewVotesAreExecuted, CheckpointsInFlight
<1>4. CASE UNCHANGED <<checkpoints, low>>
  <2>1. CheckpointsCounted'
    BY <1>4 DEF CheckpointInv, CheckpointsCounted, DecisionsStay, TypeOK, Correct
  <2>2. WatermarksAreExecuted'
    BY <1>1, <1>2, <1>4 DEF CheckpointInv, WatermarksAreExecuted
  <2> QED
    BY <1>3, <2>1, <2>2 DEF CheckpointInv
<1>5. CASE Counted
  <2>1. PICK i \in Correct, s \in Seqs, sender \in Sites :
           \E digest, bal :
              /\ RecordCheckpointVote(i, s, digest, sender, bal)
              /\ sender \in Correct => Decided(sender, s)'
    BY <1>5 DEF Counted
  <2>2. PICK digest, bal :
              /\ RecordCheckpointVote(i, s, digest, sender, bal)
              /\ sender \in Correct => Decided(sender, s)'
    BY <2>1
  <2> DEFINE vote  == [seq |-> s, digest |-> digest, sender |-> sender]
             votes == checkpoints[i] \cup {vote}
  <2>3. checkpoints' = [checkpoints EXCEPT ![i] = votes]
    BY <2>2 DEF RecordCheckpointVote
  <2>4. i \in Sites /\ low \in [Sites -> Int] /\ checkpoints \in [Sites ->
            SUBSET [seq: Seqs, digest: StateDigests, sender: Sites]]
    BY DEF TypeOK, Correct
  <2>5. \A v \in votes : v.sender \in Correct => Decided(v.sender, v.seq)'
    <3>1. ASSUME NEW v \in checkpoints[i], v.sender \in Correct
          PROVE  Decided(v.sender, v.seq)'
      <4>1. v.seq \in Seqs
        BY <2>4
      <4> QED
        BY <3>1, <4>1 DEF CheckpointInv, CheckpointsCounted, DecisionsStay
    <3> QED
      BY <2>2, <3>1
  <2>6. CheckpointsCounted'
    <3>1. ASSUME NEW j \in Correct, NEW v \in checkpoints'[j], v.sender \in Correct
          PROVE  Decided(v.sender, v.seq)'
      <4>1. CASE j = i
        BY <2>3, <2>4, <2>5, <3>1, <4>1
      <4>2. CASE j # i
        <5>1. v \in checkpoints[j] /\ v.seq \in Seqs
          BY <2>3, <2>4, <3>1, <4>2 DEF Correct
        <5> QED
          BY <3>1, <5>1 DEF CheckpointInv, CheckpointsCounted, DecisionsStay
      <4> QED
        BY <4>1, <4>2
    <3> QED
      BY <3>1 DEF CheckpointsCounted
  <2>7. WatermarksAreExecuted'
    <3>1. \A j \in Correct : low'[j] = low[j]
              \/ (low'[j] = s /\ Certified(votes, s, digest))
      BY <2>2, <2>4 DEF RecordCheckpointVote, Bigger, Correct
    <3>2. ASSUME Certified(votes, s, digest)
          PROVE  Cardinality(Executors(s)') > F
      <4> DEFINE P == CheckpointVotes(votes, s, digest)
      <4>0. votes \in SUBSET [seq: Seqs, digest: StateDigests, sender: Sites]
        BY <2>3, <2>4 DEF TypeOK
      <4>1. P \in SUBSET Sites
        BY <4>0 DEF CheckpointVotes
      <4>2. Cardinality(P \cap Correct) > F
        BY <3>2, <4>1, QuorumIsHonest DEF Certified
      <4>3. P \cap Correct \in SUBSET Executors(s)'
        <5>1. ASSUME NEW j \in P \cap Correct
              PROVE  j \in Executors(s)'
          <6>1. \E v \in votes : v.seq = s /\ v.sender = j
            BY DEF CheckpointVotes
          <6> QED
            BY <2>5, <6>1 DEF Executors
        <5> QED
          BY <5>1
      <4> HIDE DEF P
      <4> QED
        BY <1>2, <4>2, <4>3
    <3>3. ASSUME NEW j \in Correct, low'[j] \in Seqs
          PROVE  Cardinality(Executors(low[j])') > F
      <4>1. CASE low'[j] = low[j]
        <5>1. Cardinality(Executors(low[j])) > F
          BY <3>3, <4>1 DEF CheckpointInv, WatermarksAreExecuted
        <5>2. Cardinality(Executors(low[j])') > F
          <6> DEFINE n == low[j]
          <6>1. n \in Seqs /\ Executors(n) \in SUBSET Executors(n)'
            BY <1>1, <3>3, <4>1
          <6> QED
            BY <1>2, <3>3, <4>1, <5>1, <6>1 DEF Executors
        <5> QED
          BY <5>2
      <4>2. CASE low'[j] # low[j]
        BY <3>1, <3>2, <4>2
      <4> QED
        BY <4>1, <4>2
    <3> QED
      BY <3>3 DEF WatermarksAreExecuted
  <2> QED
    BY <1>3, <2>6, <2>7 DEF CheckpointInv
<1> QED
  BY <1>4, <1>5 DEF CheckpointStep

-----------------------------------------------------------------------------
(* Every step of the protocol is a checkpoint step.                         *)

NoVoteAdded(msgs) == \A m \in msgs : m \in net \/ m.type # "CHECKPOINT"

\* A step that leaves checkpoints alone.
LEMMA OtherStep ==
    ASSUME UNCHANGED <<checkpoints, low>>, NoVoteAdded(net')
    PROVE  CheckpointStep
BY DEF CheckpointStep, NoVoteAdded, NewVotesAreExecuted

\* The node that reaches a checkpoint has executed its number.
LEMMA CommitCounts ==
    ASSUME TypeOK, NEW i \in Correct, NEW s \in Seqs, NEW r \in RequestStates,
           NEW msgs, NoVoteAdded(msgs), CheckCommitQuorum(i, s, r, msgs)
    PROVE  CheckpointStep
<1>1. CASE CommitQuorum(r) /\ s % Interval = 0
  <2> DEFINE r2  == [r EXCEPT !.decided = TRUE, !.phase = "executed"]
             bal == BalanceAfter(i, r.tx)
  <2>1. /\ requests' = [requests EXCEPT ![i][s] = r2]
        /\ TriggerCheckpoint(i, s, bal, msgs)
    BY <1>1 DEF CheckCommitQuorum
  <2>2. r2 \in RequestStates /\ r2.decided
    BY DEF RequestStates
  <2>3. Decided(i, s)'
    <3>1. requests'[i][s] = r2
      BY <2>1 DEF TypeOK, Correct
    <3> QED
      BY <2>2, <3>1, DataAssumption DEF Decided, Known
  <2> HIDE DEF r2, bal
  <2>4. NewVotesAreExecuted
    BY <2>1, <2>3
    DEF TriggerCheckpoint, BroadcastCheckpoint, NoVoteAdded, NewVotesAreExecuted
  <2>5. Counted
    <3>1. RecordCheckpointVote(i, s, [digestOf |-> bal], i, bal) /\ i \in Sites
      BY <2>1 DEF TriggerCheckpoint, Correct
    <3> QED
      BY <2>3, <3>1 DEF Counted, Heard
  <2> QED
    BY <2>4, <2>5 DEF CheckpointStep
<1>2. CASE ~(CommitQuorum(r) /\ s % Interval = 0)
  BY <1>2, OtherStep DEF CheckCommitQuorum, checkpointVars
<1> QED
  BY <1>1, <1>2

LEMMA PrepareCounts ==
    ASSUME TypeOK, NEW i \in Correct, NEW s \in Seqs, NEW r \in RequestStates,
           NEW msgs, NoVoteAdded(msgs), CheckPrepareQuorum(i, s, r, msgs)
    PROVE  CheckpointStep
<1>1. CASE PrepareQuorum(r)
  <2> DEFINE r1    == [r EXCEPT !.commits = @ \cup {i}, !.phase = "commit"]
             msgs1 == msgs \cup Broadcast("COMMIT", i, s, r.digest)
  <2>1. r1 \in RequestStates
    BY DEF RequestStates, Correct
  <2>2. NoVoteAdded(msgs1)
    BY DEF NoVoteAdded, Broadcast
  <2>3. CheckCommitQuorum(i, s, r1, msgs1)
    BY <1>1 DEF CheckPrepareQuorum, SendCommit
  <2> QED
    BY <2>1, <2>2, <2>3, CommitCounts
<1>2. CASE ~PrepareQuorum(r)
  BY <1>2, OtherStep DEF CheckPrepareQuorum, checkpointVars
<1> QED
  BY <1>1, <1>2

LEMMA OwnPrepareCounts ==
    ASSUME TypeOK, NEW i \in Correct, NEW s \in Seqs, NEW r \in RequestStates,
           NEW msgs, NoVoteAdded(msgs), RecordOwnPrepare(i, s, r, msgs)
    PROVE  CheckpointStep
<1>1. [r EXCEPT !.prepares = @ \cup {i}, !.phase = "prepare"] \in RequestStates
  BY DEF RequestStates, Correct
<1> QED
  BY <1>1, PrepareCounts DEF RecordOwnPrepare

\* A proposal adds no checkpoint vote.
LEMMA ProposalCounts ==
    ASSUME NEW i, NEW tx, NEW phase, Propose(i, tx, phase), NEW old, NoVoteAdded(old),
           NEW s, net' = old \cup ProposalMessages(i, s, tx)
    PROVE  CheckpointStep
<1>1. NoVoteAdded(net')
  BY DEF NoVoteAdded, ProposalMessages, BroadcastPrePrepare, Broadcast
<1> QED
  BY <1>1, OtherStep DEF Propose, checkpointVars

\* Taking a message whose vote, if it has one, is for an executed number.
LEMMA HandleMessageCounts ==
    ASSUME TypeOK, DecisionsStay, NEW i \in Correct, NEW m \in Messages,
           m.type = "CHECKPOINT" /\ m.sender \in Correct => Decided(m.sender, m.seq),
           m.sender \in Faulty \/ (m \in net /\ m.dst = i /\ Deliverable(m)),
           HandleMessage(i, m)
    PROVE  CheckpointStep
<1> USE MessageFields
<1>1. ASSUME Ignore(m)
      PROVE  CheckpointStep
  BY <1>1, OtherStep DEF Ignore, checkpointVars, NoVoteAdded
<1>2. CASE HandlePrePrepare(i, m)
  <2>1. CASE AcceptPrePrepare(i, m)
    <3>1. NewRequest(m.request, m.digest, {}) \in RequestStates /\ m.seq \in Seqs
      BY <1>2 DEF HandlePrePrepare, NewRequest, RequestStates
    <3>2. NoVoteAdded((net \ {m}) \cup Broadcast("PREPARE", i, m.seq, m.digest))
      BY DEF NoVoteAdded, Broadcast
    <3> QED
      BY <2>1, <3>1, <3>2, OwnPrepareCounts DEF AcceptPrePrepare
  <2>2. CASE DetectEquivocation(i, m)
    BY <2>2, OtherStep DEF DetectEquivocation, checkpointVars, NoVoteAdded
  <2> QED
    BY <1>1, <1>2, <2>1, <2>2 DEF HandlePrePrepare
<1>3. CASE HandlePrepare(i, m)
  <2> DEFINE r == requests[i][m.seq]
  <2>1. CASE MatchingVote(i, m) /\ m.sender \notin r.prepares
    <3>1. r \in RequestStates /\ m.seq \in Seqs /\ m.sender \in Sites
      BY <1>3, <2>1 DEF HandlePrepare, MatchingVote, Known, TypeOK, Correct
    <3>2. [r EXCEPT !.prepares = @ \cup {m.sender}] \in RequestStates
      BY <3>1 DEF RequestStates
    <3>3. NoVoteAdded(net \ {m})
      BY DEF NoVoteAdded
    <3> QED
      BY <1>3, <2>1, <3>1, <3>2, <3>3, PrepareCounts DEF HandlePrepare
  <2> QED
    BY <1>1, <1>3, <2>1 DEF HandlePrepare
<1>4. CASE HandleCommit(i, m)
  <2> DEFINE r == requests[i][m.seq]
  <2>1. CASE MatchingVote(i, m) /\ m.sender \notin r.commits
    <3>1. r \in RequestStates /\ m.seq \in Seqs /\ m.sender \in Sites
      BY <1>4, <2>1 DEF HandleCommit, MatchingVote, Known, TypeOK, Correct
    <3>2. [r EXCEPT !.commits = @ \cup {m.sender}] \in RequestStates
      BY <3>1 DEF RequestStates
    <3>3. NoVoteAdded(net \ {m})
      BY DEF NoVoteAdded
    <3> QED
      BY <1>4, <2>1, <3>1, <3>2, <3>3, CommitCounts DEF HandleCommit
  <2> QED
    BY <1>1, <1>4, <2>1 DEF HandleCommit
<1>5. CASE HandleCheckpoint(i, m)
  <2>1. /\ RecordCheckpointVote(i, m.seq, m.digest, m.sender, balance[i])
        /\ net' = net \ {m}
        /\ m.type = "CHECKPOINT" /\ m.seq \in Seqs /\ m.sender \in Sites
    BY <1>5 DEF HandleCheckpoint
  <2>2. m.sender \in Correct => Decided(m.sender, m.seq)'
    BY <2>1 DEF DecisionsStay
  <2>3. Heard(i, m.seq, m.sender)
    BY <2>1 DEF Heard
  <2>4. Counted
    BY <2>1, <2>2, <2>3 DEF Counted
  <2> QED
    BY <2>1, <2>4 DEF CheckpointStep, NewVotesAreExecuted
<1>6. CASE HandleClientRequest(i, m)
  <2>0. NoVoteAdded(net \ {m})
    BY DEF NoVoteAdded
  <2>1. CASE ProposeClientRequest(i, m)
    BY <2>0, <2>1, ProposalCounts DEF ProposeClientRequest
  <2>2. CASE ReplyFromCache(i, m)
    BY <2>0, <2>2, OtherStep DEF ReplyFromCache, checkpointVars
  <2>3. CASE Redirect(i, m)
    <3>1. m.type = "CLIENT_REQUEST" /\ "type" \in DOMAIN m
      BY <1>6 DEF HandleClientRequest, Messages
    <3>2. [m EXCEPT !.dst = get_leader(view[i])].type # "CHECKPOINT"
      BY <3>1
    <3>3. NoVoteAdded(net')
      BY <2>3, <3>2 DEF Redirect, NoVoteAdded
    <3> QED
      BY <2>3, <3>3, OtherStep DEF Redirect, checkpointVars
  <2> QED
    BY <1>1, <1>6, <2>1, <2>2, <2>3 DEF HandleClientRequest, RejectAboveWatermark
<1> QED
  BY <1>2, <1>3, <1>4, <1>5, <1>6 DEF HandleMessage

LEMMA StepCounts == IInv /\ CheckpointInv /\ [Next]_vars => CheckpointStep
<1> SUFFICES ASSUME IInv, CheckpointInv, [Next]_vars
             PROVE  CheckpointStep
  OBVIOUS
<1>0. TypeOK /\ DecisionsStay /\ CheckpointsInFlight /\ NoVoteAdded(net)
  BY StepDecisionsStay DEF IInv, CheckpointInv, NoVoteAdded
<1>1. CASE UNCHANGED vars
  BY <1>0, <1>1, OtherStep DEF vars
<1>2. ASSUME NEW q \in Requests, NEW d \in Sites, SendRequest(q, d)
      PROVE  CheckpointStep
  BY <1>2, OtherStep DEF SendRequest, checkpointVars, NoVoteAdded
<1>3. ASSUME NEW i \in Correct, ProcessMessage(i)
      PROVE  CheckpointStep
  BY <1>0, <1>3, HandleMessageCounts DEF ProcessMessage, TypeOK, CheckpointsInFlight
<1>4. ASSUME NEW i \in Correct, ProcessFaultyMessage(i)
      PROVE  CheckpointStep
  <2>1. PICK m \in FaultyMessages(i) : HandleMessage(i, m)
    BY <1>4 DEF ProcessFaultyMessage
  <2>2. m.sender \in Faulty /\ m.sender \notin Correct
    BY DEF FaultyMessages, Correct
  <2> QED
    BY <1>0, <2>1, <2>2, FaultyMessagesType, HandleMessageCounts
<1>5. ASSUME NEW i \in Correct, NEW q \in Demo, SubmitRequest(i, q)
      PROVE  CheckpointStep
  BY <1>0, <1>5, ProposalCounts DEF SubmitRequest
<1>6. ASSUME NEW i \in Correct, FinishSendPrepare(i)
      PROVE  CheckpointStep
  <2>1. PICK s \in sending[i] : RecordOwnPrepare(i, s, requests[i][s], net)
    BY <1>6 DEF FinishSendPrepare
  <2>2. s \in Seqs /\ requests[i][s] \in RequestStates
    BY DEF Correct, IInv, TypeOK, SendingIsKnown, Known
  <2> QED
    BY <1>0, <2>1, <2>2, OwnPrepareCounts
<1>7. Next => CheckpointStep
  BY <1>2, <1>3, <1>4, <1>5, <1>6, DataAssumption DEF Next
<1> QED
  BY <1>1, <1>7

-----------------------------------------------------------------------------
\* No node has executed or counted anything, and 0 is not a sequence number.
LEMMA InitCheckpointInv == Init => CheckpointInv
BY DEF Init, CheckpointInv, CheckpointsInFlight, CheckpointsCounted,
       WatermarksAreExecuted, Seqs, Correct

\* A watermark never moves past what F + 1 correct nodes have executed, whatever
\* the faulty nodes vote (handle_checkpoint).
THEOREM StableIsExecutedHolds == Spec => []StableIsExecuted
<1>1. IInv /\ IInv' /\ CheckpointInv /\ [Next]_vars => CheckpointInv'
  BY StepDecisionsStay, StepCounts, CheckpointStepKeeps DEF IInv
<1>2. CheckpointInv => StableIsExecuted
  BY DEF CheckpointInv, WatermarksAreExecuted, StableIsExecuted, Executors
<1> QED
  BY <1>1, <1>2, InitCheckpointInv, Invariance, PTL DEF Spec

-----------------------------------------------------------------------------
(* The leader and its window *)

WithinWindow ==
    \A i \in Correct : low[i] \in 0 .. MaxSeq /\ lastSeq[i] <= low[i] + Window

\* Numbers are only given out below the high watermark.
LeadStep == lastSeq' = lastSeq \/ \E i \in Correct : \E tx, phase : Propose(i, tx, phase)

LEMMA StepLeads == [Next]_vars => LeadStep
<1> SUFFICES ASSUME [Next]_vars
             PROVE  LeadStep
  OBVIOUS
<1>1. ASSUME NEW i \in Correct, NEW m, HandleMessage(i, m)
      PROVE  LeadStep
  <2>1. CASE HandlePrePrepare(i, m)
    BY <2>1 DEF HandlePrePrepare, AcceptPrePrepare, DetectEquivocation, Ignore,
                protocolVars, LeadStep
  <2>2. CASE HandlePrepare(i, m) \/ HandleCommit(i, m) \/ HandleCheckpoint(i, m)
    BY <2>2 DEF HandlePrepare, HandleCommit, HandleCheckpoint, Ignore,
                protocolVars, LeadStep
  <2>3. CASE HandleClientRequest(i, m)
    BY <2>3 DEF HandleClientRequest, ProposeClientRequest, RejectAboveWatermark,
                ReplyFromCache, Redirect, Ignore, protocolVars, LeadStep
  <2> QED
    BY <1>1, <2>1, <2>2, <2>3 DEF HandleMessage
<1>2. ASSUME NEW q \in Requests, NEW d \in Sites, SendRequest(q, d)
      PROVE  LeadStep
  BY <1>2 DEF SendRequest, protocolVars, LeadStep
<1>3. ASSUME NEW i \in Correct, ProcessMessage(i) \/ ProcessFaultyMessage(i)
      PROVE  LeadStep
  BY <1>1, <1>3 DEF ProcessMessage, ProcessFaultyMessage
<1>4. ASSUME NEW i \in Correct, NEW q \in Demo, SubmitRequest(i, q)
      PROVE  LeadStep
  BY <1>4 DEF SubmitRequest, LeadStep
<1>5. ASSUME NEW i \in Correct, FinishSendPrepare(i)
      PROVE  LeadStep
  BY <1>5 DEF FinishSendPrepare, LeadStep
<1>6. CASE UNCHANGED vars
  BY <1>6 DEF vars, LeadStep
<1> QED
  BY <1>2, <1>3, <1>4, <1>5, <1>6 DEF Next

LEMMA LeadStepKeeps ==
    ASSUME TypeOK, WithinWindow, LeadStep, CheckpointStep
    PROVE  WithinWindow'
<1>1. /\ low \in [Sites -> Int] /\ lastSeq \in [Sites -> Int]
      /\ Window \in Nat /\ MaxSeq \in Nat /\ Correct \subseteq Sites
  BY DataAssumption DEF TypeOK, Correct
<1>2. CASE lastSeq' = lastSeq
  <2>1. \A j \in Correct : low'[j] = low[j] \/ (low'[j] \in Seqs /\ low'[j] >= low[j])
    <3>1. CASE Counted
      <4>1. PICK i \in Correct, s \in Seqs, sender \in Sites : \E digest, bal :
               RecordCheckpointVote(i, s, digest, sender, bal)
        BY <3>1 DEF Counted
      <4>2. low' = low \/ low' = [low EXCEPT ![i] = Bigger(low[i], s)]
        BY <4>1 DEF RecordCheckpointVote
      <4>3. s \in Int
        BY <1>1 DEF Seqs
      <4> QED
        BY <1>1, <4>2, <4>3 DEF Bigger
    <3> QED
      BY <3>1 DEF CheckpointStep
  <2> QED
    BY <1>1, <1>2, <2>1 DEF WithinWindow, Seqs
<1>3. CASE \E i \in Correct : \E tx, phase : Propose(i, tx, phase)
  <2>1. PICK i \in Correct : /\ lastSeq[i] < low[i] + Window
                             /\ lastSeq' = [lastSeq EXCEPT ![i] = lastSeq[i] + 1]
                             /\ low' = low
    BY <1>3 DEF Propose, BelowHighWatermark, checkpointVars
  <2> QED
    BY <1>1, <2>1 DEF WithinWindow
<1> QED
  BY <1>2, <1>3 DEF LeadStep

\* What lies more than a window behind the leader's last number is executed by
\* F + 1 correct nodes: the window follows the watermark, and the watermark what
\* is executed (SequenceManager).
THEOREM WindowIsExecutedHolds == Spec => []WindowIsExecuted
<1>1. Init => WithinWindow
  BY DataAssumption DEF Init, WithinWindow, Correct
<1>2. IInv /\ IInv' /\ CheckpointInv /\ WithinWindow /\ [Next]_vars
          => CheckpointInv' /\ WithinWindow'
  BY StepDecisionsStay, StepCounts, CheckpointStepKeeps, StepLeads, LeadStepKeeps
  DEF IInv
<1>3. IInv /\ CheckpointInv /\ WithinWindow => WindowIsExecuted
  <2> SUFFICES ASSUME IInv, CheckpointInv, WithinWindow,
                      NEW i \in Correct, lastSeq[i] > Window
               PROVE  \E s \in Seqs : /\ s >= lastSeq[i] - Window
                                     /\ Cardinality({j \in Correct : Decided(j, s)}) > F
    BY DEF WindowIsExecuted
  <2>1. lastSeq[i] \in Int /\ Window \in Nat /\ MaxSeq \in Nat
    BY DataAssumption DEF IInv, TypeOK, Correct
  <2>2. low[i] \in Seqs /\ low[i] >= lastSeq[i] - Window
    BY <2>1 DEF WithinWindow, Seqs
  <2> QED
    BY <2>2 DEF CheckpointInv, WatermarksAreExecuted, Executors
<1> QED
  BY <1>1, <1>2, <1>3, InitCheckpointInv, Invariance, PTL DEF Spec
=============================================================================
