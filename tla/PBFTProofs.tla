----------------------------- MODULE PBFTProofs -----------------------------
(***************************************************************************)
(* Proofs about PBFT for every number of tolerated faults, every set of    *)
(* requests and every bound: type correctness, Agreement, DecidedIsPrepared*)
(* and the implementation of ReplicatedLog.                                *)
(***************************************************************************)
EXTENDS PBFT, FiniteSetTheorems, TLAPS

-----------------------------------------------------------------------------
(* Type correctness *)

\* A message of a given type has the fields of its type.
LEMMA MessageFields ==
    ASSUME NEW m \in Messages
    PROVE  /\ m.dst \in Sites
           /\ m.type = "PRE_PREPARE" =>
                 /\ m.sender \in Sites /\ m.seq \in Seqs
                 /\ m.digest \in Digests /\ m.request \in Txs
           /\ m.type \in {"PREPARE", "COMMIT"} =>
                 m.sender \in Sites /\ m.seq \in Seqs /\ m.digest \in Digests
           /\ m.type = "CHECKPOINT" =>
                 m.sender \in Sites /\ m.seq \in Seqs /\ m.digest \in StateDigests
           /\ m.type = "CLIENT_REQUEST" => m.req \in Requests
BY DEF Messages

\* The messages of faulty nodes are messages.
LEMMA FaultyMessagesType ==
    ASSUME TypeOK, NEW i \in Correct, NEW m \in FaultyMessages(i)
    PROVE  m \in Messages
<1>1. \A tx \in FaultyTxs : tx \in Txs /\ hash_message(tx) \in Digests
  BY DataAssumption DEF hash_message, Digests
<1>2. \A b \in FaultyStates : [digestOf |-> b] \in StateDigests
  BY DataAssumption DEF StateDigests
<1>3. view[i] \in Int /\ i \in Sites /\ Faulty \subseteq Sites
  BY FaultAssumption DEF TypeOK, Correct
<1>4. CASE m.type = "PRE_PREPARE"
  BY <1>1, <1>3, <1>4 DEF FaultyMessages, Messages
<1>5. CASE m.type \in {"PREPARE", "COMMIT"}
  BY <1>1, <1>3, <1>5 DEF FaultyMessages, Messages
<1>6. CASE m.type = "CHECKPOINT"
  BY <1>2, <1>3, <1>6 DEF FaultyMessages, Messages
<1> QED
  BY <1>4, <1>5, <1>6 DEF FaultyMessages

\* What the nodes broadcast are messages.
LEMMA BroadcastType ==
    ASSUME TypeOK, NEW i \in Sites, NEW s \in Seqs
    PROVE  /\ \A type \in {"PREPARE", "COMMIT"}, digest \in Digests :
                 Broadcast(type, i, s, digest) \subseteq Messages
           /\ \A digest \in StateDigests :
                 BroadcastCheckpoint(i, s, digest) \subseteq Messages
           /\ \A tx \in Txs : BroadcastPrePrepare(i, s, tx) \subseteq Messages
<1>1. Peers(i) \subseteq Sites /\ view[i] \in Int
  BY DEF Peers, Correct, TypeOK
<1>2. ASSUME NEW tx \in Txs, NEW d
      PROVE  /\ ProposalFor(i, d, tx) \in Txs
             /\ hash_message(ProposalFor(i, d, tx)) \in Digests
  BY DEF ProposalFor, Txs, hash_message, Digests
<1>3. \A type \in {"PREPARE", "COMMIT"}, digest \in Digests :
          Broadcast(type, i, s, digest) \subseteq Messages
  BY <1>1 DEF Broadcast, Messages
<1>4. \A digest \in StateDigests : BroadcastCheckpoint(i, s, digest) \subseteq Messages
  BY <1>1 DEF BroadcastCheckpoint, Messages
<1>5. \A tx \in Txs : BroadcastPrePrepare(i, s, tx) \subseteq Messages
  BY <1>1, <1>2 DEF BroadcastPrePrepare, Messages
<1> QED
  BY <1>3, <1>4, <1>5

CheckpointTypes ==
    /\ checkpoints \in [Sites ->
          SUBSET [seq: Seqs, digest: StateDigests, sender: Sites]]
    /\ stable \in [Sites -> [seq: Int, balances: Balances]]
    /\ low \in [Sites -> Int]

ExecutionTypes ==
    /\ lastExec \in [Sites -> Int]
    /\ hasPending \in [Sites -> BOOLEAN]
    /\ conns \in [Sites -> [Seqs -> Requests \cup {NoSocket}]]
    /\ cached \in [Sites -> SUBSET Requests]
    /\ balance \in [Sites -> Balances]
    /\ ledger \in [Sites -> SUBSET Txs]
    /\ success \in SUBSET Requests

\* Counting a checkpoint vote keeps the checkpoint variables well typed.
LEMMA RecordCheckpointVoteType ==
    ASSUME CheckpointTypes, NEW i \in Sites, NEW s \in Seqs,
           NEW digest \in StateDigests, NEW sender \in Sites, NEW bal \in Balances,
           RecordCheckpointVote(i, s, digest, sender, bal)
    PROVE  CheckpointTypes'
<1> DEFINE votes == checkpoints[i] \cup
                      {[seq |-> s, digest |-> digest, sender |-> sender]}
<1>1. votes \in SUBSET [seq: Seqs, digest: StateDigests, sender: Sites]
  BY DEF CheckpointTypes
<1>2. checkpoints' = [checkpoints EXCEPT ![i] = votes]
  BY DEF RecordCheckpointVote
<1>3. checkpoints' \in [Sites ->
          SUBSET [seq: Seqs, digest: StateDigests, sender: Sites]]
  BY <1>1, <1>2 DEF CheckpointTypes
<1>4. stable' \in [Sites -> [seq: Int, balances: Balances]]
  BY DEF CheckpointTypes, RecordCheckpointVote, Seqs
<1>5. low' \in [Sites -> Int]
  BY DEF CheckpointTypes, RecordCheckpointVote, Bigger, Seqs
<1> QED
  BY <1>3, <1>4, <1>5 DEF CheckpointTypes

\* Transfers keep balances total.
LEMMA BalanceAfterType ==
    ASSUME ExecutionTypes, NEW i \in Sites, NEW tx \in Txs
    PROVE  BalanceAfter(i, tx) \in Balances
<1>1. balance[i] \in Balances
  BY DEF ExecutionTypes
<1>2. CASE Succeeds(balance[i], tx)
  <2>1. Op[tx.req] \in Transfers
    BY <1>2, DataAssumption DEF Succeeds, Txs
  <2> DEFINE o == Op[tx.req]
  <2>2. o.src \in Accounts /\ o.dst \in Accounts /\ o.amount \in Int
    BY <2>1 DEF Transfers
  <2>3. Transferred(balance[i], o) \in Balances
    BY <1>1, <2>2 DEF Transferred, Balances
  <2> QED
    BY <1>2, <2>3 DEF BalanceAfter
<1>3. CASE ~Succeeds(balance[i], tx)
  BY <1>1, <1>3 DEF BalanceAfter
<1> QED
  BY <1>2, <1>3

\* Execution keeps the execution variables well typed.
LEMMA ExecuteRequestType ==
    ASSUME ExecutionTypes, NEW i \in Sites, NEW s \in Seqs, NEW tx \in Txs,
           ExecuteRequest(i, s, tx)
    PROVE  ExecutionTypes'
<1>1. balance' \in [Sites -> Balances]
  BY BalanceAfterType DEF ExecutionTypes, ExecuteRequest
<1>2. ledger' \in [Sites -> SUBSET Txs]
  <2>1. LedgerAfter(i, tx) \in SUBSET Txs
    BY DEF LedgerAfter, ExecutionTypes
  <2> QED
    BY <2>1 DEF ExecutionTypes, ExecuteRequest
<1>3. cached' \in [Sites -> SUBSET Requests]
  <2>1. AnsweredFromNow(tx) \in SUBSET Requests
    BY DEF AnsweredFromNow
  <2> QED
    BY <2>1 DEF ExecutionTypes, ExecuteRequest
<1>4. conns' \in [Sites -> [Seqs -> Requests \cup {NoSocket}]]
  BY DEF ExecutionTypes, ExecuteRequest
<1>5. success' \in SUBSET Requests
  BY DEF ExecutionTypes, ExecuteRequest
<1>6. lastExec' \in [Sites -> Int] /\ hasPending' \in [Sites -> BOOLEAN]
  BY DEF ExecutionTypes, ExecuteRequest, Bigger, Seqs
<1> QED
  BY <1>1, <1>2, <1>3, <1>4, <1>5, <1>6 DEF ExecutionTypes

CascadeTypes ==
    /\ net \in SUBSET Messages
    /\ requests \in [Sites -> [Seqs -> RequestStates \cup {NoRequest}]]
    /\ ExecutionTypes
    /\ CheckpointTypes

\* A vote in a commit set may decide the request, and everything that follows
\* from the decision keeps its type.
LEMMA CheckCommitQuorumType ==
    ASSUME TypeOK, NEW i \in Sites, NEW s \in Seqs, NEW r \in RequestStates,
           NEW msgs \in SUBSET Messages, CheckCommitQuorum(i, s, r, msgs)
    PROVE  CascadeTypes'
<1>0. ExecutionTypes /\ CheckpointTypes
  BY DEF TypeOK, ExecutionTypes, CheckpointTypes
<1>1. CASE CommitQuorum(r)
  <2> DEFINE r2 == [r EXCEPT !.decided = TRUE, !.phase = "executed"]
             bal == BalanceAfter(i, r.tx)
  <2>1. r2 \in RequestStates /\ r.tx \in Txs
    BY DEF RequestStates
  <2>2. requests' = [requests EXCEPT ![i][s] = r2] /\ ExecuteRequest(i, s, r.tx)
    BY <1>1 DEF CheckCommitQuorum
  <2>3. requests' \in [Sites -> [Seqs -> RequestStates \cup {NoRequest}]]
    BY <2>1, <2>2 DEF TypeOK
  <2>4. ExecutionTypes'
    BY <1>0, <2>1, <2>2, ExecuteRequestType
  <2>5. bal \in Balances /\ [digestOf |-> bal] \in StateDigests
    BY <1>0, <2>1, BalanceAfterType DEF StateDigests
  <2>6. CASE s % Interval = 0
    <3>1. TriggerCheckpoint(i, s, bal, msgs)
      BY <1>1, <2>6 DEF CheckCommitQuorum
    <3>2. CheckpointTypes'
      BY <1>0, <2>5, <3>1, RecordCheckpointVoteType DEF TriggerCheckpoint
    <3>3. net' \in SUBSET Messages
      BY <2>5, <3>1, BroadcastType DEF TriggerCheckpoint
    <3> QED
      BY <2>3, <2>4, <3>2, <3>3 DEF CascadeTypes
  <2>7. CASE s % Interval # 0
    <3>1. net' = msgs /\ UNCHANGED checkpointVars
      BY <1>1, <2>7 DEF CheckCommitQuorum
    <3> QED
      BY <1>0, <2>3, <2>4, <3>1 DEF CascadeTypes, CheckpointTypes, checkpointVars
  <2> QED
    BY <2>6, <2>7
<1>2. CASE ~CommitQuorum(r)
  <2>1. /\ requests' = [requests EXCEPT ![i][s] = r]
        /\ net' = msgs
        /\ UNCHANGED <<executionVars, checkpointVars>>
    BY <1>2 DEF CheckCommitQuorum
  <2>2. requests' \in [Sites -> [Seqs -> RequestStates \cup {NoRequest}]]
    BY <2>1 DEF TypeOK
  <2>3. ExecutionTypes' /\ CheckpointTypes'
    BY <1>0, <2>1 DEF ExecutionTypes, CheckpointTypes, executionVars, checkpointVars
  <2> QED
    BY <2>1, <2>2, <2>3 DEF CascadeTypes
<1> QED
  BY <1>1, <1>2

\* The same for a vote in a prepare set.
LEMMA CheckPrepareQuorumType ==
    ASSUME TypeOK, NEW i \in Sites, NEW s \in Seqs, NEW r \in RequestStates,
           NEW msgs \in SUBSET Messages, CheckPrepareQuorum(i, s, r, msgs)
    PROVE  CascadeTypes'
<1>1. CASE PrepareQuorum(r)
  <2> DEFINE r2 == [r EXCEPT !.commits = @ \cup {i}, !.phase = "commit"]
             msgs2 == msgs \cup Broadcast("COMMIT", i, s, r.digest)
  <2>1. r2 \in RequestStates /\ r.digest \in Digests
    BY DEF RequestStates
  <2>2. msgs2 \in SUBSET Messages
    BY <2>1, BroadcastType
  <2>3. CheckCommitQuorum(i, s, r2, msgs2)
    BY <1>1 DEF CheckPrepareQuorum, SendCommit
  <2> QED
    BY <2>1, <2>2, <2>3, CheckCommitQuorumType
<1>2. CASE ~PrepareQuorum(r)
  <2>1. /\ requests' = [requests EXCEPT ![i][s] = r]
        /\ net' = msgs
        /\ UNCHANGED <<executionVars, checkpointVars>>
    BY <1>2 DEF CheckPrepareQuorum
  <2>2. requests' \in [Sites -> [Seqs -> RequestStates \cup {NoRequest}]]
    BY <2>1 DEF TypeOK
  <2>3. ExecutionTypes' /\ CheckpointTypes'
    BY <2>1 DEF TypeOK, ExecutionTypes, CheckpointTypes, executionVars, checkpointVars
  <2> QED
    BY <2>1, <2>2, <2>3 DEF CascadeTypes
<1> QED
  BY <1>1, <1>2

\* ... and for a node's own vote.
LEMMA RecordOwnPrepareType ==
    ASSUME TypeOK, NEW i \in Sites, NEW s \in Seqs, NEW r \in RequestStates,
           NEW msgs \in SUBSET Messages, RecordOwnPrepare(i, s, r, msgs)
    PROVE  CascadeTypes'
<1> DEFINE r2 == [r EXCEPT !.prepares = @ \cup {i}, !.phase = "prepare"]
<1>1. r2 \in RequestStates
  BY DEF RequestStates
<1>2. CheckPrepareQuorum(i, s, r2, msgs)
  BY DEF RecordOwnPrepare
<1> QED
  BY <1>1, <1>2, CheckPrepareQuorumType

\* A handler of a message keeps every variable well typed.
LEMMA HandleMessageType ==
    ASSUME TypeOK, NEW i \in Correct, NEW m \in Messages, HandleMessage(i, m)
    PROVE  TypeOK'
<1> USE MessageFields
<1>0. i \in Sites /\ net \ {m} \in SUBSET Messages
  BY DEF Correct, TypeOK
<1>1. ASSUME CascadeTypes', UNCHANGED <<attempts, protocolVars>>
      PROVE  TypeOK'
  BY <1>1 DEF TypeOK, CascadeTypes, ExecutionTypes, CheckpointTypes, protocolVars
<1>2. ASSUME Ignore(m)
      PROVE  TypeOK'
  BY <1>0, <1>2 DEF TypeOK, Ignore, protocolVars, executionVars, checkpointVars
<1>3. CASE HandlePrePrepare(i, m)
  <2>0. m.seq \in Seqs /\ m.digest \in Digests /\ m.request \in Txs
    BY <1>3 DEF HandlePrePrepare
  <2>1. CASE AcceptPrePrepare(i, m)
    <3>1. NewRequest(m.request, m.digest, {}) \in RequestStates
      BY <2>0 DEF NewRequest, RequestStates
    <3>2. (net \ {m}) \cup Broadcast("PREPARE", i, m.seq, m.digest) \in SUBSET Messages
      BY <1>0, <2>0, BroadcastType
    <3> QED
      BY <1>0, <1>1, <2>0, <2>1, <3>1, <3>2, RecordOwnPrepareType DEF AcceptPrePrepare
  <2>2. CASE DetectEquivocation(i, m)
    BY <1>0, <2>2 DEF TypeOK, DetectEquivocation, executionVars, checkpointVars
  <2> QED
    BY <1>2, <1>3, <2>1, <2>2 DEF HandlePrePrepare
<1>4. CASE HandlePrepare(i, m)
  <2> DEFINE r == requests[i][m.seq]
             r2 == [r EXCEPT !.prepares = @ \cup {m.sender}]
  <2>0. m.seq \in Seqs /\ m.sender \in Sites
    BY <1>4 DEF HandlePrepare
  <2>1. CASE MatchingVote(i, m) /\ m.sender \notin r.prepares
    <3>1. r \in RequestStates
      BY <1>0, <2>0, <2>1 DEF TypeOK, MatchingVote, Known
    <3>2. r2 \in RequestStates
      BY <2>0, <3>1 DEF RequestStates
    <3>3. CheckPrepareQuorum(i, m.seq, r2, net \ {m}) /\ UNCHANGED <<attempts, protocolVars>>
      BY <1>4, <2>1 DEF HandlePrepare
    <3> HIDE DEF r2
    <3> QED
      BY <1>0, <1>1, <2>0, <3>2, <3>3, CheckPrepareQuorumType
  <2> QED
    BY <1>2, <1>4, <2>1 DEF HandlePrepare
<1>5. CASE HandleCommit(i, m)
  <2> DEFINE r == requests[i][m.seq]
             r2 == [r EXCEPT !.commits = @ \cup {m.sender}]
  <2>0. m.seq \in Seqs /\ m.sender \in Sites
    BY <1>5 DEF HandleCommit
  <2>1. CASE MatchingVote(i, m) /\ m.sender \notin r.commits
    <3>1. r \in RequestStates
      BY <1>0, <2>0, <2>1 DEF TypeOK, MatchingVote, Known
    <3>2. r2 \in RequestStates
      BY <2>0, <3>1 DEF RequestStates
    <3>3. CheckCommitQuorum(i, m.seq, r2, net \ {m}) /\ UNCHANGED <<attempts, protocolVars>>
      BY <1>5, <2>1 DEF HandleCommit
    <3> HIDE DEF r2
    <3> QED
      BY <1>0, <1>1, <2>0, <3>2, <3>3, CheckCommitQuorumType
  <2> QED
    BY <1>2, <1>5, <2>1 DEF HandleCommit
<1>6. CASE HandleCheckpoint(i, m)
  <2>0. m.seq \in Seqs /\ m.sender \in Sites /\ m.digest \in StateDigests
    BY <1>6 DEF HandleCheckpoint
  <2>1. CheckpointTypes /\ balance[i] \in Balances
    BY <1>0 DEF TypeOK, CheckpointTypes
  <2>2. CheckpointTypes'
    BY <1>0, <1>6, <2>0, <2>1, RecordCheckpointVoteType DEF HandleCheckpoint
  <2> QED
    BY <1>0, <1>6, <2>2
    DEF HandleCheckpoint, TypeOK, CheckpointTypes, executionVars, protocolVars
<1>7. CASE HandleClientRequest(i, m)
  <2>0. m.req \in Requests
    BY <1>7 DEF HandleClientRequest
  <2>1. CASE ProposeClientRequest(i, m)
    <3> DEFINE s  == lastSeq[i] + 1
               tx == [req |-> m.req, id |-> s, fake |-> FALSE]
               r  == [NewRequest(tx, hash_message(tx), {i}) EXCEPT !.phase = "prepare"]
    <3>1. /\ s \in Seqs
          /\ lastSeq' = [lastSeq EXCEPT ![i] = s]
          /\ requests' = [requests EXCEPT ![i][s] = r]
          /\ net' = (net \ {m}) \cup ProposalMessages(i, s, tx)
          /\ conns' = [conns EXCEPT ![i][s] = m.req]
          /\ hasPending' = [hasPending EXCEPT ![i] = TRUE]
          /\ UNCHANGED <<view, viewChangeSent, lastExec, cached, balance, ledger,
                         success, checkpointVars, sending, attempts>>
      BY <2>1 DEF ProposeClientRequest, Propose
    <3>2. tx \in Txs /\ hash_message(tx) \in Digests
      BY <2>0, <3>1, DataAssumption DEF Txs, hash_message, Digests
    <3>3. r \in RequestStates
      BY <1>0, <3>2 DEF NewRequest, RequestStates
    <3>4. ProposalMessages(i, s, tx) \subseteq Messages
      BY <1>0, <3>1, <3>2, BroadcastType DEF ProposalMessages
    <3> HIDE DEF r, tx
    <3>5. requests' \in [Sites -> [Seqs -> RequestStates \cup {NoRequest}]]
      BY <3>1, <3>3 DEF TypeOK
    <3>6. conns' \in [Sites -> [Seqs -> Requests \cup {NoSocket}]]
      BY <2>0, <3>1 DEF TypeOK
    <3>7. lastSeq' \in [Sites -> Int]
      <4>1. s \in Int
        BY <1>0 DEF TypeOK
      <4> HIDE DEF s
      <4> QED
        BY <3>1, <4>1 DEF TypeOK
    <3>9. hasPending' \in [Sites -> BOOLEAN]
      BY <3>1 DEF TypeOK
    <3>8. net' \in SUBSET Messages
      BY <1>0, <3>1, <3>4
    <3> QED
      BY <3>1, <3>5, <3>6, <3>7, <3>8, <3>9 DEF TypeOK, checkpointVars
  <2>2. CASE ReplyFromCache(i, m)
    BY <1>0, <2>0, <2>2 DEF ReplyFromCache, TypeOK, protocolVars, checkpointVars
  <2>3. CASE Redirect(i, m)
    <3>1. \A d \in Sites : [m EXCEPT !.dst = d] \in Messages
      BY <1>7 DEF HandleClientRequest, Messages
    <3>2. net' \in SUBSET Messages
      <4>1. ASSUME NEW n \in net', n \notin net
            PROVE  n \in Messages
        <5>1. n = [m EXCEPT !.dst = get_leader(view[i])] /\ n.dst \in Correct
          BY <2>3, <4>1 DEF Redirect
        <5>2. "dst" \in DOMAIN m
          BY DEF Messages
        <5>3. n.dst = get_leader(view[i])
          BY <5>1, <5>2
        <5> QED
          BY <3>1, <5>1, <5>3 DEF Correct
      <4> QED
        BY <4>1 DEF TypeOK
    <3> QED
      BY <2>3, <3>2 DEF Redirect, TypeOK, protocolVars, executionVars, checkpointVars
  <2> QED
    BY <1>2, <1>7, <2>1, <2>2, <2>3 DEF HandleClientRequest, RejectAboveWatermark
<1> QED
  BY <1>3, <1>4, <1>5, <1>6, <1>7 DEF HandleMessage

\* Every step of Next keeps TypeOK.
LEMMA TypeStep == TypeOK /\ SendingIsKnown /\ [Next]_vars => TypeOK'
<1> SUFFICES ASSUME TypeOK, SendingIsKnown, [Next]_vars
             PROVE  TypeOK'
  OBVIOUS
<1>1. CASE UNCHANGED vars
  BY <1>1 DEF TypeOK, vars
<1>2. ASSUME NEW q \in Requests, NEW d \in Sites, SendRequest(q, d)
      PROVE  TypeOK'
  <2>1. [type |-> "CLIENT_REQUEST", dst |-> d, req |-> q] \in Messages
    BY DEF Messages
  <2> QED
    BY <1>2, <2>1
    DEF SendRequest, TypeOK, protocolVars, executionVars, checkpointVars
<1>3. ASSUME NEW i \in Correct, ProcessMessage(i)
      PROVE  TypeOK'
  BY <1>3, HandleMessageType DEF ProcessMessage, TypeOK
<1>4. ASSUME NEW i \in Correct, ProcessFaultyMessage(i)
      PROVE  TypeOK'
  BY <1>4, HandleMessageType, FaultyMessagesType DEF ProcessFaultyMessage
<1>5. ASSUME NEW i \in Correct, NEW q \in Demo, SubmitRequest(i, q)
      PROVE  TypeOK'
  <2> DEFINE s  == lastSeq[i] + 1
             tx == [req |-> q, id |-> DemoId[q], fake |-> FALSE]
             r  == [NewRequest(tx, hash_message(tx), {i}) EXCEPT !.phase = "pre_prepare"]
  <2>0. i \in Sites /\ s \in Int
    BY DEF Correct, TypeOK
  <2>1. /\ s \in Seqs
        /\ lastSeq' = [lastSeq EXCEPT ![i] = s]
        /\ requests' = [requests EXCEPT ![i][s] = r]
        /\ net' = net \cup ProposalMessages(i, s, tx)
        /\ sending' = [sending EXCEPT ![i] = {s}]
        /\ attempts' = [attempts EXCEPT ![q] = 1]
        /\ UNCHANGED <<view, viewChangeSent, lastExec, cached, balance, ledger,
                       success, checkpointVars, conns, hasPending>>
    BY <1>5 DEF SubmitRequest, Propose
  <2>2. tx \in Txs /\ hash_message(tx) \in Digests
    BY DataAssumption DEF Txs, hash_message, Digests
  <2>3. r \in RequestStates
    BY <2>0, <2>2 DEF NewRequest, RequestStates
  <2>4. ProposalMessages(i, s, tx) \subseteq Messages
    BY <2>0, <2>1, <2>2, BroadcastType DEF ProposalMessages
  <2> HIDE DEF r, tx, s
  <2>5. requests' \in [Sites -> [Seqs -> RequestStates \cup {NoRequest}]]
    BY <2>1, <2>3 DEF TypeOK
  <2>6. sending' \in [Sites -> SUBSET Seqs]
    BY <2>1 DEF TypeOK
  <2>7. lastSeq' \in [Sites -> Int]
    BY <2>0, <2>1 DEF TypeOK
  <2>8. net' \in SUBSET Messages
    BY <2>1, <2>4 DEF TypeOK
  <2>9. attempts' \in [Requests -> Int]
    <3>1. attempts \in [Requests -> Int]
      BY DEF TypeOK
    <3> DEFINE one == 1
    <3>2. attempts' = [attempts EXCEPT ![q] = one] /\ one \in Int
      BY <2>1
    <3> HIDE DEF one
    <3> QED
      BY <3>1, <3>2
  <2> QED
    BY <2>1, <2>5, <2>6, <2>7, <2>8, <2>9 DEF TypeOK, checkpointVars
<1>6. ASSUME NEW i \in Correct, FinishSendPrepare(i)
      PROVE  TypeOK'
  <2>1. PICK s \in sending[i] :
           /\ RecordOwnPrepare(i, s, requests[i][s], net)
           /\ sending' = [sending EXCEPT ![i] = {}]
           /\ UNCHANGED <<view, viewChangeSent, lastSeq, attempts>>
    BY <1>6 DEF FinishSendPrepare
  <2>2. i \in Sites /\ s \in Seqs /\ requests[i][s] \in RequestStates
    BY DEF Correct, TypeOK, SendingIsKnown, Known
  <2>3. CascadeTypes'
    BY <2>1, <2>2, RecordOwnPrepareType DEF TypeOK
  <2>4. sending' \in [Sites -> SUBSET Seqs]
    BY <2>1 DEF TypeOK
  <2> QED
    BY <2>1, <2>3, <2>4 DEF TypeOK, CascadeTypes, ExecutionTypes, CheckpointTypes
<1>7. SendingIsKnown /\ (Next => TypeOK')
  BY <1>2, <1>3, <1>4, <1>5, <1>6, DataAssumption DEF Next
<1> QED
  BY <1>1, <1>7

-----------------------------------------------------------------------------
(* What a step does to the entries: every step of Next is Quiet, or stores  *)
(* one entry r2 at (i, s) as Advance says.                                  *)

\* Executing tx at i, or nothing.
Executes(i, tx) ==
    /\ balance' = [balance EXCEPT ![i] = BalanceAfter(i, tx)]
    /\ ledger' = [ledger EXCEPT ![i] = LedgerAfter(i, tx)]
    /\ cached' = [cached EXCEPT ![i] = @ \cup AnsweredFromNow(tx)]

ExecutesNothing == balance' = balance /\ ledger' = ledger /\ cached' = cached

\* The entry stored when a node carries on with r at (i, s).
Followed(i, s, r, msgs, r2) ==
    /\ r2 \in RequestStates
    /\ requests' = [requests EXCEPT ![i][s] = r2]
    /\ r2.tx = r.tx /\ r2.digest = r.digest /\ r2.prepares = r.prepares
    /\ r.commits \subseteq r2.commits
    /\ \A j \in r2.commits :
           j \in r.commits \/ (j = i /\ Cardinality(r.prepares) >= Quorum)
    /\ r.decided => r2.decided
    /\ r2.decided => r.decided \/ Cardinality(r2.commits) >= Quorum
    /\ \A m \in net' :
           \/ m \in msgs
           \/ m.type = "CHECKPOINT"
           \/ /\ m \in Broadcast("COMMIT", i, s, r.digest)
              /\ Cardinality(r.prepares) >= Quorum
    /\ ExecutesNothing \/ (Executes(i, r.tx) /\ ~r.decided /\ r2.decided)

\* Counting a COMMIT.
LEMMA CommitFollows ==
    ASSUME TypeOK, NEW i \in Sites, NEW s \in Seqs, NEW r \in RequestStates,
           NEW msgs, CheckCommitQuorum(i, s, r, msgs)
    PROVE  \E r2 : Followed(i, s, r, msgs, r2)
<1>1. CASE CommitQuorum(r)
  <2> DEFINE r2 == [r EXCEPT !.decided = TRUE, !.phase = "executed"]
  <2>1. /\ r2 \in RequestStates
        /\ r2.tx = r.tx /\ r2.digest = r.digest /\ r2.prepares = r.prepares
        /\ r2.commits = r.commits /\ r2.decided
    BY DEF RequestStates
  <2>2. requests' = [requests EXCEPT ![i][s] = r2] /\ ExecuteRequest(i, s, r.tx)
    BY <1>1 DEF CheckCommitQuorum
  <2>3. \A m \in net' : m \in msgs \/ m.type = "CHECKPOINT"
    BY <1>1 DEF CheckCommitQuorum, TriggerCheckpoint, BroadcastCheckpoint
  <2>4. Cardinality(r.commits) >= Quorum /\ ~r.decided
    BY <1>1 DEF CommitQuorum
  <2>5. Executes(i, r.tx)
    BY <2>2 DEF ExecuteRequest, Executes
  <2> HIDE DEF r2
  <2> QED
    BY <2>1, <2>2, <2>3, <2>4, <2>5 DEF Followed
<1>2. CASE ~CommitQuorum(r)
  <2>1. /\ requests' = [requests EXCEPT ![i][s] = r]
        /\ net' = msgs /\ ExecutesNothing
    BY <1>2 DEF CheckCommitQuorum, executionVars, ExecutesNothing
  <2> QED
    BY <2>1 DEF Followed
<1> QED
  BY <1>1, <1>2

\* Counting a PREPARE.
LEMMA PrepareFollows ==
    ASSUME TypeOK, NEW i \in Sites, NEW s \in Seqs, NEW r \in RequestStates,
           NEW msgs, CheckPrepareQuorum(i, s, r, msgs)
    PROVE  \E r2 : Followed(i, s, r, msgs, r2)
<1>1. CASE PrepareQuorum(r)
  <2> DEFINE r1 == [r EXCEPT !.commits = @ \cup {i}, !.phase = "commit"]
             msgs1 == msgs \cup Broadcast("COMMIT", i, s, r.digest)
  <2>1. /\ r1 \in RequestStates
        /\ r1.tx = r.tx /\ r1.digest = r.digest /\ r1.prepares = r.prepares
        /\ r1.commits = r.commits \cup {i} /\ r1.decided = r.decided
    BY DEF RequestStates
  <2>2. Cardinality(r.prepares) >= Quorum
    BY <1>1 DEF PrepareQuorum
  <2>3. CheckCommitQuorum(i, s, r1, msgs1)
    BY <1>1 DEF CheckPrepareQuorum, SendCommit
  <2> HIDE DEF r1
  <2>4. PICK r2 : Followed(i, s, r1, msgs1, r2)
    BY <2>1, <2>3, CommitFollows
  <2>5. Followed(i, s, r, msgs, r2)
    BY <2>1, <2>2, <2>4 DEF Followed
  <2> QED
    BY <2>5
<1>2. CASE ~PrepareQuorum(r)
  <2>1. /\ requests' = [requests EXCEPT ![i][s] = r]
        /\ net' = msgs /\ ExecutesNothing
    BY <1>2 DEF CheckPrepareQuorum, executionVars, ExecutesNothing
  <2> QED
    BY <2>1 DEF Followed
<1> QED
  BY <1>1, <1>2

Frame(i, s) ==
    /\ view' = view
    /\ \A j \in Correct : lastSeq'[j] >= lastSeq[j]
    /\ \A j \in Correct : \A t \in sending'[j] : t \in sending[j] \/ (j = i /\ t = s)

Advance(i, s, r2) ==
    /\ r2 \in RequestStates
    /\ requests' = [requests EXCEPT ![i][s] = r2]
    /\ r2.digest = hash_message(r2.tx)
    /\ Known(i, s) =>
          /\ r2.tx = requests[i][s].tx /\ r2.digest = requests[i][s].digest
          /\ requests[i][s].prepares \subseteq r2.prepares
          /\ requests[i][s].decided => r2.decided
    /\ \A j \in r2.prepares \cap Correct : j = i \/ Supports(j, s, r2.digest)
    /\ \A j \in r2.commits \cap Correct :
          \/ j = i /\ Cardinality(r2.prepares) >= Quorum
          \/ Backs(j, s, r2.digest)
    /\ r2.decided => Cardinality(r2.commits) >= Quorum
    /\ \A m \in net' :
          \/ m \in net
          \/ m.type = "CHECKPOINT"
          \/ m.type = "PRE_PREPARE" /\ m.sender # m.dst
          \/ /\ m.type = "PREPARE"
             /\ m.sender = i /\ m.seq = s /\ m.digest = r2.digest
          \/ /\ m.type = "COMMIT"
             /\ m.sender = i /\ m.seq = s /\ m.digest = r2.digest
             /\ Cardinality(r2.prepares) >= Quorum
    /\ Known(i, s) \/ ~is_leader(i, view[i]) \/ s <= lastSeq'[i]
    /\ ExecutesNothing \/ (Executes(i, r2.tx) /\ ~Decided(i, s) /\ r2.decided)
    /\ Frame(i, s)

Quiet ==
    /\ requests' = requests /\ ExecutesNothing
    /\ view' = view /\ lastSeq' = lastSeq /\ sending' = sending
    /\ \A m \in net' : m \in net \/ m.type \in {"CHECKPOINT", "CLIENT_REQUEST"}

QuietOrAdvance ==
    Quiet \/ \E i \in Correct, s \in Seqs : \E r2 : Advance(i, s, r2)

\* Sets of nodes are finite, and a larger set has no smaller cardinality.
LEMMA SiteSets ==
    ASSUME NEW T \in SUBSET Sites, NEW S \in SUBSET T
    PROVE  /\ IsFiniteSet(S) /\ IsFiniteSet(T)
           /\ Cardinality(S) \in Nat /\ Cardinality(T) \in Nat
           /\ Cardinality(S) <= Cardinality(T)
<1>1. IsFiniteSet(Sites)
  BY FaultAssumption
<1>2. IsFiniteSet(T)
  BY <1>1, FS_Subset
<1>3. IsFiniteSet(S) /\ Cardinality(S) <= Cardinality(T)
  BY <1>2, FS_Subset
<1> QED
  BY <1>2, <1>3, FS_CardinalityType

\* A vote that matches a stored entry, the node's own included, advances it.
LEMMA VoteAdvances ==
    ASSUME IInv, NEW i \in Correct, NEW s \in Seqs, Known(i, s),
           NEW r1 \in RequestStates, NEW msgs \in SUBSET net, NEW r2,
           r1.tx = requests[i][s].tx, r1.digest = requests[i][s].digest,
           r1.decided = requests[i][s].decided,
           requests[i][s].prepares \subseteq r1.prepares,
           requests[i][s].commits \subseteq r1.commits,
           \A j \in r1.prepares \cap Correct :
               j = i \/ Supports(j, s, r1.digest),
           \A j \in r1.commits \cap Correct : Backs(j, s, r1.digest),
           Frame(i, s),
           Followed(i, s, r1, msgs, r2)
    PROVE  Advance(i, s, r2)
<1> DEFINE r == requests[i][s]
<1>1. r \in RequestStates
  BY DEF IInv, TypeOK, Known, Correct
<1>2. r.digest = hash_message(r.tx) /\ (r.decided => Cardinality(r.commits) >= Quorum)
  BY DEF IInv, EntriesAreSound
<1>3. r2.decided => Cardinality(r2.commits) >= Quorum
  <2>1. r.commits \subseteq r2.commits /\ r2.commits \subseteq Sites
    BY DEF Followed, RequestStates
  <2>2. /\ Cardinality(r.commits) \in Nat /\ Cardinality(r2.commits) \in Nat
        /\ Cardinality(r.commits) <= Cardinality(r2.commits)
    BY <2>1, SiteSets
  <2>3. Quorum \in Int
    BY FaultAssumption DEF Quorum
  <2> QED
    BY <1>2, <2>2, <2>3 DEF Followed
<1>4. \A m \in net' :
          \/ m \in net
          \/ m.type = "CHECKPOINT"
          \/ /\ m.type = "COMMIT"
             /\ m.sender = i /\ m.seq = s /\ m.digest = r2.digest
             /\ Cardinality(r2.prepares) >= Quorum
  BY DEF Followed, Broadcast
<1>5. ExecutesNothing \/ (Executes(i, r2.tx) /\ ~Decided(i, s) /\ r2.decided)
  BY DEF Followed, Decided
<1>6. \A j \in r2.commits \cap Correct :
          \/ j = i /\ Cardinality(r2.prepares) >= Quorum
          \/ Backs(j, s, r2.digest)
  BY DEF Followed
<1>7. /\ r2 \in RequestStates
      /\ requests' = [requests EXCEPT ![i][s] = r2]
      /\ r2.tx = r.tx /\ r2.digest = r.digest /\ r2.prepares = r1.prepares
      /\ r.decided => r2.decided
  BY DEF Followed
<1> QED
  BY <1>2, <1>3, <1>4, <1>5, <1>6, <1>7 DEF Advance

\* A proposal of the leader advances a number where it has stored nothing.
LEMMA ProposalAdvances ==
    ASSUME IInv, NEW i \in Correct, is_leader(i, view[i]), NEW tx \in Txs,
           NEW phase \in {"pre_prepare", "prepare"}, Propose(i, tx, phase),
           ExecutesNothing,
           \A m \in net' : m \in net
                             \/ m \in ProposalMessages(i, lastSeq[i] + 1, tx),
           \A j \in Correct : \A t \in sending'[j] :
               t \in sending[j] \/ (j = i /\ t = lastSeq[i] + 1)
    PROVE  \E s \in Seqs : \E r2 : Advance(i, s, r2)
<1> DEFINE s  == lastSeq[i] + 1
           r2 == [NewRequest(tx, hash_message(tx), {i}) EXCEPT !.phase = phase]
<1>0. i \in Sites /\ lastSeq[i] \in Int /\ lastSeq \in [Sites -> Int]
  BY DEF Correct, IInv, TypeOK
<1>1. /\ s \in Seqs
      /\ lastSeq' = [lastSeq EXCEPT ![i] = s]
      /\ requests' = [requests EXCEPT ![i][s] = r2]
      /\ view' = view
  BY DEF Propose
<1>2. ~Known(i, s)
  BY <1>0, <1>1 DEF IInv, NothingAhead
<1>3. /\ r2 \in RequestStates
      /\ r2.tx = tx /\ r2.digest = hash_message(tx)
      /\ r2.prepares = {i} /\ r2.commits = {} /\ ~r2.decided
  BY <1>0 DEF NewRequest, RequestStates, hash_message, Digests
<1>4. \A m \in ProposalMessages(i, s, tx) :
         \/ m.type = "PRE_PREPARE" /\ m.sender # m.dst
         \/ /\ m.type = "PREPARE"
            /\ m.sender = i /\ m.seq = s /\ m.digest = hash_message(tx)
  BY DEF ProposalMessages, BroadcastPrePrepare, Broadcast, Peers
<1>5. Frame(i, s)
  <2>1. \A j \in Correct : lastSeq'[j] >= lastSeq[j]
    BY <1>0, <1>1 DEF Correct
  <2> QED
    BY <1>1, <2>1 DEF Frame
<1>6. s <= lastSeq'[i]
  BY <1>0, <1>1
<1>7. \A m \in net' :
         \/ m \in net
         \/ m.type = "PRE_PREPARE" /\ m.sender # m.dst
         \/ /\ m.type = "PREPARE"
            /\ m.sender = i /\ m.seq = s /\ m.digest = r2.digest
  BY <1>3, <1>4
<1> HIDE DEF s, r2
<1>8. Advance(i, s, r2)
  BY <1>1, <1>2, <1>3, <1>5, <1>6, <1>7 DEF Advance
<1> QED
  BY <1>1, <1>8

\* A handler of a sound message is quiet or advances one entry.
LEMMA HandleMessageAdvances ==
    ASSUME IInv, NEW i \in Correct, NEW m \in Messages, m.dst = i, Sound(m),
           HandleMessage(i, m)
    PROVE  QuietOrAdvance
<1> USE MessageFields
<1>0. /\ i \in Sites /\ TypeOK
      /\ lastSeq \in [Sites -> Int] /\ view \in [Sites -> Int]
  BY DEF Correct, IInv, TypeOK
<1>1. ASSUME Ignore(m)
      PROVE  Quiet
  BY <1>1 DEF Ignore, Quiet, ExecutesNothing, protocolVars, executionVars
<1>2. ASSUME NEW s, UNCHANGED protocolVars
      PROVE  Frame(i, s)
  <2>1. \A j \in Correct : lastSeq'[j] = lastSeq[j] /\ lastSeq[j] \in Int
    BY <1>0, <1>2 DEF protocolVars, Correct
  <2> QED
    BY <1>2, <2>1 DEF Frame, protocolVars
<1>3. CASE HandlePrePrepare(i, m)
  <2>0. m.type = "PRE_PREPARE" /\ m.seq \in Seqs /\ m.digest \in Digests /\ m.request \in Txs
    BY <1>3 DEF HandlePrePrepare
  <2>1. CASE AcceptPrePrepare(i, m)
    <3> DEFINE s  == m.seq
               r0 == NewRequest(m.request, m.digest, {})
               r1 == [r0 EXCEPT !.prepares = @ \cup {i}, !.phase = "prepare"]
               msgs == (net \ {m}) \cup Broadcast("PREPARE", i, s, m.digest)
    <3>1. /\ r1 \in RequestStates
          /\ r1.tx = m.request /\ r1.digest = m.digest
          /\ r1.prepares = {i} /\ r1.commits = {} /\ ~r1.decided
      BY <1>0, <2>0 DEF NewRequest, RequestStates
    <3>2. /\ CheckPrepareQuorum(i, s, r1, msgs)
          /\ ValidPrePrepare(i, m) /\ ~Known(i, s)
          /\ UNCHANGED protocolVars
      BY <2>1 DEF AcceptPrePrepare, RecordOwnPrepare
    <3> HIDE DEF r1
    <3>3. PICK r2 : Followed(i, s, r1, msgs, r2)
      BY <1>0, <2>0, <3>1, <3>2, PrepareFollows
    <3>4. ~is_leader(i, view[i])
      BY <2>0, <3>2 DEF ValidPrePrepare, is_leader, Sound
    <3>5. r1.digest = hash_message(r1.tx)
      BY <3>1, <3>2 DEF ValidPrePrepare
    <3>6. Frame(i, s)
      BY <1>2, <3>2
    <3>7. \A n \in net' :
             \/ n \in net
             \/ n.type = "CHECKPOINT"
             \/ /\ n.type = "PREPARE"
                /\ n.sender = i /\ n.seq = s /\ n.digest = r2.digest
             \/ /\ n.type = "COMMIT"
                /\ n.sender = i /\ n.seq = s /\ n.digest = r2.digest
                /\ Cardinality(r2.prepares) >= Quorum
      <4>1. \A n \in Broadcast("PREPARE", i, s, m.digest) :
               n.type = "PREPARE" /\ n.sender = i /\ n.seq = s /\ n.digest = m.digest
        BY DEF Broadcast
      <4>2. \A n \in Broadcast("COMMIT", i, s, m.digest) :
               n.type = "COMMIT" /\ n.sender = i /\ n.seq = s /\ n.digest = m.digest
        BY DEF Broadcast
      <4>3. r2.prepares = r1.prepares /\ r2.digest = m.digest
        BY <3>1, <3>3 DEF Followed
      <4>4. \A n \in net' :
               \/ n \in net
               \/ n.type = "CHECKPOINT"
               \/ n \in Broadcast("PREPARE", i, s, m.digest)
               \/ /\ n \in Broadcast("COMMIT", i, s, m.digest)
                  /\ Cardinality(r2.prepares) >= Quorum
        BY <3>1, <3>3, <4>3 DEF Followed
      <4> QED
        BY <4>1, <4>2, <4>3, <4>4
    <3>8. ~Decided(i, s)
      BY <3>2 DEF Decided
    <3>9. /\ r2 \in RequestStates
          /\ requests' = [requests EXCEPT ![i][s] = r2]
          /\ r2.tx = r1.tx /\ r2.digest = r1.digest /\ r2.prepares = {i}
          /\ \A j \in r2.commits : j = i /\ Cardinality(r2.prepares) >= Quorum
          /\ r2.decided => Cardinality(r2.commits) >= Quorum
          /\ ExecutesNothing \/ (Executes(i, r2.tx) /\ r2.decided)
      BY <3>1, <3>3 DEF Followed
    <3>10. Advance(i, s, r2)
      BY <3>2, <3>4, <3>5, <3>6, <3>7, <3>8, <3>9 DEF Advance
    <3> QED
      BY <2>0, <3>10 DEF QuietOrAdvance
  <2>2. CASE DetectEquivocation(i, m)
    BY <2>2 DEF DetectEquivocation, QuietOrAdvance, Quiet, ExecutesNothing, executionVars
  <2> QED
    BY <1>1, <1>3, <2>1, <2>2 DEF HandlePrePrepare, QuietOrAdvance
<1>4. CASE HandlePrepare(i, m)
  <2> DEFINE s  == m.seq
             r  == requests[i][s]
             r1 == [r EXCEPT !.prepares = @ \cup {m.sender}]
  <2>0. m.type = "PREPARE" /\ m.seq \in Seqs /\ m.sender \in Sites
    BY <1>4 DEF HandlePrepare
  <2>1. CASE MatchingVote(i, m) /\ m.sender \notin r.prepares
    <3>1. Known(i, s) /\ r \in RequestStates /\ m.digest = r.digest
      BY <1>0, <2>0, <2>1 DEF TypeOK, MatchingVote, Known
    <3>2. /\ r1 \in RequestStates
          /\ r1.tx = r.tx /\ r1.digest = r.digest /\ r1.decided = r.decided
          /\ r1.prepares = r.prepares \cup {m.sender} /\ r1.commits = r.commits
      BY <2>0, <3>1 DEF RequestStates
    <3>3. CheckPrepareQuorum(i, s, r1, net \ {m}) /\ UNCHANGED protocolVars
      BY <1>4, <2>1 DEF HandlePrepare
    <3> HIDE DEF r1
    <3>4. PICK r2 : Followed(i, s, r1, net \ {m}, r2)
      BY <1>0, <2>0, <3>2, <3>3, PrepareFollows
    <3>5. \A j \in r1.prepares \cap Correct : Supports(j, s, r1.digest)
      BY <2>0, <3>1, <3>2 DEF Sound, IInv, VotesAreSound
    <3>6. \A j \in r1.commits \cap Correct : Backs(j, s, r1.digest)
      BY <2>0, <3>1, <3>2 DEF IInv, VotesAreSound
    <3>7. Frame(i, s)
      BY <1>2, <3>3
    <3>8. Advance(i, s, r2)
      BY <2>0, <3>1, <3>2, <3>4, <3>5, <3>6, <3>7, VoteAdvances
    <3> QED
      BY <2>0, <3>8 DEF QuietOrAdvance
  <2> QED
    BY <1>1, <1>4, <2>1 DEF HandlePrepare, QuietOrAdvance
<1>5. CASE HandleCommit(i, m)
  <2> DEFINE s  == m.seq
             r  == requests[i][s]
             r1 == [r EXCEPT !.commits = @ \cup {m.sender}]
  <2>0. m.type = "COMMIT" /\ m.seq \in Seqs /\ m.sender \in Sites
    BY <1>5 DEF HandleCommit
  <2>1. CASE MatchingVote(i, m) /\ m.sender \notin r.commits
    <3>1. Known(i, s) /\ r \in RequestStates /\ m.digest = r.digest
      BY <1>0, <2>0, <2>1 DEF TypeOK, MatchingVote, Known
    <3>2. /\ r1 \in RequestStates
          /\ r1.tx = r.tx /\ r1.digest = r.digest /\ r1.decided = r.decided
          /\ r1.prepares = r.prepares /\ r1.commits = r.commits \cup {m.sender}
      BY <2>0, <3>1 DEF RequestStates
    <3>3. CheckCommitQuorum(i, s, r1, net \ {m}) /\ UNCHANGED protocolVars
      BY <1>5, <2>1 DEF HandleCommit
    <3> HIDE DEF r1
    <3>4. PICK r2 : Followed(i, s, r1, net \ {m}, r2)
      BY <1>0, <2>0, <3>2, <3>3, CommitFollows
    <3>5. \A j \in r1.prepares \cap Correct : Supports(j, s, r1.digest)
      BY <2>0, <3>1, <3>2 DEF IInv, VotesAreSound
    <3>6. \A j \in r1.commits \cap Correct : Backs(j, s, r1.digest)
      BY <2>0, <3>1, <3>2 DEF Sound, IInv, VotesAreSound
    <3>7. Frame(i, s)
      BY <1>2, <3>3
    <3>8. Advance(i, s, r2)
      BY <2>0, <3>1, <3>2, <3>4, <3>5, <3>6, <3>7, VoteAdvances
    <3> QED
      BY <2>0, <3>8 DEF QuietOrAdvance
  <2> QED
    BY <1>1, <1>5, <2>1 DEF HandleCommit, QuietOrAdvance
<1>6. CASE HandleCheckpoint(i, m)
  BY <1>6 DEF HandleCheckpoint, QuietOrAdvance, Quiet, ExecutesNothing, executionVars, protocolVars
<1>7. CASE HandleClientRequest(i, m)
  <2>0. m.type = "CLIENT_REQUEST" /\ m.req \in Requests
    BY <1>7 DEF HandleClientRequest
  <2>1. CASE ProposeClientRequest(i, m)
    <3> DEFINE tx == [req |-> m.req, id |-> lastSeq[i] + 1, fake |-> FALSE]
    <3>1. /\ is_leader(i, view[i]) /\ Propose(i, tx, "prepare")
          /\ net' = (net \ {m}) \cup ProposalMessages(i, lastSeq[i] + 1, tx)
          /\ UNCHANGED sending
      BY <2>1 DEF ProposeClientRequest
    <3>2. tx \in Txs /\ ExecutesNothing
      BY <2>0, <3>1, DataAssumption DEF Txs, Propose, ExecutesNothing
    <3> HIDE DEF tx
    <3>3. \E s \in Seqs : \E r2 : Advance(i, s, r2)
      BY <3>1, <3>2, ProposalAdvances
    <3> QED
      BY <3>3 DEF QuietOrAdvance
  <2>2. CASE ReplyFromCache(i, m)
    BY <2>2 DEF ReplyFromCache, QuietOrAdvance, Quiet, ExecutesNothing, protocolVars
  <2>3. CASE Redirect(i, m)
    <3>1. \A n \in net' : n \in net \/ n.type = "CLIENT_REQUEST"
      <4>1. ASSUME NEW n \in net', n \notin net
            PROVE  n.type = "CLIENT_REQUEST"
        <5>1. n = [m EXCEPT !.dst = get_leader(view[i])]
          BY <2>3, <4>1 DEF Redirect
        <5>2. "type" \in DOMAIN m
          BY DEF Messages
        <5> QED
          BY <2>0, <5>1, <5>2
      <4> QED
        BY <4>1
    <3> QED
      BY <2>3, <3>1 DEF Redirect, QuietOrAdvance, Quiet, ExecutesNothing, protocolVars,
                        executionVars
  <2> QED
    BY <1>1, <1>7, <2>1, <2>2, <2>3
    DEF HandleClientRequest, RejectAboveWatermark, QuietOrAdvance
<1> QED
  BY <1>3, <1>4, <1>5, <1>6, <1>7 DEF HandleMessage

\* Every step of Next is quiet or advances one entry.
LEMMA StepAdvances == IInv /\ [Next]_vars => QuietOrAdvance
<1> SUFFICES ASSUME IInv, [Next]_vars
             PROVE  QuietOrAdvance
  OBVIOUS
<1>0. TypeOK /\ MessagesAreSound
  BY DEF IInv
<1>1. CASE UNCHANGED vars
  BY <1>1 DEF vars, QuietOrAdvance, Quiet, ExecutesNothing
<1>2. ASSUME NEW q \in Requests, NEW d \in Sites, SendRequest(q, d)
      PROVE  QuietOrAdvance
  BY <1>2 DEF SendRequest, QuietOrAdvance, Quiet, ExecutesNothing, protocolVars, executionVars
<1>3. ASSUME NEW i \in Correct, ProcessMessage(i)
      PROVE  QuietOrAdvance
  BY <1>0, <1>3, HandleMessageAdvances DEF ProcessMessage, TypeOK, MessagesAreSound
<1>4. ASSUME NEW i \in Correct, ProcessFaultyMessage(i)
      PROVE  QuietOrAdvance
  <2>1. PICK m \in FaultyMessages(i) : HandleMessage(i, m)
    BY <1>4 DEF ProcessFaultyMessage
  <2>2. m.dst = i /\ m.sender \in Faulty
    BY DEF FaultyMessages
  <2>3. Sound(m)
    BY <2>2 DEF Sound, Correct
  <2> QED
    BY <1>0, <2>1, <2>2, <2>3, FaultyMessagesType, HandleMessageAdvances
<1>5. ASSUME NEW i \in Correct, NEW q \in Demo, SubmitRequest(i, q)
      PROVE  QuietOrAdvance
  <2> DEFINE tx == [req |-> q, id |-> DemoId[q], fake |-> FALSE]
             s  == lastSeq[i] + 1
  <2>1. /\ is_leader(i, view[i]) /\ Propose(i, tx, "pre_prepare")
        /\ net' = net \cup ProposalMessages(i, s, tx)
        /\ sending' = [sending EXCEPT ![i] = {s}]
    BY <1>5 DEF SubmitRequest
  <2>2. tx \in Txs /\ ExecutesNothing
    BY <2>1, DataAssumption DEF Txs, Propose, ExecutesNothing
  <2>3. \A j \in Correct : \A t \in sending'[j] : t \in sending[j] \/ (j = i /\ t = s)
    BY <1>0, <2>1 DEF TypeOK, Correct
  <2> HIDE DEF tx
  <2>4. \E t \in Seqs : \E r2 : Advance(i, t, r2)
    BY <2>1, <2>2, <2>3, ProposalAdvances
  <2> QED
    BY <2>4 DEF QuietOrAdvance
<1>6. ASSUME NEW i \in Correct, FinishSendPrepare(i)
      PROVE  QuietOrAdvance
  <2>1. PICK s \in sending[i] :
           /\ RecordOwnPrepare(i, s, requests[i][s], net)
           /\ sending' = [sending EXCEPT ![i] = {}]
           /\ UNCHANGED <<view, viewChangeSent, lastSeq, attempts>>
    BY <1>6 DEF FinishSendPrepare
  <2> DEFINE r  == requests[i][s]
             r1 == [r EXCEPT !.prepares = @ \cup {i}, !.phase = "prepare"]
  <2>2. i \in Sites /\ s \in Seqs /\ Known(i, s) /\ r \in RequestStates
    BY <1>0 DEF Correct, IInv, TypeOK, SendingIsKnown, Known
  <2>3. /\ r1 \in RequestStates
        /\ r1.tx = r.tx /\ r1.digest = r.digest /\ r1.decided = r.decided
        /\ r1.prepares = r.prepares \cup {i} /\ r1.commits = r.commits
    BY <2>2 DEF RequestStates
  <2>4. CheckPrepareQuorum(i, s, r1, net)
    BY <2>1 DEF RecordOwnPrepare
  <2> HIDE DEF r1
  <2>5. PICK r2 : Followed(i, s, r1, net, r2)
    BY <1>0, <2>2, <2>3, <2>4, PrepareFollows
  <2>6. \A j \in r1.prepares \cap Correct : j = i \/ Supports(j, s, r1.digest)
    BY <2>2, <2>3 DEF IInv, VotesAreSound
  <2>7. \A j \in r1.commits \cap Correct : Backs(j, s, r1.digest)
    BY <2>2, <2>3 DEF IInv, VotesAreSound
  <2>8. Frame(i, s)
    <3>1. \A j \in Correct : lastSeq'[j] = lastSeq[j] /\ lastSeq[j] \in Int
      BY <1>0, <2>1 DEF TypeOK, Correct
    <3>2. \A j \in Correct : \A t \in sending'[j] : t \in sending[j]
      BY <1>0, <2>1 DEF TypeOK, Correct
    <3> QED
      BY <2>1, <3>1, <3>2 DEF Frame
  <2>9. Advance(i, s, r2)
    BY <2>2, <2>3, <2>5, <2>6, <2>7, <2>8, VoteAdvances
  <2> QED
    BY <2>2, <2>9 DEF QuietOrAdvance
<1>7. Next => QuietOrAdvance
  BY <1>2, <1>3, <1>4, <1>5, <1>6, DataAssumption DEF Next
<1> QED
  BY <1>1, <1>7

-----------------------------------------------------------------------------
(* The invariant is inductive *)

\* What a node supports or backs, it supports or backs for good.
LEMMA SupportPersists ==
    ASSUME IInv, NEW i \in Correct, NEW s \in Seqs, NEW r2, Advance(i, s, r2),
           NEW j \in Correct, NEW t \in Seqs, NEW digest
    PROVE  /\ Supports(j, t, digest) => Supports(j, t, digest)'
           /\ Backs(j, t, digest) => Backs(j, t, digest)'
           /\ Known(j, t) => Known(j, t)'
<1>1. /\ requests \in [Sites -> [Seqs -> RequestStates \cup {NoRequest}]]
      /\ i \in Sites /\ j \in Sites
  BY DEF IInv, TypeOK, Correct
<1>2. CASE j = i /\ t = s
  <2>1. requests'[i][s] = r2 /\ r2 # NoRequest
    BY <1>1, DataAssumption DEF Advance
  <2>2. Known(j, t)'
    BY <1>2, <2>1 DEF Known
  <2>3. ASSUME Supports(j, t, digest)
        PROVE  Supports(j, t, digest)'
    BY <1>2, <2>1, <2>2, <2>3 DEF Supports, Advance
  <2>4. ASSUME Backs(j, t, digest)
        PROVE  Backs(j, t, digest)'
    <3>1. requests[i][s].prepares \subseteq r2.prepares /\ r2.prepares \subseteq Sites
      BY <1>2, <2>4 DEF Backs, Supports, Advance, RequestStates
    <3>2. /\ Cardinality(requests[i][s].prepares) \in Nat
          /\ Cardinality(r2.prepares) \in Nat
          /\ Cardinality(requests[i][s].prepares) <= Cardinality(r2.prepares)
      BY <3>1, SiteSets
    <3>3. Quorum \in Int
      BY FaultAssumption DEF Quorum
    <3>4. Cardinality(requests[i][s].prepares) >= Quorum
      BY <1>2, <2>4 DEF Backs
    <3>5. Cardinality(r2.prepares) >= Quorum
      BY <3>2, <3>3, <3>4
    <3>6. Supports(j, t, digest)'
      BY <2>3, <2>4 DEF Backs
    <3>7. Cardinality(requests'[j][t].prepares) >= Quorum
      BY <1>2, <2>1, <3>5
    <3> QED
      BY <3>6, <3>7 DEF Backs, Quorum
  <2> QED
    BY <2>2, <2>3, <2>4
<1>3. CASE ~(j = i /\ t = s)
  <2>1. requests'[j][t] = requests[j][t]
    BY <1>1, <1>3 DEF Advance
  <2> QED
    BY <2>1 DEF Supports, Backs, Known, Quorum
<1> QED
  BY <1>2, <1>3

\* An advance keeps every part of the invariant.
LEMMA AdvanceKeepsIInv ==
    ASSUME IInv, NEW i \in Correct, NEW s \in Seqs, NEW r2, Advance(i, s, r2), TypeOK'
    PROVE  IInv'
<1>1. /\ requests \in [Sites -> [Seqs -> RequestStates \cup {NoRequest}]]
      /\ lastSeq \in [Sites -> Int] /\ i \in Sites
  BY DEF IInv, TypeOK, Correct
<1>2. requests'[i][s] = r2 /\ Known(i, s)'
  BY <1>1, DataAssumption DEF Advance, Known
<1>3. \A j \in Correct, t \in Seqs : (j # i \/ t # s) => requests'[j][t] = requests[j][t]
  BY <1>1 DEF Advance, Correct
<1>4. Supports(i, s, r2.digest)'
  BY <1>2 DEF Supports
<1>5. Cardinality(r2.prepares) >= Quorum => Backs(i, s, r2.digest)'
  BY <1>2, <1>4 DEF Backs, Quorum
<1>6. MessagesAreSound'
  <2>1. ASSUME NEW m \in net'
        PROVE  Sound(m)'
    <3>1. m \in Messages
      BY <2>1 DEF TypeOK
    <3>2. CASE m \in net
      <4>1. Sound(m)
        BY <3>2 DEF IInv, MessagesAreSound
      <4> QED
        BY <3>1, <4>1, MessageFields, SupportPersists DEF Sound
    <3>3. CASE m \notin net
      <4>1. CASE m.type \in {"CHECKPOINT", "PRE_PREPARE"}
        BY <2>1, <3>3, <4>1 DEF Advance, Sound
      <4>2. CASE m.type = "PREPARE"
        BY <1>4, <2>1, <3>3, <4>2 DEF Advance, Sound
      <4>3. CASE m.type = "COMMIT"
        BY <1>5, <2>1, <3>3, <4>3 DEF Advance, Sound
      <4> QED
        BY <2>1, <3>3, <4>1, <4>2, <4>3 DEF Advance
    <3> QED
      BY <3>2, <3>3
  <2> QED
    BY <2>1 DEF MessagesAreSound
<1>7. VotesAreSound'
  <2>1. ASSUME NEW k \in Correct, NEW t \in Seqs, Known(k, t)'
        PROVE  /\ \A j \in requests'[k][t].prepares \cap Correct :
                      Supports(j, t, requests[k][t].digest)'
               /\ \A j \in requests'[k][t].commits \cap Correct :
                      Backs(j, t, requests[k][t].digest)'
    <3>1. CASE k = i /\ t = s
      <4>1. \A j \in r2.prepares \cap Correct : Supports(j, s, r2.digest)'
        BY <1>4, SupportPersists DEF Advance
      <4>2. \A j \in r2.commits \cap Correct : Backs(j, s, r2.digest)'
        BY <1>5, SupportPersists DEF Advance
      <4> QED
        BY <1>2, <3>1, <4>1, <4>2
    <3>2. CASE k # i \/ t # s
      <4>1. requests'[k][t] = requests[k][t] /\ Known(k, t)
        BY <1>3, <2>1, <3>2 DEF Known
      <4>2. /\ \A j \in requests[k][t].prepares \cap Correct :
                   Supports(j, t, requests[k][t].digest)
            /\ \A j \in requests[k][t].commits \cap Correct :
                   Backs(j, t, requests[k][t].digest)
        BY <4>1 DEF IInv, VotesAreSound
      <4>3. DEFINE d == requests[k][t].digest
      <4>4. /\ \A j \in requests[k][t].prepares \cap Correct : Supports(j, t, d)'
            /\ \A j \in requests[k][t].commits \cap Correct : Backs(j, t, d)'
        BY <4>1, <4>2, SupportPersists DEF Supports, Backs
      <4> QED
        BY <4>1, <4>4
    <3> QED
      BY <3>1, <3>2
  <2> QED
    BY <2>1 DEF VotesAreSound
<1>8. EntriesAreSound'
  <2>1. ASSUME NEW k \in Correct, NEW t \in Seqs, Known(k, t)'
        PROVE  /\ requests'[k][t].digest = hash_message(requests'[k][t].tx)
               /\ requests'[k][t].decided =>
                     Cardinality(requests'[k][t].commits) >= Quorum
    <3>1. CASE k = i /\ t = s
      BY <1>2, <3>1 DEF Advance
    <3>2. CASE k # i \/ t # s
      BY <1>3, <2>1, <3>2 DEF Known, IInv, EntriesAreSound
    <3> QED
      BY <3>1, <3>2
  <2> QED
    BY <2>1 DEF EntriesAreSound, hash_message, Quorum
<1>9. NothingAhead'
  <2>1. ASSUME NEW k \in Correct, NEW t \in Seqs, is_leader(k, view[k])',
               t > lastSeq'[k], Known(k, t)'
        PROVE  FALSE
    <3>1. is_leader(k, view[k])
      BY <2>1 DEF Advance, Frame, is_leader, get_leader
    <3>2. t > lastSeq[k]
      <4>1. lastSeq'[k] >= lastSeq[k]
        BY DEF Advance, Frame
      <4>2. lastSeq[k] \in Int /\ lastSeq'[k] \in Int /\ t \in Int
        BY <1>1 DEF TypeOK, Correct, Seqs
      <4> QED
        BY <2>1, <4>1, <4>2
    <3>3. ~Known(k, t)
      BY <3>1, <3>2 DEF IInv, NothingAhead
    <3>4. k = i /\ t = s
      BY <1>3, <2>1, <3>3 DEF Known
    <3>5. s <= lastSeq'[i]
      BY <3>1, <3>3, <3>4 DEF Advance
    <3>6. s \in Int /\ lastSeq'[i] \in Int
      BY <1>1 DEF TypeOK, Seqs
    <3> QED
      BY <2>1, <3>4, <3>5, <3>6
  <2> QED
    BY <2>1 DEF NothingAhead
<1>10. SendingIsKnown'
  <2>1. ASSUME NEW k \in Correct, NEW t \in sending'[k]
        PROVE  Known(k, t)'
    <3>1. t \in Seqs
      BY DEF TypeOK, Correct
    <3>2. CASE t \in sending[k]
      BY <3>1, <3>2, SupportPersists DEF IInv, SendingIsKnown
    <3>3. CASE k = i /\ t = s
      BY <1>2, <3>3
    <3> QED
      BY <3>2, <3>3 DEF Advance, Frame
  <2> QED
    BY <2>1 DEF SendingIsKnown
<1> QED
  BY <1>6, <1>7, <1>8, <1>9, <1>10 DEF IInv

\* So does a quiet step.
LEMMA QuietKeepsIInv ==
    ASSUME IInv, Quiet, TypeOK'
    PROVE  IInv'
<1>1. MessagesAreSound'
  BY DEF IInv, Quiet, MessagesAreSound, Sound, Supports, Backs, Known, Quorum
<1>2. VotesAreSound'
  BY DEF IInv, Quiet, VotesAreSound, Supports, Backs, Known, Quorum
<1>4. EntriesAreSound'
  BY DEF IInv, Quiet, EntriesAreSound, Known, Quorum, hash_message
<1>3. NothingAhead' /\ SendingIsKnown'
  BY DEF IInv, Quiet, NothingAhead, SendingIsKnown, Known, is_leader, get_leader
<1> QED
  BY <1>1, <1>2, <1>3, <1>4 DEF IInv

LEMMA InitIInv == Init => IInv
<1> SUFFICES ASSUME Init
             PROVE  IInv
  OBVIOUS
<1>1. TypeOK
  <2>1. [a \in Accounts |-> InitialBalance] \in Balances
    BY DataAssumption DEF Balances
  <2>2. stable \in [Sites -> [seq: Int, balances: Balances]]
    BY <2>1 DEF Init
  <2> DEFINE zero == 0
  <2>3. /\ zero \in Int
        /\ view = [i \in Sites |-> zero] /\ lastSeq = [i \in Sites |-> zero]
        /\ low = [i \in Sites |-> zero] /\ lastExec = [i \in Sites |-> zero]
        /\ attempts = [q \in Requests |-> zero]
    BY DEF Init
  <2> HIDE DEF zero
  <2>4. /\ view \in [Sites -> Int] /\ lastSeq \in [Sites -> Int]
        /\ low \in [Sites -> Int] /\ lastExec \in [Sites -> Int]
        /\ attempts \in [Requests -> Int]
    BY <2>3
  <2>5. /\ requests \in [Sites -> [Seqs -> RequestStates \cup {NoRequest}]]
        /\ conns \in [Sites -> [Seqs -> Requests \cup {NoSocket}]]
        /\ sending \in [Sites -> SUBSET Seqs]
        /\ cached \in [Sites -> SUBSET Requests]
        /\ checkpoints \in [Sites ->
              SUBSET [seq: Seqs, digest: StateDigests, sender: Sites]]
        /\ ledger \in [Sites -> SUBSET Txs]
    BY DEF Init
  <2>6. /\ viewChangeSent \in [Sites -> BOOLEAN] /\ hasPending \in [Sites -> BOOLEAN]
        /\ net \in SUBSET Messages /\ success \in SUBSET Requests
        /\ balance \in [Sites -> Balances]
    BY <2>1 DEF Init
  <2> QED
    BY <2>2, <2>4, <2>5, <2>6 DEF TypeOK
<1>2. \A i \in Correct, s \in Seqs : ~Known(i, s)
  BY DEF Init, Known, Correct
<1> QED
  BY <1>1, <1>2
  DEF IInv, Init, SendingIsKnown, MessagesAreSound, VotesAreSound, EntriesAreSound,
      NothingAhead, Correct

LEMMA StepIInv == IInv /\ [Next]_vars => IInv'
<1> SUFFICES ASSUME IInv, [Next]_vars
             PROVE  IInv'
  OBVIOUS
<1>1. TypeOK'
  BY TypeStep DEF IInv
<1> QED
  BY <1>1, StepAdvances, AdvanceKeepsIInv, QuietKeepsIInv DEF QuietOrAdvance

\* The inductive invariant holds in every reachable state: votes of correct
\* nodes, in flight or counted, are for the digest their sender stored, and a
\* COMMIT rests on a prepared quorum at its sender.
THEOREM Invariance == Spec => []IInv
BY InitIInv, StepIInv, PTL DEF Spec

\* Every variable of every reachable state holds a value of its kind.
THEOREM TypeCorrect == Spec => []TypeOK
<1>1. IInv => TypeOK
  BY DEF IInv
<1> QED
  BY <1>1, Invariance, PTL

-----------------------------------------------------------------------------
(* Safety *)

\* Two quorums share a correct node.
LEMMA QuorumsMeet ==
    ASSUME NEW P \in SUBSET Sites, NEW Q \in SUBSET Sites,
           Cardinality(P) >= Quorum, Cardinality(Q) >= Quorum
    PROVE  \E j \in P \cap Q : j \in Correct
<1>1. F \in Nat /\ IsFiniteSet(Sites) /\ Cardinality(Sites) = 3 * F + 1
  BY FaultAssumption
<1>2. Cardinality(Faulty) \in Nat /\ Cardinality(Faulty) <= F
  BY FaultAssumption, SiteSets
<1>3. /\ IsFiniteSet(P) /\ IsFiniteSet(Q)
      /\ Cardinality(P) \in Nat /\ Cardinality(Q) \in Nat
      /\ Cardinality(P \cap Q) \in Nat
  BY SiteSets
<1>4. Cardinality(P \cup Q) \in Nat /\ Cardinality(P \cup Q) <= 3 * F + 1
  <2>1. P \cup Q \in SUBSET Sites
    OBVIOUS
  <2> QED
    BY <1>1, <2>1, SiteSets
<1>5. Cardinality(P \cup Q) = Cardinality(P) + Cardinality(Q) - Cardinality(P \cap Q)
  BY <1>3, FS_Union
<1>6. Cardinality(P \cap Q) > F
  BY <1>1, <1>3, <1>4, <1>5 DEF Quorum
<1>7. ~(P \cap Q \subseteq Faulty)
  <2>1. SUFFICES ASSUME P \cap Q \subseteq Faulty
                 PROVE  FALSE
    OBVIOUS
  <2>2. Cardinality(P \cap Q) <= Cardinality(Faulty)
    BY <2>1, FaultAssumption, SiteSets
  <2> QED
    BY <1>1, <1>2, <1>3, <1>6, <2>2
<1> QED
  BY <1>7 DEF Correct

LEMMA AgreementFromIInv == IInv => Agreement
<1> SUFFICES ASSUME IInv, NEW i \in Correct, NEW j \in Correct, NEW s \in Seqs,
                    Decided(i, s), Decided(j, s)
             PROVE  requests[i][s].tx = requests[j][s].tx
  BY DEF Agreement
<1> DEFINE p == requests[i][s]
           q == requests[j][s]
<1>1. p \in RequestStates /\ q \in RequestStates
  BY DEF IInv, TypeOK, Decided, Known, Correct
<1>2. /\ Cardinality(p.commits) >= Quorum /\ Cardinality(q.commits) >= Quorum
      /\ p.digest = hash_message(p.tx) /\ q.digest = hash_message(q.tx)
  BY DEF IInv, EntriesAreSound, Decided
<1>3. PICK k \in p.commits \cap q.commits : k \in Correct
  BY <1>1, <1>2, QuorumsMeet DEF RequestStates
<1>4. Backs(k, s, p.digest) /\ Backs(k, s, q.digest)
  BY <1>3 DEF IInv, VotesAreSound, Decided
<1>5. p.digest = q.digest
  BY <1>4 DEF Backs, Supports
<1> QED
  BY <1>2, <1>5 DEF hash_message

\* No two correct nodes execute different transactions at one sequence number,
\* for any number of nodes and whatever at most F faulty ones send.
THEOREM AgreementHolds == Spec => []Agreement
BY Invariance, AgreementFromIInv, PTL

\* What one correct node executed, F + 1 correct nodes hold prepared with a full
\* quorum of votes: a view change that hears 2F + 1 nodes hears of it.
THEOREM DecidedIsPreparedHolds == Spec => []DecidedIsPrepared
<1>1. IInv => DecidedIsPrepared
  <2> SUFFICES ASSUME IInv, NEW i \in Correct, NEW s \in Seqs, Decided(i, s)
               PROVE  Cardinality({j \in Correct : Prepared(j, s)
                          /\ requests[j][s].tx = requests[i][s].tx}) > F
    BY DEF DecidedIsPrepared
  <2> DEFINE p == requests[i][s]
             Holders == {j \in Correct : Prepared(j, s)
                            /\ requests[j][s].tx = requests[i][s].tx}
             Honest == p.commits \ Faulty
  <2>1. p \in RequestStates
    BY DEF IInv, TypeOK, Decided, Known, Correct
  <2>2. Cardinality(p.commits) >= Quorum /\ p.digest = hash_message(p.tx)
    BY DEF IInv, EntriesAreSound, Decided
  <2>3. Honest \subseteq Holders
    <3>1. ASSUME NEW j \in Honest
          PROVE  j \in Holders
      <4>1. j \in Correct /\ Backs(j, s, p.digest)
        BY <2>1 DEF RequestStates, Correct, IInv, VotesAreSound, Decided
      <4>2. Known(j, s) /\ requests[j][s].digest = hash_message(requests[j][s].tx)
        BY <4>1 DEF Backs, Supports, IInv, EntriesAreSound
      <4>3. requests[j][s].tx = p.tx
        BY <2>2, <4>1, <4>2 DEF Backs, Supports, hash_message
      <4> QED
        BY <4>1, <4>2, <4>3 DEF Backs, Prepared
    <3> QED
      BY <3>1
  <2>4. Cardinality(Honest) > F
    <3>1. p.commits \in SUBSET Sites
      BY <2>1 DEF RequestStates
    <3>2. /\ IsFiniteSet(p.commits) /\ Cardinality(p.commits) \in Nat
          /\ Cardinality(p.commits \cap Faulty) \in Nat
      BY <3>1, SiteSets
    <3>3. Cardinality(p.commits \cap Faulty) <= F
      <4>1. /\ Cardinality(p.commits \cap Faulty) <= Cardinality(Faulty)
            /\ Cardinality(Faulty) \in Nat
        BY FaultAssumption, SiteSets
      <4> QED
        BY <3>2, <4>1, FaultAssumption
    <3>4. Cardinality(Honest) = Cardinality(p.commits) - Cardinality(p.commits \cap Faulty)
      BY <3>2, FS_Difference
    <3> QED
      BY <2>2, <3>2, <3>3, <3>4, FaultAssumption DEF Quorum
  <2>5. Holders \in SUBSET Sites
    BY DEF Correct
  <2>6. Cardinality(Honest) \in Nat /\ Cardinality(Holders) \in Nat
        /\ Cardinality(Honest) <= Cardinality(Holders)
    BY <2>3, <2>5, SiteSets
  <2>7. F \in Nat
    BY FaultAssumption
  <2> HIDE DEF Holders, Honest
  <2>8. Cardinality(Holders) > F
    BY <2>4, <2>6, <2>7
  <2> QED
    BY <2>8 DEF Holders
<1> QED
  BY <1>1, Invariance, PTL

-----------------------------------------------------------------------------
(* Execution and refinement *)

\* A number once decided keeps its transaction, and balances change only in the
\* step that decides one.
LEMMA StepExecutesOnce ==
    ASSUME IInv, QuietOrAdvance
    PROVE  \A i \in Correct :
             /\ \A s \in Seqs : Decided(i, s) =>
                    Decided(i, s)' /\ requests'[i][s].tx = requests[i][s].tx
             /\ balance'[i] # balance[i] =>
                    \E s \in Seqs : ~Decided(i, s) /\ Decided(i, s)'
<1>1. CASE Quiet
  BY <1>1 DEF Quiet, ExecutesNothing, Decided, Known
<1>2. CASE \E k \in Correct, t \in Seqs : \E r2 : Advance(k, t, r2)
  <2>1. PICK k \in Correct, t \in Seqs : \E r2 : Advance(k, t, r2)
    BY <1>2
  <2>2. PICK r2 : Advance(k, t, r2)
    BY <2>1
  <2>3. requests \in [Sites -> [Seqs -> RequestStates \cup {NoRequest}]] /\ k \in Sites
    BY DEF IInv, TypeOK, Correct
  <2>4. requests'[k][t] = r2 /\ r2 # NoRequest
    BY <2>2, <2>3, DataAssumption DEF Advance
  <2>5. \A i \in Correct, s \in Seqs : i # k \/ s # t => requests'[i][s] = requests[i][s]
    BY <2>2, <2>3 DEF Advance, Correct
  <2>6. ASSUME NEW i \in Correct, NEW s \in Seqs, Decided(i, s)
        PROVE  Decided(i, s)' /\ requests'[i][s].tx = requests[i][s].tx
    <3>1. CASE i = k /\ s = t
      BY <2>2, <2>4, <2>6, <3>1 DEF Advance, Decided, Known
    <3>2. CASE i # k \/ s # t
      BY <2>5, <2>6, <3>2 DEF Decided, Known
    <3> QED
      BY <3>1, <3>2
  <2>7. ASSUME NEW i \in Correct, balance'[i] # balance[i]
        PROVE  \E s \in Seqs : ~Decided(i, s) /\ Decided(i, s)'
    <3>1. ~ExecutesNothing
      BY <2>7 DEF ExecutesNothing
    <3>2. Executes(k, r2.tx) /\ ~Decided(k, t) /\ r2.decided
      BY <2>2, <3>1 DEF Advance
    <3>4. i = k
      BY <2>7, <3>2 DEF Executes, IInv, TypeOK, Correct
    <3>3. Decided(k, t)'
      BY <2>4, <3>2 DEF Decided, Known
    <3> QED
      BY <3>2, <3>3, <3>4
  <2> QED
    BY <2>6, <2>7
<1> QED
  BY <1>1, <1>2 DEF QuietOrAdvance

\* No interleaving of votes with the leader's own proposal executes a sequence
\* number twice or changes what was executed there.
THEOREM ExecuteOnceHolds == Spec => ExecuteOnce
<1>1. IInv /\ [Next]_vars =>
        [\A i \in Correct :
             /\ \A s \in Seqs : Decided(i, s) =>
                    Decided(i, s)' /\ requests'[i][s].tx = requests[i][s].tx
             /\ balance'[i] # balance[i] =>
                    \E s \in Seqs : ~Decided(i, s) /\ Decided(i, s)'
        ]_vars
  BY StepAdvances, StepExecutesOnce
<1> QED
  BY <1>1, Invariance, PTL DEF Spec, ExecuteOnce

\* The executed logs start empty ...
LEMMA LogInit == Init => Log!Init
<1> SUFFICES ASSUME Init
             PROVE  Log!Init
  OBVIOUS
<1>1. \A i \in Correct, s \in Seqs : ~Decided(i, s)
  BY DEF Init, Decided, Known, Correct
<1> QED
  BY <1>1 DEF Log!Init, ExecutedLog

\* ... and a step fills no slot, or one slot with what the others have there.
LEMMA LogStep == IInv /\ Agreement' /\ [Next]_vars => [Log!Next]_ExecutedLog
<1> SUFFICES ASSUME IInv, Agreement', [Next]_vars
             PROVE  [Log!Next]_ExecutedLog
  OBVIOUS
<1>0. QuietOrAdvance
  BY StepAdvances
<1>1. CASE Quiet
  BY <1>1 DEF Quiet, ExecutedLog, Decided, Known
<1>2. CASE \E i \in Correct, s \in Seqs : \E r2 : Advance(i, s, r2)
  <2>1. PICK i \in Correct, s \in Seqs : \E r2 : Advance(i, s, r2)
    BY <1>2
  <2>2. PICK r2 : Advance(i, s, r2)
    BY <2>1
  <2>3. requests \in [Sites -> [Seqs -> RequestStates \cup {NoRequest}]] /\ i \in Sites
    BY DEF IInv, TypeOK, Correct
  <2>4. requests'[i][s] = r2 /\ r2 \in RequestStates /\ r2 # NoRequest /\ r2.tx \in Txs
    BY <2>2, <2>3, DataAssumption DEF Advance, RequestStates
  <2>5. \A j \in Correct, t \in Seqs : j # i \/ t # s =>
           requests'[j][t] = requests[j][t] /\ (Decided(j, t)' <=> Decided(j, t))
    BY <2>2, <2>3 DEF Advance, Correct, Decided, Known
  <2>6. CASE Decided(i, s) \/ ~r2.decided
    <3>1. Decided(i, s)' <=> Decided(i, s)
      BY <2>2, <2>4, <2>6 DEF Advance, Decided, Known
    <3>2. Decided(i, s) => requests'[i][s].tx = requests[i][s].tx
      BY <2>2, <2>4 DEF Advance, Decided
    <3>3. \A j \in Correct, t \in Seqs :
             (IF Decided(j, t)' THEN requests'[j][t].tx ELSE NoRequest)
               = (IF Decided(j, t) THEN requests[j][t].tx ELSE NoRequest)
      BY <2>5, <3>1, <3>2
    <3>4. ExecutedLog' = ExecutedLog
      BY <3>3 DEF ExecutedLog
    <3> QED
      BY <3>4
  <2>7. CASE ~Decided(i, s) /\ r2.decided
    <3>1. Decided(i, s)'
      BY <2>4, <2>7 DEF Decided, Known
    <3>2. ExecutedLog[i][s] = NoRequest
      BY <2>7 DEF ExecutedLog
    <3>3. \A j \in Correct : ExecutedLog[j][s] \in {NoRequest, r2.tx}
      <4>2. ASSUME NEW j \in Correct, Decided(j, s)
            PROVE  requests[j][s].tx = r2.tx
        <5>1. j # i /\ Decided(j, s)' /\ requests'[j][s].tx = requests[j][s].tx
          BY <2>5, <2>7, <4>2
        <5>2. requests'[j][s].tx = requests'[i][s].tx
          BY <3>1, <5>1 DEF Agreement
        <5> QED
          BY <2>4, <5>1, <5>2
      <4> QED
        BY <4>2 DEF ExecutedLog
    <3>4. ExecutedLog' = [ExecutedLog EXCEPT ![i][s] = r2.tx]
      <4> DEFINE new == [ExecutedLog EXCEPT ![i][s] = r2.tx]
      <4>1. \A j \in Correct, t \in Seqs : ExecutedLog'[j][t] = new[j][t]
        BY <2>4, <2>5, <3>1 DEF ExecutedLog
      <4>2. /\ ExecutedLog' = [j \in Correct |-> ExecutedLog'[j]]
            /\ \A j \in Correct : ExecutedLog'[j] = [t \in Seqs |-> ExecutedLog'[j][t]]
        BY DEF ExecutedLog
      <4>3. /\ new = [j \in Correct |-> new[j]]
            /\ \A j \in Correct : new[j] = [t \in Seqs |-> new[j][t]]
        BY DEF ExecutedLog
      <4>4. ASSUME NEW j \in Correct
            PROVE  ExecutedLog'[j] = new[j]
        <5>1. \A t \in Seqs : ExecutedLog'[j][t] = new[j][t]
          BY <4>1
        <5>2. [t \in Seqs |-> ExecutedLog'[j][t]] = [t \in Seqs |-> new[j][t]]
          BY <5>1
        <5> QED
          BY <4>2, <4>3, <5>2, Zenon
      <4>5. [j \in Correct |-> ExecutedLog'[j]] = [j \in Correct |-> new[j]]
        BY <4>4
      <4> QED
        BY <4>2, <4>3, <4>5, Zenon
    <3>5. Log!Decide(i, s, r2.tx)
      BY <3>2, <3>3, <3>4 DEF Log!Decide
    <3> QED
      BY <2>4, <3>5 DEF Log!Next
  <2> QED
    BY <2>6, <2>7
<1> QED
  BY <1>0, <1>1, <1>2 DEF QuietOrAdvance

\* PBFT implements the abstract replicated log: each node fills a slot once, and
\* with the transaction every other correct node has or will have there.
THEOREM Refinement == Spec => ImplementsLog
BY LogInit, LogStep, Invariance, AgreementHolds, PTL DEF Spec, ImplementsLog, Log!Spec

=============================================================================
