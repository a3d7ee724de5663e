---------------------------- MODULE RequestProofs ----------------------------
(***************************************************************************)
(* Proofs about PBFT under a leader that runs this code, its malicious     *)
(* branch included: correct nodes execute only requests somebody made, and *)
(* their balances are what their ledger says.  And, for four nodes of      *)
(* which none is bad or down: whatever was requested is executed by a      *)
(* quorum once nothing is in flight, although votes that overtake the      *)
(* proposal are dropped.                                                   *)
(***************************************************************************)
EXTENDS CheckpointProofs, WellFoundedInduction

-----------------------------------------------------------------------------
(* The invariant: the leader of view 0 proposes to everyone what a client  *)
(* or the demo asked for, with the fake mark for Victim alone, and only its*)
(* proposals are stored.                                                    *)

Leader == get_leader(0)
Own(s) == requests[Leader][s].tx

Genuine(tx, tries) == tx.req \in Requests /\ tries[tx.req] > 0 /\ ~tx.fake

\* What the leader makes of a request at s, and a copy of it.
Made(tx, s, tries) ==
    Genuine(tx, tries) /\ tx.id = IF tx.req \in Demo THEN DemoId[tx.req] ELSE s
CopyOf(tx, own) == tx.req = own.req /\ tx.id = own.id
Proposed(i, tx, s) ==
    Known(Leader, s) /\ CopyOf(tx, Own(s)) /\ (tx.fake => i = Victim /\ Leader \in Malicious)

ViewIsFirst == \A i \in Sites : view[i] = 0

RequestsAreSent ==
    /\ \A q \in Requests : attempts[q] >= 0
    /\ \A m \in net : m.type = "CLIENT_REQUEST" => m.req \notin Demo /\ attempts[m.req] > 0

ProposalsAreGenuine ==
    \A m \in net : m.type = "PRE_PREPARE" /\ m.sender = Leader =>
        Proposed(m.dst, m.request, m.seq)

EntriesAreGenuine ==
    \A i \in Correct, s \in Seqs : Known(i, s) => Proposed(i, requests[i][s].tx, s)

\* The leader proposes a demo transaction once.
LeaderAsks ==
    \A s \in Seqs : Known(Leader, s) =>
        /\ Made(Own(s), s, attempts)
        /\ Own(s).req \in Demo =>
              \A t \in Seqs \ {s} : Known(Leader, t) => Own(t).req # Own(s).req

GenuineInv ==
    /\ ViewIsFirst
    /\ RequestsAreSent
    /\ Leader \in Correct => ProposalsAreGenuine /\ EntriesAreGenuine /\ LeaderAsks

-----------------------------------------------------------------------------
(* What a step does to requests.                                            *)

NewMessagesAreGenuine ==
    \A m \in net' \ net :
        /\ m.type = "CLIENT_REQUEST" => m.req \in Requests \ Demo /\ attempts'[m.req] > 0
        /\ m.type = "PRE_PREPARE" /\ m.sender = Leader => Proposed(m.dst, m.request, m.seq)'

\* At most one entry is stored or carried on with.
Stores(i, s, r) ==
    /\ requests' = [requests EXCEPT ![i][s] = r]
    /\ r # NoRequest
    /\ \/ Known(i, s) /\ r.tx = requests[i][s].tx
       \/ ~Known(i, s) /\ i # Leader /\ Proposed(i, r.tx, s)
       \/ /\ ~Known(i, s) /\ i = Leader /\ Made(r.tx, s, attempts')
          /\ r.tx.req \in Demo => attempts[r.tx.req] = 0

GenuineStep ==
    /\ view' = view
    /\ \A q \in Requests : attempts'[q] >= attempts[q] /\ attempts'[q] \in Int
    /\ NewMessagesAreGenuine
    /\ Leader \in Correct =>
          requests' = requests \/ \E i \in Correct, s \in Seqs : \E r : Stores(i, s, r)

LEMMA StoresKeep ==
    ASSUME TypeOK,
           requests' = requests \/ \E i \in Correct, s \in Seqs : \E r : Stores(i, s, r),
           NEW j \in Correct, NEW t \in Seqs
    PROVE  /\ Known(j, t) => Known(j, t)' /\ requests'[j][t].tx = requests[j][t].tx
           /\ Known(j, t)' /\ ~Known(j, t) => Stores(j, t, requests'[j][t])
<1>1. CASE requests' = requests
  BY <1>1 DEF Known
<1>2. CASE \E i \in Correct, s \in Seqs : \E r : Stores(i, s, r)
  <2>1. PICK i \in Correct, s \in Seqs : \E r : Stores(i, s, r)
    BY <1>2
  <2>2. PICK r : Stores(i, s, r)
    BY <2>1
  <2>3. /\ requests \in [Sites -> [Seqs -> RequestStates \cup {NoRequest}]]
        /\ i \in Sites /\ j \in Sites
    BY DEF TypeOK, Correct
  <2>4. requests' = [requests EXCEPT ![i][s] = r] /\ r # NoRequest
    BY <2>2 DEF Stores
  <2>5. CASE j = i /\ t = s
    <3>1. requests'[j][t] = r
      BY <2>3, <2>4, <2>5
    <3>2. Known(j, t)'
      BY <2>4, <3>1 DEF Known
    <3>3. Known(j, t) => r.tx = requests[j][t].tx
      BY <2>2, <2>5 DEF Stores
    <3> QED
      BY <2>2, <2>5, <3>1, <3>2, <3>3
  <2>6. CASE j # i \/ t # s
    <3>1. requests'[j][t] = requests[j][t]
      BY <2>3, <2>4, <2>6
    <3> QED
      BY <3>1 DEF Known
  <2> QED
    BY <2>5, <2>6
<1> QED
  BY <1>1, <1>2

LEMMA OneIsStored ==
    ASSUME TypeOK,
           requests' = requests \/ \E i \in Correct, s \in Seqs : \E r : Stores(i, s, r),
           NEW j \in Correct, NEW s \in Seqs, NEW t \in Seqs \ {s},
           Known(j, s)', Known(j, t)'
    PROVE  Known(j, s) \/ Known(j, t)
<1>1. SUFFICES ASSUME ~Known(j, s), ~Known(j, t)
               PROVE  FALSE
  OBVIOUS
<1>2. requests' = [requests EXCEPT ![j][s] = requests'[j][s]]
  BY <1>1, StoresKeep DEF Stores
<1>3. requests \in [Sites -> [Seqs -> RequestStates \cup {NoRequest}]] /\ j \in Sites
  BY DEF TypeOK, Correct
<1>4. requests'[j][t] = requests[j][t]
  BY <1>2, <1>3
<1> QED
  BY <1>1, <1>4 DEF Known

LEMMA GenuineStepKeeps ==
    ASSUME TypeOK, GenuineInv, GenuineStep
    PROVE  GenuineInv'
<1>1. attempts \in [Requests -> Int] /\ net \in SUBSET Messages
  BY DEF TypeOK
<1>2. ViewIsFirst'
  BY DEF GenuineInv, GenuineStep, ViewIsFirst
<1>3. RequestsAreSent'
  <2>1. \A q \in Requests :
            attempts[q] \in Int /\ attempts'[q] \in Int /\ attempts'[q] >= attempts[q]
    BY <1>1 DEF GenuineStep
  <2>2. ASSUME NEW m \in net', m.type = "CLIENT_REQUEST"
        PROVE  m.req \notin Demo /\ attempts'[m.req] > 0
    <3>1. CASE m \in net
      <4>1. m.req \in Requests /\ attempts[m.req] > 0 /\ m.req \notin Demo
        BY <1>1, <2>2, <3>1, MessageFields DEF GenuineInv, RequestsAreSent
      <4> QED
        BY <2>1, <4>1
    <3>2. CASE m \notin net
      BY <2>2, <3>2 DEF GenuineStep, NewMessagesAreGenuine
    <3> QED
      BY <3>1, <3>2
  <2>3. \A q \in Requests : attempts'[q] >= 0
    BY <2>1 DEF GenuineInv, RequestsAreSent
  <2> QED
    BY <2>2, <2>3 DEF RequestsAreSent
<1>4. ASSUME Leader \in Correct
      PROVE  ProposalsAreGenuine' /\ EntriesAreGenuine' /\ LeaderAsks'
  <2>1. requests' = requests \/ \E i \in Correct, s \in Seqs : \E r : Stores(i, s, r)
    BY <1>4 DEF GenuineStep
  <2>2. \A s \in Seqs : Known(Leader, s) => Known(Leader, s)' /\ Own(s)' = Own(s)
    <3>1. Leader' = Leader
      BY DEF Leader, get_leader
    <3> QED
      BY <1>4, <2>1, <3>1, StoresKeep DEF Own
  <2>3. \A i, tx : \A s \in Seqs : Proposed(i, tx, s) => Proposed(i, tx, s)'
    BY <2>2 DEF Proposed
  <2>4. \A tx, s : Made(tx, s, attempts) => Made(tx, s, attempts')
    BY <1>1 DEF Made, Genuine, GenuineStep
  <2>5. ProposalsAreGenuine'
    <3>1. ASSUME NEW m \in net', m.type = "PRE_PREPARE", m.sender = Leader
          PROVE  Proposed(m.dst, m.request, m.seq)'
      <4>1. CASE m \in net
        <5>1. m.seq \in Seqs
          BY <1>1, <3>1, <4>1, MessageFields
        <5> QED
          BY <1>4, <2>3, <3>1, <4>1, <5>1 DEF GenuineInv, ProposalsAreGenuine
      <4>2. CASE m \notin net
        BY <3>1, <4>2 DEF GenuineStep, NewMessagesAreGenuine
      <4> QED
        BY <4>1, <4>2
    <3> QED
      BY <3>1 DEF ProposalsAreGenuine, Leader, get_leader
  <2>6. ASSUME NEW s \in Seqs, Known(Leader, s)', ~Known(Leader, s)
        PROVE  Made(Own(s)', s, attempts') /\ (Own(s)'.req \in Demo => attempts[Own(s)'.req] = 0)
    <3>1. Stores(Leader, s, requests'[Leader][s])
      BY <1>4, <2>1, <2>6, StoresKeep DEF Leader, get_leader
    <3> QED
      BY <2>6, <3>1 DEF Stores, Own, Leader, get_leader
  <2>7. EntriesAreGenuine'
    <3>1. ASSUME NEW i \in Correct, NEW s \in Seqs, Known(i, s)'
          PROVE  Proposed(i, requests[i][s].tx, s)'
      <4>1. CASE Known(i, s)
        <5>1. Proposed(i, requests[i][s].tx, s) /\ requests'[i][s].tx = requests[i][s].tx
          BY <1>4, <2>1, <4>1, StoresKeep DEF GenuineInv, EntriesAreGenuine
        <5> QED
          BY <2>2, <5>1 DEF Proposed
      <4>2. CASE ~Known(i, s) /\ i # Leader
        <5>1. Proposed(i, requests'[i][s].tx, s)
          BY <2>1, <3>1, <4>2, StoresKeep DEF Stores
        <5> QED
          BY <2>2, <5>1 DEF Proposed
      <4>3. CASE ~Known(i, s) /\ i = Leader
        BY <2>6, <3>1, <4>3 DEF Proposed, Made, Genuine, CopyOf, Own, Leader, get_leader
      <4> QED
        BY <4>1, <4>2, <4>3
    <3> QED
      BY <3>1 DEF EntriesAreGenuine
  <2>8. LeaderAsks'
    <3>1. ASSUME NEW s \in Seqs, Known(Leader, s)'
          PROVE  Made(Own(s)', s, attempts')
      <4>1. CASE Known(Leader, s)
        <5>1. Made(Own(s), s, attempts)
          BY <1>4, <4>1 DEF GenuineInv, LeaderAsks
        <5> QED
          BY <2>2, <2>4, <4>1, <5>1
      <4>2. CASE ~Known(Leader, s)
        BY <2>6, <3>1, <4>2
      <4> QED
        BY <4>1, <4>2
    <3>2. ASSUME NEW s \in Seqs, NEW t \in Seqs \ {s}, Known(Leader, s)', Known(Leader, t)',
                 Own(s)'.req \in Demo
          PROVE  Own(t)'.req # Own(s)'.req
      \* One of the two was there before, and has been asked for.
      <4>1. Known(Leader, s) \/ Known(Leader, t)
        BY <1>4, <2>1, <3>2, OneIsStored DEF Leader, get_leader
      <4>2. CASE Known(Leader, s) /\ Known(Leader, t)
        BY <1>4, <2>2, <3>2, <4>2 DEF GenuineInv, LeaderAsks
      <4>3. CASE Known(Leader, s) /\ ~Known(Leader, t)
        <5>1. attempts[Own(s)'.req] > 0
          BY <1>4, <2>2, <4>3 DEF GenuineInv, LeaderAsks, Made, Genuine
        <5>2. Own(t)'.req \in Demo => attempts[Own(t)'.req] = 0
          BY <2>6, <3>2, <4>3
        <5> QED
          BY <3>2, <5>1, <5>2
      <4>4. CASE ~Known(Leader, s) /\ Known(Leader, t)
        <5>1. attempts[Own(t)'.req] > 0
          BY <1>4, <2>2, <4>4 DEF GenuineInv, LeaderAsks, Made, Genuine
        <5>2. attempts[Own(s)'.req] = 0
          BY <2>6, <3>2, <4>4
        <5> QED
          BY <5>1, <5>2
      <4> QED
        BY <4>1, <4>2, <4>3, <4>4
    <3> QED
      BY <3>1, <3>2 DEF LeaderAsks
  <2> QED
    BY <2>5, <2>7, <2>8
<1> QED
  BY <1>2, <1>3, <1>4 DEF GenuineInv, Leader, get_leader

-----------------------------------------------------------------------------
(* Every step of the protocol is a genuine step.                            *)

NothingAsked(msgs) ==
    \A m \in msgs : m \in net \/ m.type \notin {"PRE_PREPARE", "CLIENT_REQUEST"}

\* A step that stores nothing.
LEMMA QuietIsGenuine ==
    ASSUME TypeOK, UNCHANGED <<requests, view, attempts>>, NothingAsked(net')
    PROVE  GenuineStep
<1>1. \A q \in Requests : attempts'[q] \in Int /\ attempts'[q] >= attempts[q]
  BY DEF TypeOK
<1> QED
  BY <1>1 DEF GenuineStep, NothingAsked, NewMessagesAreGenuine

\* Carrying on with an entry that was stored or that is a copy of the leader's.
LEMMA FollowedIsGenuine ==
    ASSUME TypeOK, NEW i \in Correct, NEW s \in Seqs, NEW r, NEW msgs, NEW r2,
           Followed(i, s, r, msgs, r2), NothingAsked(msgs),
           UNCHANGED <<view, attempts>>,
           Leader \in Correct =>
               \/ Known(i, s) /\ requests[i][s].tx = r.tx
               \/ ~Known(i, s) /\ i # Leader /\ Proposed(i, r.tx, s)
    PROVE  GenuineStep
<1>1. \A q \in Requests : attempts'[q] \in Int /\ attempts'[q] >= attempts[q]
  BY DEF TypeOK
<1>2. NothingAsked(net')
  BY DEF Followed, NothingAsked, Broadcast
<1>3. requests' = [requests EXCEPT ![i][s] = r2] /\ r2.tx = r.tx /\ r2 # NoRequest
  BY DataAssumption DEF Followed
<1>4. Leader \in Correct => Stores(i, s, r2)
  BY <1>3 DEF Stores
<1> QED
  BY <1>1, <1>2, <1>4 DEF GenuineStep, NothingAsked, NewMessagesAreGenuine

\* A leader proposes a request that was made, and forges it for Victim alone.
LEMMA ProposalIsGenuine ==
    ASSUME IInv, GenuineInv, NEW i \in Correct, is_leader(i, view[i]),
           NEW tx \in Txs, NEW phase \in {"pre_prepare", "prepare"}, Propose(i, tx, phase),
           NEW old \in SUBSET net,
           net' = old \cup ProposalMessages(i, lastSeq[i] + 1, tx),
           \A q \in Requests : attempts'[q] >= attempts[q] /\ attempts'[q] \in Int,
           Made(tx, lastSeq[i] + 1, attempts'), tx.req \in Demo => attempts[tx.req] = 0
    PROVE  GenuineStep
<1>0. PICK s : s = lastSeq[i] + 1
  OBVIOUS
<1>r. PICK r : r = [NewRequest(tx, hash_message(tx), {i}) EXCEPT !.phase = phase]
  OBVIOUS
<1>1. view' = view /\ requests' = [requests EXCEPT ![i][s] = r] /\ s \in Seqs
  BY <1>0, <1>r DEF Propose
<1>2. i = Leader /\ i \in Sites /\ Leader' = Leader
  BY DEF GenuineInv, ViewIsFirst, is_leader, Leader, get_leader, Correct
<1>3. ~Known(i, s)
  <2>1. lastSeq[i] \in Int
    BY <1>2 DEF IInv, TypeOK
  <2> QED
    BY <1>0, <1>1, <2>1 DEF IInv, NothingAhead
<1>4. r.tx = tx /\ r \in RequestStates
  BY <1>2, <1>r DEF NewRequest, RequestStates, hash_message, Digests
<1>5. Stores(i, s, r)
  BY <1>0, <1>1, <1>2, <1>3, <1>4, DataAssumption DEF Stores
<1>6. Known(Leader, s)' /\ Own(s)' = tx
  <2>1. requests'[i][s] = r
    BY <1>1, <1>2 DEF IInv, TypeOK
  <2> QED
    BY <1>2, <1>4, <2>1, DataAssumption DEF Known, Own
<1>7. NewMessagesAreGenuine
  <2>1. ASSUME NEW m \in BroadcastPrePrepare(i, s, tx)
        PROVE  m.type = "PRE_PREPARE" /\ Proposed(m.dst, m.request, m.seq)'
    <3>1. /\ m.type = "PRE_PREPARE" /\ m.seq = s
          /\ m.request.req = tx.req /\ m.request.id = tx.id
          /\ m.request.fake => m.dst = Victim /\ i \in Malicious
      BY DEF BroadcastPrePrepare, ProposalFor, Made, Genuine, Txs
    <3> QED
      BY <1>2, <1>6, <3>1 DEF Proposed, CopyOf
  <2>2. \A m \in Broadcast("PREPARE", i, s, hash_message(tx)) : m.type = "PREPARE"
    BY DEF Broadcast
  <2>3. \A m \in net' \ net : m \in BroadcastPrePrepare(i, s, tx)
                                 \/ m \in Broadcast("PREPARE", i, s, hash_message(tx))
    BY <1>0 DEF ProposalMessages
  <2> QED
    BY <2>1, <2>2, <2>3 DEF NewMessagesAreGenuine
<1> QED
  BY <1>1, <1>5, <1>7 DEF GenuineStep

\* Taking a message: a proposal is accepted from the leader alone.
LEMMA HandleMessageIsGenuine ==
    ASSUME IInv, GenuineInv, NEW i \in Correct, NEW m \in Messages, m.dst = i,
           m \in net \/ (m.type # "CLIENT_REQUEST" /\ m.sender \notin Correct),
           HandleMessage(i, m)
    PROVE  GenuineStep
<1> USE MessageFields
<1>0. i \in Sites /\ NothingAsked(net \ {m}) /\ TypeOK
  BY DEF Correct, NothingAsked, IInv
<1>1. ASSUME Ignore(m)
      PROVE  GenuineStep
  BY <1>0, <1>1, QuietIsGenuine DEF Ignore, protocolVars, NothingAsked
<1>2. CASE HandlePrePrepare(i, m)
  <2>0. m.type = "PRE_PREPARE" /\ m.seq \in Seqs /\ m.digest \in Digests /\ m.request \in Txs
    BY <1>2 DEF HandlePrePrepare
  <2>1. CASE AcceptPrePrepare(i, m)
    <3> DEFINE r0   == NewRequest(m.request, m.digest, {})
               r1   == [r0 EXCEPT !.prepares = @ \cup {i}, !.phase = "prepare"]
               msgs == (net \ {m}) \cup Broadcast("PREPARE", i, m.seq, m.digest)
    <3>1. r1 \in RequestStates /\ r1.tx = m.request
      BY <1>0, <2>0 DEF NewRequest, RequestStates
    <3>2. /\ CheckPrepareQuorum(i, m.seq, r1, msgs) /\ ValidPrePrepare(i, m)
          /\ UNCHANGED <<view, attempts>> /\ ~Known(i, m.seq)
      BY <2>1 DEF AcceptPrePrepare, RecordOwnPrepare, protocolVars
    <3>3. Leader \in Correct => i # Leader /\ Proposed(i, m.request, m.seq)
      <4>1. m.sender = Leader
        BY <1>0, <3>2 DEF ValidPrePrepare, GenuineInv, ViewIsFirst, Leader
      <4>2. m \in net => m.sender # m.dst
        BY <2>0 DEF IInv, MessagesAreSound, Sound
      <4> QED
        BY <2>0, <4>1, <4>2 DEF GenuineInv, ProposalsAreGenuine
    <3>4. NothingAsked(msgs)
      BY DEF NothingAsked, Broadcast
    <3> HIDE DEF r1, msgs
    <3>5. PICK r2 : Followed(i, m.seq, r1, msgs, r2)
      BY <1>0, <2>0, <3>1, <3>2, PrepareFollows
    <3> QED
      BY <1>0, <2>0, <3>1, <3>2, <3>3, <3>4, <3>5, FollowedIsGenuine
  <2>2. CASE DetectEquivocation(i, m)
    BY <1>0, <2>2, QuietIsGenuine DEF DetectEquivocation, NothingAsked
  <2> QED
    BY <1>1, <1>2, <2>1, <2>2 DEF HandlePrePrepare
<1>3. CASE HandlePrepare(i, m)
  <2> DEFINE r  == requests[i][m.seq]
             r1 == [r EXCEPT !.prepares = @ \cup {m.sender}]
  <2>1. CASE MatchingVote(i, m) /\ m.sender \notin r.prepares
    <3>1. /\ Known(i, m.seq) /\ r \in RequestStates
          /\ m.seq \in Seqs /\ m.sender \in Sites
      BY <1>0, <1>3, <2>1 DEF HandlePrepare, MatchingVote, Known, TypeOK
    <3>2. r1 \in RequestStates /\ r1.tx = r.tx
      BY <3>1 DEF RequestStates
    <3>3. CheckPrepareQuorum(i, m.seq, r1, net \ {m}) /\ UNCHANGED <<view, attempts>>
      BY <1>3, <2>1 DEF HandlePrepare, protocolVars
    <3> HIDE DEF r1
    <3>4. PICK r2 : Followed(i, m.seq, r1, net \ {m}, r2)
      BY <1>0, <3>1, <3>2, <3>3, PrepareFollows
    <3> QED
      BY <1>0, <3>1, <3>2, <3>3, <3>4, FollowedIsGenuine
  <2> QED
    BY <1>1, <1>3, <2>1 DEF HandlePrepare
<1>4. CASE HandleCommit(i, m)
  <2> DEFINE r  == requests[i][m.seq]
             r1 == [r EXCEPT !.commits = @ \cup {m.sender}]
  <2>1. CASE MatchingVote(i, m) /\ m.sender \notin r.commits
    <3>1. /\ Known(i, m.seq) /\ r \in RequestStates
          /\ m.seq \in Seqs /\ m.sender \in Sites
      BY <1>0, <1>4, <2>1 DEF HandleCommit, MatchingVote, Known, TypeOK
    <3>2. r1 \in RequestStates /\ r1.tx = r.tx
      BY <3>1 DEF RequestStates
    <3>3. CheckCommitQuorum(i, m.seq, r1, net \ {m}) /\ UNCHANGED <<view, attempts>>
      BY <1>4, <2>1 DEF HandleCommit, protocolVars
    <3> HIDE DEF r1
    <3>4. PICK r2 : Followed(i, m.seq, r1, net \ {m}, r2)
      BY <1>0, <3>1, <3>2, <3>3, CommitFollows
    <3> QED
      BY <1>0, <3>1, <3>2, <3>3, <3>4, FollowedIsGenuine
  <2> QED
    BY <1>1, <1>4, <2>1 DEF HandleCommit
<1>5. CASE HandleCheckpoint(i, m)
  BY <1>0, <1>5, QuietIsGenuine DEF HandleCheckpoint, protocolVars, NothingAsked
<1>6. CASE HandleClientRequest(i, m)
  <2>0. /\ m.type = "CLIENT_REQUEST" /\ m.req \in Requests
        /\ m \in [type: {"CLIENT_REQUEST"}, dst: Sites, req: Requests]
        /\ m.req \notin Demo /\ attempts[m.req] > 0
    BY <1>6 DEF HandleClientRequest, Messages, GenuineInv, RequestsAreSent
  <2>1. CASE ProposeClientRequest(i, m)
    <3>0. PICK tx : tx = [req |-> m.req, id |-> lastSeq[i] + 1, fake |-> FALSE]
      OBVIOUS
    <3>1. /\ Propose(i, tx, "prepare") /\ attempts' = attempts /\ is_leader(i, view[i])
          /\ net' = (net \ {m}) \cup ProposalMessages(i, lastSeq[i] + 1, tx)
      BY <2>1, <3>0 DEF ProposeClientRequest
    <3>2. tx \in Txs
      <4>1. lastSeq[i] + 1 \in Ids
        BY <3>1, DataAssumption DEF Propose
      <4> QED
        BY <2>0, <3>0, <4>1 DEF Txs
    <3>3. Made(tx, lastSeq[i] + 1, attempts') /\ tx.req \notin Demo
      BY <2>0, <3>0, <3>1 DEF Made, Genuine
    <3>4. \A q \in Requests : attempts'[q] >= attempts[q] /\ attempts'[q] \in Int
      BY <1>0, <3>1 DEF TypeOK
    <3>5. net \ {m} \in SUBSET net
      OBVIOUS
    <3> QED
      BY <3>1, <3>2, <3>3, <3>4, <3>5, ProposalIsGenuine
  <2>2. CASE ReplyFromCache(i, m)
    BY <1>0, <2>2, QuietIsGenuine DEF ReplyFromCache, protocolVars, NothingAsked
  <2>3. CASE Redirect(i, m)
    <3> DEFINE n == [m EXCEPT !.dst = get_leader(view[i])]
    <3>1. n.type = "CLIENT_REQUEST" /\ n.req = m.req
      BY <2>0
    <3>2. /\ UNCHANGED <<requests, view, attempts>>
          /\ net' \subseteq net \cup {n}
      BY <2>3 DEF Redirect, protocolVars
    <3> HIDE DEF n
    <3>3. NewMessagesAreGenuine
      BY <2>0, <3>1, <3>2 DEF NewMessagesAreGenuine
    <3>4. \A q \in Requests : attempts'[q] >= attempts[q] /\ attempts'[q] \in Int
      BY <1>0, <3>2 DEF TypeOK
    <3> QED
      BY <3>2, <3>3, <3>4 DEF GenuineStep
  <2> QED
    BY <1>1, <1>6, <2>1, <2>2, <2>3 DEF HandleClientRequest, RejectAboveWatermark
<1> QED
  BY <1>2, <1>3, <1>4, <1>5, <1>6 DEF HandleMessage

LEMMA StepIsGenuine == IInv /\ GenuineInv /\ [Next]_vars => GenuineStep
<1> SUFFICES ASSUME IInv, GenuineInv, [Next]_vars
             PROVE  GenuineStep
  OBVIOUS
<1>0. TypeOK
  BY DEF IInv
<1>1. CASE UNCHANGED vars
  BY <1>0, <1>1, QuietIsGenuine DEF vars, NothingAsked
<1>2. ASSUME NEW q \in Requests, NEW d \in Sites, SendRequest(q, d)
      PROVE  GenuineStep
  <2>1. /\ attempts' = [attempts EXCEPT ![q] = @ + 1]
        /\ net' = net \cup {[type |-> "CLIENT_REQUEST", dst |-> d, req |-> q]}
        /\ UNCHANGED <<requests, view>> /\ q \notin Demo
    BY <1>2 DEF SendRequest, protocolVars
  <2>2. \A p \in Requests : attempts'[p] >= attempts[p] /\ attempts'[p] \in Int
    BY <1>0, <2>1 DEF TypeOK
  <2>3. attempts'[q] > 0
    BY <1>0, <2>1 DEF TypeOK, GenuineInv, RequestsAreSent
  <2>4. NewMessagesAreGenuine
    BY <2>1, <2>3 DEF NewMessagesAreGenuine
  <2> QED
    BY <2>1, <2>2, <2>4 DEF GenuineStep
<1>3. ASSUME NEW i \in Correct, ProcessMessage(i)
      PROVE  GenuineStep
  BY <1>0, <1>3, HandleMessageIsGenuine DEF ProcessMessage, TypeOK
<1>4. ASSUME NEW i \in Correct, ProcessFaultyMessage(i)
      PROVE  GenuineStep
  <2>1. PICK m \in FaultyMessages(i) : HandleMessage(i, m)
    BY <1>4 DEF ProcessFaultyMessage
  <2>2. m.sender \notin Correct /\ m.dst = i /\ m.type # "CLIENT_REQUEST"
    BY DEF FaultyMessages, Correct
  <2> QED
    BY <1>0, <2>1, <2>2, FaultyMessagesType, HandleMessageIsGenuine
<1>5. ASSUME NEW i \in Correct, NEW q \in Demo, SubmitRequest(i, q)
      PROVE  GenuineStep
  <2>0. PICK tx : tx = [req |-> q, id |-> DemoId[q], fake |-> FALSE]
    OBVIOUS
  <2>1. /\ Propose(i, tx, "pre_prepare") /\ is_leader(i, view[i])
        /\ attempts[q] = 0 /\ attempts' = [attempts EXCEPT ![q] = 1]
        /\ net' = net \cup ProposalMessages(i, lastSeq[i] + 1, tx)
    BY <1>5, <2>0 DEF SubmitRequest
  <2>2. \A p \in Requests : attempts'[p] >= attempts[p] /\ attempts'[p] \in Int
    BY <1>0, <2>1 DEF TypeOK
  <2>3. tx \in Txs /\ q \in Requests
    BY <2>0, DataAssumption DEF Txs
  <2>4. Made(tx, lastSeq[i] + 1, attempts') /\ attempts[tx.req] = 0
    BY <1>0, <2>0, <2>1, <2>3 DEF TypeOK, Made, Genuine
  <2>5. net \in SUBSET net
    OBVIOUS
  <2> QED
    BY <2>1, <2>2, <2>3, <2>4, <2>5, ProposalIsGenuine
<1>6. ASSUME NEW i \in Correct, FinishSendPrepare(i)
      PROVE  GenuineStep
  <2>1. PICK s \in sending[i] :
           /\ RecordOwnPrepare(i, s, requests[i][s], net)
           /\ UNCHANGED <<view, viewChangeSent, lastSeq, attempts>>
    BY <1>6 DEF FinishSendPrepare
  <2> DEFINE r  == requests[i][s]
             r1 == [r EXCEPT !.prepares = @ \cup {i}, !.phase = "prepare"]
  <2>2. i \in Sites /\ s \in Seqs /\ Known(i, s) /\ r \in RequestStates
    BY DEF Correct, IInv, TypeOK, SendingIsKnown, Known
  <2>3. r1 \in RequestStates /\ r1.tx = r.tx
    BY <2>2 DEF RequestStates
  <2>4. CheckPrepareQuorum(i, s, r1, net) /\ NothingAsked(net)
    BY <2>1 DEF RecordOwnPrepare, NothingAsked
  <2> HIDE DEF r1
  <2>5. PICK r2 : Followed(i, s, r1, net, r2)
    BY <1>0, <2>2, <2>3, <2>4, PrepareFollows
  <2> QED
    BY <1>0, <2>1, <2>2, <2>3, <2>4, <2>5, FollowedIsGenuine
<1>7. Next => GenuineStep
  BY <1>2, <1>3, <1>4, <1>5, <1>6, DataAssumption DEF Next
<1> QED
  BY <1>1, <1>7

-----------------------------------------------------------------------------
LEMMA InitGenuineInv == Init => GenuineInv
BY DEF Init, GenuineInv, ViewIsFirst, RequestsAreSent, ProposalsAreGenuine,
       EntriesAreGenuine, LeaderAsks, Known, Correct

\* Of more than F nodes, one is not Victim.
LEMMA SomeoneElse ==
    ASSUME NEW P \in SUBSET Sites, Cardinality(P) > F
    PROVE  \E j \in P : j # Victim
<1>1. SUFFICES ASSUME P \subseteq {Victim}
               PROVE  FALSE
  OBVIOUS
<1>2. Cardinality({Victim}) = 1 /\ IsFiniteSet({Victim})
  BY FS_Singleton
<1>3. Cardinality(P) <= 1 /\ Cardinality(P) \in Nat
  BY <1>1, <1>2, FS_Subset, SiteSets
<1> QED
  BY <1>3, FaultAssumption

\* What is decided rests on a genuine entry: more than F correct nodes hold it,
\* and the leader forged it for one at most.
LEMMA DecidedIsGenuine ==
    ASSUME DecidedIsPrepared, GenuineInv
    PROVE  OnlyRequested
<1> SUFFICES ASSUME NEW i \in Correct, NEW s \in Seqs,
                    Decided(i, s), get_leader(view[i]) \in Correct
             PROVE  Genuine(requests[i][s].tx, attempts)
  BY DEF OnlyRequested, Genuine
<1> DEFINE Holders == {j \in Correct : Prepared(j, s)
                          /\ requests[j][s].tx = requests[i][s].tx}
<1>1. Holders \in SUBSET Sites /\ Cardinality(Holders) > F
  BY DEF DecidedIsPrepared, Correct
<1>2. PICK j \in Holders : j # Victim
  BY <1>1, SomeoneElse
<1>3. Known(j, s) /\ j \in Correct /\ requests[j][s].tx = requests[i][s].tx
  BY DEF Prepared
<1>4. Leader \in Correct
  BY DEF GenuineInv, ViewIsFirst, Correct, Leader
<1>5. Proposed(j, requests[j][s].tx, s) /\ Made(Own(s), s, attempts)
  BY <1>3, <1>4 DEF GenuineInv, EntriesAreGenuine, LeaderAsks, Proposed
<1> QED
  BY <1>2, <1>3, <1>5 DEF Proposed, CopyOf, Made, Genuine

\* Under a leader that runs this code, malicious or not, what a correct node
\* executes was asked for: never the forged copy, never a faulty backup's
\* invention (_send_pre_prepare, _handle_pre_prepare).
THEOREM OnlyRequestedHolds == Spec => []OnlyRequested
<1>1. IInv /\ GenuineInv /\ [Next]_vars => GenuineInv'
  BY StepIsGenuine, GenuineStepKeeps DEF IInv
<1>2. DecidedIsPrepared /\ GenuineInv => OnlyRequested
  BY DecidedIsGenuine
<1> QED
  BY <1>1, <1>2, InitGenuineInv, Invariance, DecidedIsPreparedHolds, PTL DEF Spec
-----------------------------------------------------------------------------
(* Sums over finite sets.  MapThenSumSet is a recursive function on the      *)
(* subsets of its argument; the induction below needs no operator parameter. *)

Smaller == {p \in Nat \X Nat : p[1] < p[2]}

\* Induction on the natural numbers, said of a set.
LEMMA NatInductionForSets ==
    ASSUME NEW T, 0 \in T, \A n \in Nat \cap T : n + 1 \in T
    PROVE  Nat \subseteq T
<1>1. SUFFICES ASSUME Nat \ T # {}
               PROVE  FALSE
  OBVIOUS
<1>2. IsWellFoundedOn(Smaller, Nat)
  BY NatLessThanWellFounded DEF OpToRel, Smaller
<1>3. PICK n \in Nat \ T : \A k \in Nat \ T : <<k, n>> \notin Smaller
  BY <1>1, <1>2, WFMin, Nat \ T \subseteq Nat
<1>4. n - 1 \in Nat /\ <<n - 1, n>> \in Smaller
  BY DEF Smaller
<1> QED
  BY <1>3, <1>4

First(S) == CHOOSE t \in S : TRUE

SumStep(a, sum, S) ==
    IF S = {} THEN 0 ELSE Effect(First(S), a) + sum[S \ {First(S)}]

SumsOver(S, a, sum) == sum = [R \in SUBSET S |-> SumStep(a, sum, R)]

LEMMA NetEffectIsSum ==
    ASSUME NEW S, NEW a
    PROVE  NetEffect(S, a) = (CHOOSE sum : SumsOver(S, a, sum))[S]
BY Zenon DEF NetEffect, MapThenSumSet, MapThenFoldSet, SumsOver, SumStep, First

LEMMA SumExists ==
    ASSUME NEW S, IsFiniteSet(S), NEW a, \A t \in S : Effect(t, a) \in Int
    PROVE  \E sum \in [SUBSET S -> Int] : SumsOver(S, a, sum)
<1> DEFINE SumsTo(n, sum) == \A R \in SUBSET S : Cardinality(R) <= n => sum[R] = SumStep(a, sum, R)
           T == {n \in Nat : \E sum \in [SUBSET S -> Int] : SumsTo(n, sum)}
<1>1. \A R \in SUBSET S : /\ IsFiniteSet(R) /\ Cardinality(R) \in Nat
                          /\ Cardinality(R) <= Cardinality(S)
  BY FS_Subset, FS_CardinalityType
<1>2. \A R \in SUBSET S : R # {} =>
         /\ First(R) \in R /\ Effect(First(R), a) \in Int
         /\ R \ {First(R)} \in SUBSET S
         /\ Cardinality(R \ {First(R)}) = Cardinality(R) - 1
  BY <1>1, FS_RemoveElement DEF First
<1>3. 0 \in T
  <2> DEFINE zero == [R \in SUBSET S |-> 0]
  <2>1. \A R \in SUBSET S : Cardinality(R) <= 0 => R = {}
    BY <1>1, FS_EmptySet
  <2>2. zero \in [SUBSET S -> Int]
    OBVIOUS
  <2>3. SumsTo(0, zero)
    BY <2>1 DEF SumStep
  <2> QED
    BY <2>2, <2>3
<1>4. ASSUME NEW n \in Nat \cap T
      PROVE  n + 1 \in T
  <2>1. PICK old \in [SUBSET S -> Int] : SumsTo(n, old)
    BY <1>4
  <2> DEFINE new == [R \in SUBSET S |->
                       IF Cardinality(R) <= n THEN old[R] ELSE SumStep(a, old, R)]
  <2>2. new \in [SUBSET S -> Int]
    BY <1>2 DEF SumStep
  <2>3. ASSUME NEW R \in SUBSET S, Cardinality(R) <= n + 1
        PROVE  new[R] = SumStep(a, new, R)
    <3>1. new[R] = SumStep(a, old, R)
      BY <2>1
    <3>2. CASE R = {}
      BY <3>1, <3>2 DEF SumStep
    <3>3. CASE R # {}
      <4> DEFINE rest == R \ {First(R)}
      <4>1. rest \in SUBSET S /\ Cardinality(rest) <= n
        BY <1>1, <1>2, <2>3, <3>3
      <4>2. new[rest] = old[rest]
        BY <4>1
      <4> QED
        BY <3>1, <3>3, <4>2 DEF SumStep
    <3> QED
      BY <3>2, <3>3
  <2>4. SumsTo(n + 1, new)
    BY <2>3
  <2> HIDE DEF new
  <2> QED
    BY <2>2, <2>4
<1>5. Cardinality(S) \in T
  <2> HIDE DEF T
  <2> QED
    BY <1>1, <1>3, <1>4, NatInductionForSets
<1>6. PICK sum \in [SUBSET S -> Int] : SumsTo(Cardinality(S), sum)
  BY <1>5
<1>7. sum = [R \in SUBSET S |-> SumStep(a, sum, R)]
  BY <1>1, <1>6
<1> QED
  BY <1>7 DEF SumsOver

LEMMA SumUnique ==
    ASSUME NEW S, IsFiniteSet(S), NEW a, NEW Q \in SUBSET S,
           NEW g, SumsOver(S, a, g), NEW h, SumsOver(Q, a, h)
    PROVE  \A R \in SUBSET Q : g[R] = h[R]
<1> DEFINE T == {n \in Nat : \A R \in SUBSET Q : Cardinality(R) = n => g[R] = h[R]}
<1>1. \A R \in SUBSET Q : IsFiniteSet(R) /\ Cardinality(R) \in Nat
  BY FS_Subset, FS_CardinalityType
<1>2. \A R \in SUBSET Q : g[R] = SumStep(a, g, R) /\ h[R] = SumStep(a, h, R)
  <2>1. \A R \in SUBSET S : g[R] = SumStep(a, g, R)
    BY Zenon DEF SumsOver
  <2>2. \A R \in SUBSET Q : h[R] = SumStep(a, h, R)
    BY Zenon DEF SumsOver
  <2> QED
    BY <2>1, <2>2
<1>3. 0 \in T
  BY <1>1, <1>2, FS_EmptySet DEF SumStep
<1>4. ASSUME NEW n \in Nat \cap T
      PROVE  n + 1 \in T
  <2>1. ASSUME NEW R \in SUBSET Q, Cardinality(R) = n + 1
        PROVE  g[R] = h[R]
    <3>1. R # {}
      BY <2>1, FS_EmptySet
    <3> DEFINE rest == R \ {First(R)}
    <3>2. First(R) \in R
      BY <3>1 DEF First
    <3>3. rest \in SUBSET Q /\ Cardinality(rest) = n
      <4>1. Cardinality(rest) = Cardinality(R) - 1
        BY <1>1, <3>2, FS_RemoveElement
      <4> QED
        BY <2>1, <4>1
    <3>4. g[rest] = h[rest]
      BY <1>4, <3>3
    <3> QED
      BY <1>2, <3>1, <3>4 DEF SumStep
  <2> QED
    BY <2>1
<1>5. Nat \subseteq T
  <2> HIDE DEF T
  <2> QED
    BY <1>3, <1>4, NatInductionForSets
<1> QED
  BY <1>1, <1>5

\* The sum of a finite set of transfers, taken apart at the element CHOOSE takes.
LEMMA NetEffectUnfolds ==
    ASSUME NEW S, IsFiniteSet(S), NEW a, \A t \in S : Effect(t, a) \in Int
    PROVE  /\ NetEffect(S, a) \in Int
           /\ S = {} => NetEffect(S, a) = 0
           /\ S # {} => First(S) \in S /\ NetEffect(S, a) =
                          Effect(First(S), a) + NetEffect(S \ {First(S)}, a)
<1> DEFINE sum(R) == CHOOSE f : SumsOver(R, a, f)
<1>1. ASSUME NEW R \in SUBSET S
      PROVE  /\ SumsOver(R, a, sum(R)) /\ NetEffect(R, a) = sum(R)[R]
             /\ NetEffect(R, a) \in Int
  <2>0. IsFiniteSet(R) /\ \A t \in R : Effect(t, a) \in Int
    BY FS_Subset
  <2>1. PICK f \in [SUBSET R -> Int] : SumsOver(R, a, f)
    BY <2>0, SumExists
  <2>2. SumsOver(R, a, sum(R))
    BY <2>1
  <2>3. NetEffect(R, a) = sum(R)[R]
    BY NetEffectIsSum
  <2> HIDE DEF sum
  <2>4. f[R] = sum(R)[R]
    BY <2>0, <2>1, <2>2, SumUnique
  <2> QED
    BY <2>1, <2>2, <2>3, <2>4
<1> HIDE DEF sum
<1>2. NetEffect(S, a) = SumStep(a, sum(S), S)
  BY <1>1 DEF SumsOver
<1>3. ASSUME S # {}
      PROVE  First(S) \in S /\ NetEffect(S, a) = Effect(First(S), a) + NetEffect(S \ {First(S)}, a)
  <2> DEFINE rest == S \ {First(S)}
  <2>1. SumsOver(rest, a, sum(rest)) /\ NetEffect(rest, a) = sum(rest)[rest]
    BY <1>1
  <2>2. sum(S)[rest] = sum(rest)[rest]
    BY <1>1, <2>1, SumUnique
  <2> QED
    BY <1>2, <1>3, <2>1, <2>2 DEF SumStep, First
<1> QED
  BY <1>1, <1>2, <1>3 DEF SumStep

\* ... and at any element.
LEMMA NetEffectTakes ==
    ASSUME NEW S, IsFiniteSet(S), NEW a, \A t \in S : Effect(t, a) \in Int, NEW x \in S
    PROVE  NetEffect(S, a) = Effect(x, a) + NetEffect(S \ {x}, a)
<1> DEFINE T == {n \in Nat : \A R \in SUBSET S : Cardinality(R) = n =>
                   \A y \in R : NetEffect(R, a) = Effect(y, a) + NetEffect(R \ {y}, a)}
<1>1. \A R \in SUBSET S : /\ IsFiniteSet(R) /\ Cardinality(R) \in Nat
                          /\ \A t \in R : Effect(t, a) \in Int
  BY FS_Subset, FS_CardinalityType
<1>2. 0 \in T
  BY <1>1, FS_EmptySet
<1>3. ASSUME NEW n \in Nat \cap T
      PROVE  n + 1 \in T
  <2>1. ASSUME NEW R \in SUBSET S, Cardinality(R) = n + 1, NEW y \in R
        PROVE  NetEffect(R, a) = Effect(y, a) + NetEffect(R \ {y}, a)
    <3> DEFINE z == First(R)
               Ry == R \ {y}
               Rz == R \ {z}
               Ryz == R \ {y, z}
    <3>1. z \in R /\ NetEffect(R, a) = Effect(z, a) + NetEffect(Rz, a)
      BY <1>1, <2>1, NetEffectUnfolds
    <3>2. CASE y = z
      BY <3>1, <3>2
    <3>3. CASE y # z
      <4>1. Ry \in SUBSET S /\ Rz \in SUBSET S /\ Ryz \in SUBSET S
        OBVIOUS
      <4>2. z \in Ry /\ y \in Rz /\ Ry \ {z} = Ryz /\ Rz \ {y} = Ryz
        BY <3>1, <3>3
      <4>3. Cardinality(Ry) = n /\ Cardinality(Rz) = n
        <5>1. Cardinality(Ry) = Cardinality(R) - 1 /\ Cardinality(Rz) = Cardinality(R) - 1
          BY <1>1, <3>1, FS_RemoveElement
        <5> QED
          BY <2>1, <5>1
      <4>4. NetEffect(Ry, a) = Effect(z, a) + NetEffect(Ryz, a)
        BY <1>3, <4>1, <4>2, <4>3
      <4>5. NetEffect(Rz, a) = Effect(y, a) + NetEffect(Ryz, a)
        BY <1>3, <4>1, <4>2, <4>3
      <4>6. Effect(y, a) \in Int /\ Effect(z, a) \in Int /\ NetEffect(Ryz, a) \in Int
        BY <1>1, <3>1, <4>1, NetEffectUnfolds
      <4>7. NetEffect(R, a) = Effect(z, a) + NetEffect(Rz, a)
        BY <3>1
      <4> HIDE DEF z, Ry, Rz, Ryz
      <4>8. NetEffect(R, a) = Effect(y, a) + NetEffect(Ry, a)
        BY <4>4, <4>5, <4>6, <4>7
      <4> QED
        BY <4>8 DEF Ry
    <3> QED
      BY <3>2, <3>3
  <2> QED
    BY <2>1
<1>4. Nat \subseteq T
  <2> HIDE DEF T
  <2> QED
    BY <1>2, <1>3, NatInductionForSets
<1>5. S \in SUBSET S /\ Cardinality(S) \in T
  BY <1>1, <1>4
<1> QED
  BY <1>5

\* One more transfer.
LEMMA NetEffectAdds ==
    ASSUME NEW S, IsFiniteSet(S), NEW a, NEW x, x \notin S,
           \A t \in S \cup {x} : Effect(t, a) \in Int
    PROVE  NetEffect(S \cup {x}, a) = NetEffect(S, a) + Effect(x, a) /\ NetEffect(S, a) \in Int
<1>1. IsFiniteSet(S \cup {x}) /\ (S \cup {x}) \ {x} = S
  BY FS_AddElement
<1>2. NetEffect(S, a) \in Int
  BY NetEffectUnfolds
<1>3. NetEffect(S \cup {x}, a) = Effect(x, a) + NetEffect(S, a)
  BY <1>1, NetEffectTakes
<1> QED
  BY <1>2, <1>3

-----------------------------------------------------------------------------
(* Balances and ledger.                                                     *)

\* No two transactions are stored in the ledger under the same tx_id: neither
\* two of the demo, nor one of the demo and a client request, whose tx_id is its
\* sequence number.
DistinctKeys ==
    /\ \A q, r \in Demo : DemoId[q] = DemoId[r] => q = r
    /\ (\A q \in Demo : DemoId[q] \notin Seqs) \/ Demo = Requests

\* Whoever pays is not who is paid.
NoSelfTransfer == \A q \in Requests : Op[q].src # Op[q].dst

\* The ledger holds what was executed, and the balances follow from it.
LedgerIsExecuted ==
    \A i \in Correct :
        /\ IsFiniteSet(ledger[i])
        /\ \A t \in ledger[i] :
              t.req \in Requests /\ \E s \in Seqs : Decided(i, s) /\ requests[i][s].tx = t

LedgerInv == LedgerIsExecuted /\ BalancesMatchLedger

LEMMA KeysDiffer ==
    ASSUME DistinctKeys, NEW s \in Seqs, NEW t \in Seqs \ {s}, NEW tries, NEW x, NEW y,
           Made(x, s, tries), Made(y, t, tries), x.req \in Demo => y.req # x.req
    PROVE  x.id # y.id
<1>1. x.req \in Requests /\ y.req \in Requests
  BY DEF Made, Genuine
<1>2. /\ x.req \in Demo => x.id = DemoId[x.req]
      /\ x.req \notin Demo => x.id = s
      /\ y.req \in Demo => y.id = DemoId[y.req]
      /\ y.req \notin Demo => y.id = t
  BY DEF Made
<1> QED
  BY <1>1, <1>2 DEF DistinctKeys

\* One more transfer.
LEMMA TransferAdds ==
    ASSUME NoSelfTransfer, NEW bal \in Balances, NEW S, IsFiniteSet(S),
           NEW x, x \notin S, \A t \in S \cup {x} : t.req \in Requests,
           \A a \in Accounts : bal[a] = InitialBalance + NetEffect(S, a)
    PROVE  \A a \in Accounts :
               Transferred(bal, Op[x.req])[a] = InitialBalance + NetEffect(S \cup {x}, a)
<1> TAKE a \in Accounts
<1>1. \A q \in Requests : Op[q].src \in Accounts /\ Op[q].dst \in Accounts /\ Op[q].amount \in Int
  BY DataAssumption DEF Transfers
<1>2. \A t \in S \cup {x} : Effect(t, a) \in Int
  BY <1>1 DEF Effect
<1>3. NetEffect(S \cup {x}, a) = NetEffect(S, a) + Effect(x, a) /\ NetEffect(S, a) \in Int
  BY <1>2, NetEffectAdds
<1>4. Op[x.req].src # Op[x.req].dst
  BY DEF NoSelfTransfer
<1>5. Transferred(bal, Op[x.req])[a] = bal[a] + Effect(x, a)
  BY <1>1, <1>4 DEF Transferred, Effect, Balances
<1> QED
  BY <1>2, <1>3, <1>5, DataAssumption

LEMMA LedgerStep ==
    ASSUME get_leader(0) \in Correct, DistinctKeys, NoSelfTransfer,
           IInv, QuietOrAdvance, DecidedIsPrepared', OnlyRequested', GenuineInv',
           LedgerInv
    PROVE  LedgerInv'
<1>1. \A i \in Correct, s \in Seqs : Decided(i, s) =>
          Decided(i, s)' /\ requests'[i][s].tx = requests[i][s].tx
  BY StepExecutesOnce
<1>2. CASE ExecutesNothing
  <2>1. LedgerIsExecuted'
    BY <1>1, <1>2 DEF LedgerInv, LedgerIsExecuted, ExecutesNothing
  <2>2. BalancesMatchLedger'
    BY <1>2 DEF LedgerInv, BalancesMatchLedger, ExecutesNothing
  <2> QED
    BY <2>1, <2>2 DEF LedgerInv
<1>3. CASE ~ExecutesNothing
  <2>1. PICK i \in Correct, s \in Seqs : \E r2 : Advance(i, s, r2)
    BY <1>3 DEF QuietOrAdvance, Quiet
  <2>2. PICK r2 : Advance(i, s, r2)
    BY <2>1
  <2>3. PICK x : x = r2.tx
    OBVIOUS
  <2>4. Executes(i, x) /\ ~Decided(i, s) /\ r2.decided /\ r2 # NoRequest
    BY <1>3, <2>2, <2>3, DataAssumption DEF Advance
  <2>5. /\ requests \in [Sites -> [Seqs -> RequestStates \cup {NoRequest}]]
        /\ balance \in [Sites -> Balances] /\ i \in Sites
        /\ balance' = [balance EXCEPT ![i] = BalanceAfter(i, x)]
        /\ ledger' = [ledger EXCEPT ![i] = LedgerAfter(i, x)]
        /\ DOMAIN ledger = Sites
    BY <2>4 DEF IInv, TypeOK, Correct, Executes
  <2>6. requests'[i][s] = r2 /\ Decided(i, s)'
    BY <2>2, <2>4, <2>5 DEF Advance, Decided, Known
  <2>7. Leader \in Correct /\ Leader' = Leader
    BY DEF Leader, get_leader
  \* What is executed was asked for, and nothing has its tx_id yet.
  <2>8. x.req \in Requests
    BY <2>3, <2>6, <2>7 DEF OnlyRequested, GenuineInv, ViewIsFirst, Leader, get_leader, Correct
  <2>9. ASSUME NEW t \in ledger[i]
        PROVE  t.id # x.id
    <3>1. PICK n \in Seqs : Decided(i, n) /\ requests[i][n].tx = t
      BY DEF LedgerInv, LedgerIsExecuted
    <3>2. n # s /\ Known(i, n)' /\ Known(i, s)' /\ requests'[i][n].tx = t
      BY <1>1, <2>4, <2>6, <3>1 DEF Decided
    <3>3. /\ Proposed(i, requests[i][n].tx, n)' /\ Proposed(i, requests[i][s].tx, s)'
          /\ LeaderAsks'
      BY <2>7, <3>2 DEF GenuineInv, EntriesAreGenuine
    <3>4. /\ Known(Leader, n)' /\ Known(Leader, s)'
          /\ Own(n)'.id = t.id /\ Own(s)'.id = x.id
      BY <2>3, <2>6, <3>2, <3>3 DEF Proposed, CopyOf
    <3>5. /\ Made(Own(n)', n, attempts') /\ Made(Own(s)', s, attempts')
          /\ Own(n)'.req \in Demo => Own(s)'.req # Own(n)'.req
      BY <3>2, <3>3, <3>4 DEF LeaderAsks
    <3> QED
      BY <3>2, <3>4, <3>5, KeysDiffer
  <2>10. /\ ledger'[i] = IF Succeeds(balance[i], x) THEN ledger[i] \cup {x} ELSE ledger[i]
         /\ balance'[i] = IF Succeeds(balance[i], x)
                          THEN Transferred(balance[i], Op[x.req]) ELSE balance[i]
    BY <2>5, <2>9 DEF LedgerAfter, BalanceAfter
  <2>11. \A j \in Correct \ {i} : ledger'[j] = ledger[j] /\ balance'[j] = balance[j]
    BY <2>5 DEF Correct
  <2>12. IsFiniteSet(ledger[i]) /\ \A t \in ledger[i] \cup {x} : t.req \in Requests
    BY <2>8 DEF LedgerInv, LedgerIsExecuted
  <2>13. LedgerIsExecuted'
    <3>1. ASSUME NEW j \in Correct
          PROVE  /\ IsFiniteSet(ledger'[j])
                 /\ \A t \in ledger'[j] : t.req \in Requests /\ \E n \in Seqs :
                        Decided(j, n)' /\ requests'[j][n].tx = t
      <4>1. IsFiniteSet(ledger[j]) /\ \A t \in ledger[j] : t.req \in Requests /\ \E n \in Seqs :
                Decided(j, n)' /\ requests'[j][n].tx = t
        BY <1>1 DEF LedgerInv, LedgerIsExecuted
      <4>2. IsFiniteSet(ledger[i] \cup {x})
        BY <2>12, FS_AddElement
      <4> QED
        BY <2>3, <2>6, <2>8, <2>10, <2>11, <4>1, <4>2
    <3> QED
      BY <3>1 DEF LedgerIsExecuted
  <2>14. BalancesMatchLedger'
    <3>1. \A j \in Correct, a \in Accounts :
              balance[j][a] = InitialBalance + NetEffect(ledger[j], a)
      BY DEF LedgerInv, BalancesMatchLedger
    <3>2. \A a \in Accounts : Transferred(balance[i], Op[x.req])[a]
                                = InitialBalance + NetEffect(ledger[i] \cup {x}, a)
      <4>1. x \notin ledger[i] /\ balance[i] \in Balances
        BY <2>5, <2>9
      <4> QED
        BY <2>12, <3>1, <4>1, TransferAdds
    <3>3. \A j \in Correct, a \in Accounts :
              balance'[j][a] = InitialBalance + NetEffect(ledger'[j], a)
      BY <2>10, <2>11, <3>1, <3>2
    <3> QED
      BY <3>3 DEF BalancesMatchLedger
  <2> QED
    BY <2>13, <2>14 DEF LedgerInv
<1> QED
  BY <1>2, <1>3

LEMMA InitLedgerInv == Init => LedgerInv
<1> SUFFICES ASSUME Init
             PROVE  LedgerInv
  OBVIOUS
<1>1. \A i \in Correct : ledger[i] = {} /\ \A a \in Accounts : balance[i][a] = InitialBalance
  BY DEF Init, Correct
<1>2. \A a : NetEffect({}, a) = 0
  BY NetEffectUnfolds, FS_EmptySet
<1>3. LedgerIsExecuted
  BY <1>1, FS_EmptySet DEF LedgerIsExecuted
<1>4. \A i \in Correct, a \in Accounts :
          NetEffect(ledger[i], a) = 0 /\ balance[i][a] = InitialBalance
  BY <1>1, <1>2
<1>5. BalancesMatchLedger
  BY <1>4, DataAssumption DEF BalancesMatchLedger
<1> QED
  BY <1>3, <1>5 DEF LedgerInv

\* Under a leader that runs this code, malicious or not, every account of a
\* correct node holds the initial balance and what the transfers of its ledger
\* make of it: no number is executed twice, and a transfer that is refused
\* leaves no trace (_execute_request, KVStore.transfer).  Both assumptions on the
\* requests are needed: the ledger is written under tx_id, so one record would
\* hide another, and transfer writes the second balance over the first when
\* both are of the same account.
THEOREM BalancesMatchLedgerHolds ==
    ASSUME get_leader(0) \in Correct, DistinctKeys, NoSelfTransfer
    PROVE  Spec => []BalancesMatchLedger
<1>1. Spec => [](IInv /\ GenuineInv /\ DecidedIsPrepared /\ OnlyRequested)
  <2>1. IInv /\ GenuineInv /\ [Next]_vars => GenuineInv'
    BY StepIsGenuine, GenuineStepKeeps DEF IInv
  <2> QED
    BY <2>1, InitGenuineInv, Invariance, DecidedIsPreparedHolds, OnlyRequestedHolds, PTL DEF Spec
<1>2. IInv /\ (GenuineInv /\ DecidedIsPrepared /\ OnlyRequested)' /\ [Next]_vars /\ LedgerInv
          => LedgerInv'
  BY StepAdvances, LedgerStep
<1>3. LedgerInv => BalancesMatchLedger
  BY DEF LedgerInv
<1> QED
  BY <1>1, <1>2, <1>3, InitLedgerInv, PTL DEF Spec

-----------------------------------------------------------------------------
(* Four nodes, none faulty, and one request of each client: what is in       *)
(* flight and what is lost while a quorum forms.                             *)

FourNodes ==
    /\ F = 1 /\ Faulty = {} /\ Leader \notin Malicious
    /\ Channels = "ordered" /\ MaxSeq < Window
    /\ \A q, r \in Requests \ Demo : ClientOf[q] = ClientOf[r] => q = r

Proposal(i, s) ==
    [type |-> "PRE_PREPARE", sender |-> Leader, dst |-> i, view |-> 0, seq |-> s,
     digest |-> hash_message(Own(s)), request |-> Own(s)]
Vote(type, j, i, s) ==
    [type |-> type, sender |-> j, dst |-> i, view |-> 0, seq |-> s,
     digest |-> hash_message(Own(s))]

HasPrepare(i, j, s) == Known(i, s) /\ j \in requests[i][s].prepares
HasCommit(i, j, s)  == Known(i, s) /\ j \in requests[i][s].commits

\* The vote of j reached i before the proposal did, and was dropped.
MissesPrepare(i, j, s) ==
    Known(j, s) /\ ~HasPrepare(i, j, s) /\ Vote("PREPARE", j, i, s) \notin net
MissesCommit(i, j, s) ==
    HasCommit(j, j, s) /\ ~HasCommit(i, j, s) /\ Vote("COMMIT", j, i, s) \notin net

\* The leader's proposal and vote are never lost.
LeaderIsHeard ==
    \A i \in Sites \ {Leader}, s \in Seqs : Known(Leader, s) =>
        /\ Known(i, s) \/ Proposal(i, s) \in net
        /\ ~MissesPrepare(i, Leader, s) /\ ~MissesPrepare(Leader, i, s)

\* Of two nodes, the one that accepts first hears the other.
OneHearsTheOther ==
    \A i, j \in Sites, s \in Seqs :
        i # j /\ MissesPrepare(i, j, s) => ~MissesPrepare(j, i, s)

\* Only the last node to accept can miss a COMMIT.
OneMissesCommits ==
    \A i, j \in Sites, s \in Seqs : i # j /\ MissesCommit(i, j, s) =>
        /\ \A k \in Sites \ {i} : Known(k, s)
        /\ \A k, l \in Sites : k # l /\ MissesCommit(k, l, s) => k = i

Voted(i, s) == i \in requests[i][s].commits \/ s \in sending[i] \/ requests[i][s].decided

\* Every quorum that is complete has been acted upon.
Settled(i, s) ==
    LET r == requests[i][s] IN
    /\ i \in r.prepares
    /\ r.phase # "prepare" \/ Cardinality(r.prepares) >= Quorum => Voted(i, s)
    /\ Cardinality(r.commits) >= Quorum => r.decided

CommitsAreSent ==
    /\ \A i, j \in Sites, s \in Seqs : HasCommit(i, j, s) => HasCommit(j, j, s)
    /\ \A m \in net : m.type = "COMMIT" => HasCommit(m.sender, m.sender, m.seq)

Stored(q) == \E s \in Seqs : Known(Leader, s) /\ Own(s).req = q

NothingForgotten ==
    /\ \A q \in Requests : attempts[q] > 0 =>
          Stored(q) \/ \E m \in net : m.type = "CLIENT_REQUEST" /\ m.req = q
    /\ \A i \in Sites : \A q \in cached[i] : Stored(q)

\* The numbers given out, and the one the demo thread is at.
Numbers ==
    /\ \A i \in Sites : lastSeq[i] <= MaxSeq /\ \A s, t \in sending[i] : s = t
    /\ \A s \in Seqs : s <= lastSeq[Leader] => Known(Leader, s)

NoGapBefore(i, s) == \A t \in Seqs : t < s => Known(i, t)

\* A node has stored all it will store below its watermark.
NothingSkipped ==
    /\ \A i \in Sites, s \in Seqs : Known(i, s) => NoGapBefore(i, s)
    /\ \A i \in Sites : \A v \in checkpoints[i] : v.sender = Leader => Known(i, v.seq)
    /\ \A i \in Sites : low[i] = 0 \/ (low[i] \in Seqs /\ Known(i, low[i]))

QuorumInv ==
    /\ LeaderIsHeard /\ OneHearsTheOther /\ OneMissesCommits
    /\ \A i \in Sites, s \in Seqs : Known(i, s) => Settled(i, s)
    /\ CommitsAreSent /\ NothingForgotten /\ Numbers /\ NothingSkipped

\* A message that a step takes from the network is used, if it can be.
Taken(m) ==
    LET i == m.dst  s == m.seq IN
    /\ Deliverable(m)
    /\ m.type = "PRE_PREPARE" /\ m = Proposal(i, s) => Known(i, s)'
    /\ m.type = "PREPARE" /\ m = Vote("PREPARE", m.sender, i, s) /\ Known(i, s) =>
           HasPrepare(i, m.sender, s)'
    /\ m.type = "COMMIT" /\ m = Vote("COMMIT", m.sender, i, s) /\ Known(i, s) =>
           HasCommit(i, m.sender, s)'

NothingLost == net \subseteq net' \/ \E m \in net : net \ net' \subseteq {m} /\ Taken(m)

EntriesGrow ==
    \A i \in Sites, s \in Seqs : Known(i, s) =>
        /\ Known(i, s)' /\ requests'[i][s].tx = requests[i][s].tx
        /\ requests[i][s].prepares \subseteq requests'[i][s].prepares
        /\ requests[i][s].commits \subseteq requests'[i][s].commits

Announces(i, s) ==
    \A d \in Sites \ {i} :
        Vote("PREPARE", i, d, s)' \in net' /\ (i = Leader => Proposal(d, s)' \in net')

SendsCommit(i, s) == \A d \in Sites \ {i} : Vote("COMMIT", i, d, s)' \in net'

EntriesAreSent ==
    \A i \in Sites, s \in Seqs :
        /\ Known(i, s)' => Known(i, s) \/ Announces(i, s)
        /\ HasCommit(i, i, s)' => HasCommit(i, i, s) \/ SendsCommit(i, s)

InOrder == \A i \in Sites, s \in Seqs : Known(i, s)' => Known(i, s) \/ NoGapBefore(i, s)

\* What a step does towards a quorum.
Progress ==
    /\ EntriesGrow /\ EntriesAreSent /\ InOrder /\ NothingLost
    /\ \A i \in Sites, s \in Seqs : Known(i, s)' => Settled(i, s)'
    /\ CommitsAreSent' /\ NothingForgotten' /\ Numbers'

EntriesAreOwn ==
    \A i \in Sites, s \in Seqs : Known(i, s) =>
        /\ Known(Leader, s)
        /\ requests[i][s].tx = Own(s) /\ requests[i][s].digest = hash_message(Own(s))

LEMMA FourFacts ==
    ASSUME FourNodes
    PROVE  /\ Quorum = 3 /\ N = 4 /\ Correct = Sites /\ Leader \in Sites
           /\ IsFiniteSet(Sites) /\ Cardinality(Sites) = 4
           /\ \A i : Peers(i) = Sites \ {i}
BY FaultAssumption DEF FourNodes, Quorum, N, Correct, Leader, get_leader, Peers

LEMMA OwnEntries == FourNodes /\ IInv /\ GenuineInv => EntriesAreOwn
<1> SUFFICES ASSUME FourNodes, IInv, GenuineInv,
                    NEW i \in Sites, NEW s \in Seqs, Known(i, s)
             PROVE  /\ Known(Leader, s) /\ requests[i][s].tx = Own(s)
                    /\ requests[i][s].digest = hash_message(Own(s))
  BY DEF EntriesAreOwn
<1>1. Leader \in Correct /\ i \in Correct /\ Leader \in Sites
  BY FourFacts
<1>2. Proposed(i, requests[i][s].tx, s)
  BY <1>1 DEF GenuineInv, EntriesAreGenuine
<1>3. Known(Leader, s) /\ ~Own(s).fake /\ ~requests[i][s].tx.fake
      /\ CopyOf(requests[i][s].tx, Own(s))
  BY <1>1, <1>2 DEF Proposed, GenuineInv, LeaderAsks, Made, Genuine, FourNodes
<1>4. requests[i][s].tx \in Txs /\ Own(s) \in Txs
  BY <1>1, <1>3 DEF IInv, TypeOK, Known, Own, RequestStates
<1>5. requests[i][s].tx = Own(s)
  BY <1>3, <1>4 DEF Txs, CopyOf
<1>6. requests[i][s].digest = hash_message(requests[i][s].tx)
  BY <1>1 DEF IInv, EntriesAreSound
<1> QED
  BY <1>3, <1>5, <1>6

LEMMA OwnEntriesNext ==
    ASSUME FourNodes
    PROVE  IInv' /\ GenuineInv' => EntriesAreOwn'
<1>1. IInv /\ GenuineInv => EntriesAreOwn
  BY OwnEntries
<1> QED
  BY <1>1, PTL

\* Own requests of known numbers do not change.
LEMMA OwnStays ==
    ASSUME FourNodes, EntriesGrow, NEW s \in Seqs, Known(Leader, s)
    PROVE  /\ Known(Leader, s)' /\ Own(s)' = Own(s)
           /\ \A i : Proposal(i, s)' = Proposal(i, s)
           /\ \A type, i, j : Vote(type, j, i, s)' = Vote(type, j, i, s)
<1>1. Leader' = Leader /\ Leader \in Sites
  BY FourFacts DEF Leader, get_leader
<1>2. Known(Leader, s)' /\ Own(s)' = Own(s)
  BY <1>1 DEF EntriesGrow, Own
<1> QED
  BY <1>1, <1>2 DEF Proposal, Vote, hash_message

\* Votes in flight are counted, unless the proposal is still to come.
LEMMA PrepareStays ==
    ASSUME FourNodes, Progress, EntriesAreOwn, EntriesAreOwn',
           NEW i \in Sites, NEW j \in Sites \ {i}, NEW s \in Seqs, MissesPrepare(i, j, s)'
    PROVE  /\ Known(j, s) /\ Known(Leader, s)
           /\ \/ MissesPrepare(i, j, s)
              \/ /\ ~Known(i, s) /\ Vote("PREPARE", j, i, s) \in net
                 /\ Deliverable(Vote("PREPARE", j, i, s))
<1> DEFINE v == Vote("PREPARE", j, i, s)
<1>0. Known(j, s)' /\ ~HasPrepare(i, j, s)' /\ v' \notin net'
  BY DEF MissesPrepare
<1>1. Known(j, s)
  BY <1>0 DEF Progress, EntriesAreSent, Announces
<1>2. Known(Leader, s) /\ v' = v
  <2>1. Known(Leader, s)
    BY <1>1 DEF EntriesAreOwn
  <2> QED
    BY <2>1, OwnStays DEF Progress
<1>3. ~HasPrepare(i, j, s)
  BY <1>0 DEF Progress, EntriesGrow, HasPrepare
<1>4. CASE v \in net
  <2>1. v \in net \ net'
    BY <1>0, <1>2, <1>4
  <2>2. Taken(v)
    BY <2>1 DEF Progress, NothingLost
  <2>3. v.type = "PREPARE" /\ v.sender = j /\ v.dst = i /\ v.seq = s
    BY DEF Vote
  <2> QED
    BY <1>0, <1>1, <1>2, <1>4, <2>2, <2>3 DEF Taken
<1>5. CASE v \notin net
  BY <1>1, <1>2, <1>3, <1>5 DEF MissesPrepare
<1> QED
  BY <1>4, <1>5

LEMMA CommitStays ==
    ASSUME FourNodes, Progress, EntriesAreOwn, EntriesAreOwn',
           NEW i \in Sites, NEW j \in Sites \ {i}, NEW s \in Seqs, MissesCommit(i, j, s)'
    PROVE  /\ HasCommit(j, j, s) /\ Known(Leader, s)
           /\ \/ MissesCommit(i, j, s)
              \/ ~Known(i, s) /\ Vote("COMMIT", j, i, s) \in net \ net'
<1> DEFINE v == Vote("COMMIT", j, i, s)
<1>0. HasCommit(j, j, s)' /\ ~HasCommit(i, j, s)' /\ v' \notin net'
  BY DEF MissesCommit
<1>1. HasCommit(j, j, s) /\ Known(j, s)
  BY <1>0 DEF Progress, EntriesAreSent, SendsCommit, HasCommit
<1>2. Known(Leader, s) /\ v' = v
  <2>1. Known(Leader, s)
    BY <1>1 DEF EntriesAreOwn
  <2> QED
    BY <2>1, OwnStays DEF Progress
<1>3. ~HasCommit(i, j, s)
  BY <1>0 DEF Progress, EntriesGrow, HasCommit
<1>4. CASE v \in net
  <2>1. v \in net \ net'
    BY <1>0, <1>2, <1>4
  <2>2. Taken(v)
    BY <2>1 DEF Progress, NothingLost
  <2>3. v.type = "COMMIT" /\ v.sender = j /\ v.dst = i /\ v.seq = s
    BY DEF Vote
  <2> QED
    BY <1>0, <1>1, <1>2, <2>1, <2>2, <2>3 DEF Taken
<1>5. CASE v \notin net
  BY <1>1, <1>2, <1>3, <1>5 DEF MissesCommit
<1> QED
  BY <1>4, <1>5

\* Whose COMMIT finds no entry at i has counted the votes of all the others.
LEMMA OthersAreKnown ==
    ASSUME FourNodes, IInv, NEW i \in Sites, NEW j \in Sites, NEW s \in Seqs,
           ~Known(i, s), HasCommit(j, j, s)
    PROVE  \A k \in Sites \ {i} : Known(k, s)
<1> DEFINE P == requests[j][s].prepares
<1>0. Correct = Sites /\ Quorum = 3 /\ Cardinality(Sites) = 4 /\ IsFiniteSet(Sites)
  BY FourFacts
<1>1. P \subseteq Sites /\ Known(j, s)
  BY <1>0 DEF IInv, TypeOK, Known, RequestStates, HasCommit
<1>2. j \in requests[j][s].commits \cap Correct
  BY <1>0 DEF HasCommit
<1>3. Backs(j, s, requests[j][s].digest) /\ \A k \in P : Known(k, s)
  BY <1>0, <1>1, <1>2 DEF IInv, VotesAreSound, Supports
<1>4. Cardinality(P) >= 3 /\ P \subseteq Sites \ {i}
  BY <1>0, <1>1, <1>3 DEF Backs
<1>5. IsFiniteSet(Sites \ {i}) /\ Cardinality(Sites \ {i}) = 3
  BY <1>0, FS_RemoveElement
<1>6. P = Sites \ {i}
  <2>1. IsFiniteSet(P) /\ Cardinality(P) \in Nat /\ Cardinality(P) <= 3
    BY <1>4, <1>5, FS_Subset, FS_CardinalityType
  <2>2. Cardinality(P) = Cardinality(Sites \ {i})
    BY <1>4, <1>5, <2>1
  <2> QED
    BY <1>4, <1>5, <2>2, FS_Subset
<1> QED
  BY <1>3, <1>6

\* Three of four nodes are not all outside a pair.
LEMMA ThreeMeetTwo ==
    ASSUME FourNodes, NEW P \in SUBSET Sites, Cardinality(P) >= Quorum,
           NEW i \in Sites, NEW j \in Sites \ {i}
    PROVE  i \in P \/ j \in P
<1> SUFFICES ASSUME i \notin P, j \notin P
             PROVE  FALSE
  OBVIOUS
<1> DEFINE A == Sites \ {i}
           B == A \ {j}
<1>0. IsFiniteSet(Sites) /\ Cardinality(Sites) = 4 /\ Quorum = 3
  BY FourFacts
<1>1. IsFiniteSet(A) /\ Cardinality(A) = 3
  BY <1>0, FS_RemoveElement
<1>2. IsFiniteSet(B) /\ Cardinality(B) = 2
  <2> j \in A
    OBVIOUS
  <2> HIDE DEF A
  <2> QED
    BY <1>1, FS_RemoveElement
<1>3. P \subseteq B
  OBVIOUS
<1>4. Cardinality(P) <= 2 /\ Cardinality(P) \in Nat
  <2> HIDE DEF B
  <2> QED
    BY <1>2, <1>3, FS_Subset, FS_CardinalityType
<1> QED
  BY <1>0, <1>4

\* A watermark follows three nodes, the leader or the node itself among them, and
\* the leader's vote does not overtake its proposal.
LEMMA NothingIsSkipped ==
    ASSUME FourNodes, TypeOK, TypeOK', CheckpointInv', CheckpointInv, CheckpointStep,
           QuorumInv, EntriesGrow, InOrder, EntriesAreOwn, EntriesAreOwn'
    PROVE  NothingSkipped'
<1>0. /\ Correct = Sites /\ Faulty = {} /\ Leader \in Sites /\ Leader' = Leader
      /\ low \in [Sites -> Int] /\ checkpoints \in [Sites ->
            SUBSET [seq: Seqs, digest: StateDigests, sender: Sites]]
  BY FourFacts DEF FourNodes, TypeOK, Leader, get_leader
<1>1. \A i \in Sites, s \in Seqs : Known(i, s) => Known(i, s)'
  BY DEF EntriesGrow
<1>2. ASSUME NEW i \in Sites, NEW s \in Seqs, Known(i, s)'
      PROVE  NoGapBefore(i, s)'
  <2>1. NoGapBefore(i, s)
    BY <1>2 DEF InOrder, QuorumInv, NothingSkipped
  <2> QED
    BY <1>1, <2>1 DEF NoGapBefore
<1>3. CASE UNCHANGED <<checkpoints, low>>
  <2>1. \A i \in Sites : \A v \in checkpoints[i] : v.seq \in Seqs
    BY <1>0
  <2> QED
    BY <1>0, <1>1, <1>2, <1>3, <2>1 DEF QuorumInv, NothingSkipped
<1>4. CASE Counted
  <2>1. PICK i \in Sites, s \in Seqs, sender \in Sites : \E digest, bal :
           /\ RecordCheckpointVote(i, s, digest, sender, bal)
           /\ Decided(sender, s)'
           /\ Heard(i, s, sender)
    BY <1>0, <1>4 DEF Counted
  <2>2. PICK digest, bal :
           /\ RecordCheckpointVote(i, s, digest, sender, bal)
           /\ Decided(sender, s)'
           /\ Heard(i, s, sender)
    BY <2>1
  <2>3. PICK votes : /\ votes = checkpoints[i] \cup
                                   {[seq |-> s, digest |-> digest, sender |-> sender]}
                     /\ checkpoints' = [checkpoints EXCEPT ![i] = votes]
                     /\ low' = low \/ (/\ Certified(votes, s, digest)
                                       /\ low' = [low EXCEPT ![i] = Bigger(low[i], s)])
    BY <2>2 DEF RecordCheckpointVote
  \* The vote of the leader has not overtaken its proposal.
  <2>4. sender = Leader => Known(i, s)'
    <3>1. CASE i = sender
      BY <2>2, <3>1 DEF Decided
    <3>2. CASE i # sender /\ sender = Leader
      <4>1. PICK m \in net : /\ m.type = "CHECKPOINT" /\ m.sender = Leader
                             /\ m.dst = i /\ m.seq = s /\ Deliverable(m)
        BY <1>0, <2>2, <3>2 DEF Heard
      <4>2. Known(Leader, s)
        BY <1>0, <4>1 DEF CheckpointInv, CheckpointsInFlight, Decided
      <4>3. Known(i, s) \/ Proposal(i, s) \in net
        BY <1>0, <3>2, <4>2 DEF QuorumInv, LeaderIsHeard
      <4>4. Overtakes(m, Proposal(i, s))
        BY <4>1 DEF Overtakes, Proposal, Rank
      <4>5. Known(i, s)
        BY <4>1, <4>3, <4>4 DEF Deliverable, FourNodes
      <4> QED
        BY <1>1, <4>5
    <3> QED
      BY <3>1, <3>2
  <2>5. ASSUME NEW j \in Sites, NEW v \in checkpoints'[j], v.sender = Leader
        PROVE  Known(j, v.seq)'
    <3>1. CASE v \in checkpoints[j]
      <4>1. v.seq \in Seqs /\ Known(j, v.seq)
        BY <1>0, <2>5, <3>1 DEF QuorumInv, NothingSkipped
      <4> QED
        BY <1>1, <4>1
    <3>2. CASE v \notin checkpoints[j]
      <4>1. j = i /\ v.seq = s /\ v.sender = sender
        BY <1>0, <2>3, <2>5, <3>2
      <4> QED
        BY <2>4, <2>5, <4>1
    <3> QED
      BY <3>1, <3>2
  \* So of the three whose votes move the watermark, one says that i knows s.
  <2>6. ASSUME Certified(votes, s, digest)
        PROVE  Known(i, s)'
    <3> DEFINE P == CheckpointVotes(votes, s, digest)
    <3>1. votes = checkpoints'[i]
      BY <1>0, <2>3
    <3>2. P \in SUBSET Sites /\ Cardinality(P) >= Quorum
      BY <2>6 DEF CheckpointVotes, Certified
    <3>3. \A j \in P : \E v \in checkpoints'[i] : v.seq = s /\ v.sender = j
      BY <3>1 DEF CheckpointVotes
    <3>4. \A j \in P : Known(j, s)'
      BY <1>0, <3>2, <3>3 DEF CheckpointInv, CheckpointsCounted, Decided
    <3>5. Leader \in P => Known(i, s)'
      BY <2>5, <3>3
    <3>6. CASE i = Leader
      <4>1. PICK j \in Sites : Known(j, s)'
        BY <2>2 DEF Decided
      <4> QED
        BY <1>0, <3>6, <4>1 DEF EntriesAreOwn
    <3>7. CASE i # Leader
      <4>1. i \in P \/ Leader \in P
        <5> HIDE DEF P
        <5> QED
          BY <1>0, <3>2, <3>7, ThreeMeetTwo
      <4> QED
        BY <3>4, <3>5, <4>1
    <3> QED
      BY <3>6, <3>7
  <2>7. ASSUME NEW j \in Sites
        PROVE  (low[j] = 0 \/ (low[j] \in Seqs /\ Known(j, low[j])))'
    <3>1. CASE low'[j] = low[j]
      BY <1>1, <3>1 DEF QuorumInv, NothingSkipped
    <3>2. CASE low'[j] # low[j]
      <4>1. j = i /\ low'[j] = s /\ Certified(votes, s, digest)
        BY <1>0, <2>3, <3>2 DEF Bigger
      <4> QED
        BY <2>6, <4>1
    <3> QED
      BY <3>1, <3>2
  <2> QED
    BY <1>0, <1>2, <2>5, <2>7 DEF NothingSkipped
<1> QED
  BY <1>3, <1>4 DEF CheckpointStep

LEMMA ProgressKeepsQuorumInv ==
    ASSUME FourNodes, IInv, GenuineInv, IInv', GenuineInv', CheckpointInv, CheckpointInv',
           CheckpointStep, QuorumInv, Progress
    PROVE  QuorumInv'
<1>0. EntriesAreOwn /\ EntriesAreOwn' /\ Leader \in Sites /\ Leader' = Leader
  BY OwnEntries, OwnEntriesNext, FourFacts DEF Leader, get_leader
<1>1. LeaderIsHeard'
  <2> SUFFICES ASSUME NEW i \in Sites \ {Leader}, NEW s \in Seqs, Known(Leader, s)'
               PROVE  /\ Known(i, s)' \/ Proposal(i, s)' \in net'
                      /\ ~MissesPrepare(i, Leader, s)' /\ ~MissesPrepare(Leader, i, s)'
    BY <1>0 DEF LeaderIsHeard
  <2>1. Known(i, s)' \/ Proposal(i, s)' \in net'
    <3>1. CASE ~Known(Leader, s)
      BY <1>0, <3>1 DEF Progress, EntriesAreSent, Announces
    <3>2. CASE Known(Leader, s)
      <4>1. Known(i, s) \/ Proposal(i, s) \in net
        BY <1>0, <3>2 DEF QuorumInv, LeaderIsHeard
      <4>2. Known(i, s) => Known(i, s)'
        BY DEF Progress, EntriesGrow
      <4>3. Proposal(i, s)' = Proposal(i, s)
        BY <3>2, OwnStays DEF Progress
      <4>4. Proposal(i, s) \in net \ net' => Known(i, s)'
        <5>1. /\ Proposal(i, s).type = "PRE_PREPARE"
              /\ Proposal(i, s).dst = i /\ Proposal(i, s).seq = s
          BY DEF Proposal
        <5> QED
          BY <5>1 DEF Progress, NothingLost, Taken
      <4> QED
        BY <4>1, <4>2, <4>3, <4>4
    <3> QED
      BY <3>1, <3>2
  <2>2. ASSUME MissesPrepare(i, Leader, s)'
        PROVE  FALSE
    <3> DEFINE v == Vote("PREPARE", Leader, i, s)
    <3>1. /\ Known(Leader, s)
          /\ MissesPrepare(i, Leader, s) \/ (~Known(i, s) /\ v \in net /\ Deliverable(v))
      BY <1>0, <2>2, PrepareStays
    <3>2. ~Known(i, s) /\ Deliverable(v) /\ Proposal(i, s) \in net
      BY <1>0, <3>1 DEF QuorumInv, LeaderIsHeard
    <3>3. Overtakes(v, Proposal(i, s))
      BY DEF Overtakes, Vote, Proposal, Rank
    <3> QED
      BY <3>2, <3>3 DEF Deliverable, FourNodes
  <2>3. ASSUME MissesPrepare(Leader, i, s)'
        PROVE  FALSE
    <3>1. Known(Leader, s) /\ (MissesPrepare(Leader, i, s) \/ ~Known(Leader, s))
      BY <1>0, <2>3, PrepareStays
    <3> QED
      BY <1>0, <3>1 DEF QuorumInv, LeaderIsHeard
  <2> QED
    BY <2>1, <2>2, <2>3
<1>2. OneHearsTheOther'
  <2> SUFFICES ASSUME NEW i \in Sites, NEW j \in Sites \ {i}, NEW s \in Seqs,
                      MissesPrepare(i, j, s)', MissesPrepare(j, i, s)'
               PROVE  FALSE
    BY DEF OneHearsTheOther
  <2>1. Known(i, s) /\ Known(j, s)
    BY <1>0, PrepareStays
  <2>2. MissesPrepare(i, j, s) /\ MissesPrepare(j, i, s)
    BY <1>0, <2>1, PrepareStays
  <2> QED
    BY <2>2 DEF QuorumInv, OneHearsTheOther
<1>3. OneMissesCommits'
  <2>1. ASSUME NEW i \in Sites, NEW j \in Sites \ {i}, NEW s \in Seqs, MissesCommit(i, j, s)'
        PROVE  \A k \in Sites \ {i} : Known(k, s)
    <3>1. CASE MissesCommit(i, j, s)
      BY <3>1 DEF QuorumInv, OneMissesCommits
    <3>2. CASE ~MissesCommit(i, j, s)
      BY <1>0, <2>1, <3>2, CommitStays, OthersAreKnown
    <3> QED
      BY <3>1, <3>2
  <2>2. ASSUME NEW i \in Sites, NEW j \in Sites \ {i}, NEW s \in Seqs, MissesCommit(i, j, s)',
               NEW k \in Sites, NEW l \in Sites \ {k}, MissesCommit(k, l, s)'
        PROVE  k = i
    <3>1. SUFFICES ASSUME k # i
                   PROVE  FALSE
      OBVIOUS
    <3>2. Known(i, s) /\ Known(k, s)
      BY <2>1, <2>2, <3>1
    <3>3. MissesCommit(i, j, s) /\ MissesCommit(k, l, s)
      BY <1>0, <2>2, <3>2, CommitStays
    <3> QED
      BY <3>1, <3>3 DEF QuorumInv, OneMissesCommits
  <2>3. \A k \in Sites, s \in Seqs : Known(k, s) => Known(k, s)'
    BY DEF Progress, EntriesGrow
  <2> QED
    BY <2>1, <2>2, <2>3 DEF OneMissesCommits
<1>4. NothingSkipped'
  BY <1>0, NothingIsSkipped DEF IInv, Progress
<1> QED
  BY <1>1, <1>2, <1>3, <1>4 DEF QuorumInv, Progress

\* Entry r2 is stored at s, the only one touched.
Counts(i, s, r2) ==
    /\ r2 \in RequestStates /\ requests' = [requests EXCEPT ![i][s] = r2]
    /\ Known(i, s) =>
          /\ r2.tx = requests[i][s].tx
          /\ requests[i][s].prepares \subseteq r2.prepares
          /\ requests[i][s].commits \subseteq r2.commits
    /\ Known(i, s) \/ (Announces(i, s) /\ NoGapBefore(i, s))
    /\ i \in r2.commits => HasCommit(i, i, s) \/ SendsCommit(i, s)
    /\ \A j \in r2.commits :
          \/ HasCommit(i, j, s) \/ j = i
          \/ \E m \in net : m.type = "COMMIT" /\ m.sender = j /\ m.seq = s
    /\ \A m \in net' \ net : m.type = "COMMIT" =>
          m.sender = i /\ m.seq = s /\ i \in r2.commits
    /\ Settled(i, s)'
    /\ \A j \in Sites, t \in Seqs :
          t \in sending[j] => t \in sending'[j] \/ (j = i /\ t = s)

EntriesProgress ==
    /\ EntriesGrow /\ EntriesAreSent /\ InOrder /\ CommitsAreSent'
    /\ \A i \in Sites, s \in Seqs : Known(i, s)' => Settled(i, s)'

LEMMA SameEntries ==
    ASSUME QuorumInv, UNCHANGED <<requests, sending>>,
           \A m \in net' : m \in net \/ m.type # "COMMIT"
    PROVE  EntriesProgress
<1>1. EntriesGrow /\ EntriesAreSent /\ InOrder
  BY DEF EntriesGrow, EntriesAreSent, InOrder, Known, HasCommit
<1>2. CommitsAreSent'
  BY DEF QuorumInv, CommitsAreSent, HasCommit, Known
<1>3. \A i \in Sites, s \in Seqs : Known(i, s)' => Settled(i, s)'
  BY DEF QuorumInv, Settled, Voted, Known, Quorum
<1> QED
  BY <1>1, <1>2, <1>3 DEF EntriesProgress

LEMMA EntryCounts ==
    ASSUME TypeOK, QuorumInv, NEW i \in Sites, NEW s \in Seqs, NEW r2, Counts(i, s, r2)
    PROVE  EntriesProgress /\ Known(i, s)' /\ requests'[i][s] = r2
<1>0. requests \in [Sites -> [Seqs -> RequestStates \cup {NoRequest}]]
  BY DEF TypeOK
<1>1. requests'[i][s] = r2 /\ Known(i, s)'
  BY <1>0, DataAssumption DEF Counts, Known
<1>2. \A j \in Sites, t \in Seqs : j # i \/ t # s => requests'[j][t] = requests[j][t]
  BY <1>0 DEF Counts
<1>3. EntriesGrow
  BY <1>1, <1>2 DEF EntriesGrow, Counts, Known
<1>4. EntriesAreSent
  <2>1. ASSUME NEW j \in Sites, NEW t \in Seqs
        PROVE  /\ Known(j, t)' => Known(j, t) \/ Announces(j, t)
               /\ HasCommit(j, j, t)' => HasCommit(j, j, t) \/ SendsCommit(j, t)
    <3>1. CASE j = i /\ t = s
      BY <1>1, <3>1 DEF Counts, HasCommit
    <3>2. CASE j # i \/ t # s
      BY <1>2, <3>2 DEF Known, HasCommit
    <3> QED
      BY <3>1, <3>2
  <2> QED
    BY <2>1 DEF EntriesAreSent
<1>5. InOrder
  BY <1>2 DEF InOrder, Counts, Known
<1>6. CommitsAreSent'
  <2>1. \A j, k \in Sites, t \in Seqs : HasCommit(j, k, t) => HasCommit(j, k, t)'
    BY <1>3 DEF EntriesGrow, HasCommit
  <2>2. ASSUME NEW j \in Sites, NEW k \in Sites, NEW t \in Seqs, HasCommit(j, k, t)'
        PROVE  HasCommit(k, k, t)'
    <3>1. CASE HasCommit(j, k, t)
      BY <2>1, <3>1 DEF QuorumInv, CommitsAreSent
    <3>2. CASE ~HasCommit(j, k, t)
      <4>1. j = i /\ t = s /\ k \in r2.commits
        BY <1>1, <1>2, <2>2, <3>2 DEF HasCommit, Known
      <4>2. k = i \/ \E m \in net : m.type = "COMMIT" /\ m.sender = k /\ m.seq = s
        BY <3>2, <4>1 DEF Counts
      <4>3. k = i \/ HasCommit(k, k, s)
        BY <4>2 DEF QuorumInv, CommitsAreSent
      <4> QED
        BY <2>1, <2>2, <4>1, <4>3
    <3> QED
      BY <3>1, <3>2
  <2>3. ASSUME NEW m \in net', m.type = "COMMIT"
        PROVE  HasCommit(m.sender, m.sender, m.seq)'
    <3>1. CASE m \in net
      <4>1. m.sender \in Sites /\ m.seq \in Seqs
        BY <2>3, <3>1, MessageFields DEF TypeOK
      <4> QED
        BY <2>1, <2>3, <3>1, <4>1 DEF QuorumInv, CommitsAreSent
    <3>2. CASE m \notin net
      BY <1>1, <2>3, <3>2 DEF Counts, HasCommit
    <3> QED
      BY <3>1, <3>2
  <2> QED
    BY <2>2, <2>3 DEF CommitsAreSent
<1>7. ASSUME NEW j \in Sites, NEW t \in Seqs, Known(j, t)'
      PROVE  Settled(j, t)'
  <2>1. CASE j = i /\ t = s
    BY <2>1 DEF Counts
  <2>2. CASE j # i \/ t # s
    <3>1. Settled(j, t) /\ requests'[j][t] = requests[j][t]
      BY <1>2, <1>7, <2>2 DEF QuorumInv, Known
    <3>2. t \in sending[j] => t \in sending'[j]
      BY <2>2 DEF Counts
    <3> QED
      BY <3>1, <3>2 DEF Settled, Voted, Quorum
  <2> QED
    BY <2>1, <2>2
<1> QED
  BY <1>1, <1>3, <1>4, <1>6, <1>7, <1>5 DEF EntriesProgress

\* No request is forgotten.
LEMMA Remembers ==
    ASSUME FourNodes, EntriesGrow, NothingForgotten,
           \A q \in Requests : attempts'[q] > 0 =>
               attempts[q] > 0 \/ Stored(q)'
                 \/ \E m \in net' : m.type = "CLIENT_REQUEST" /\ m.req = q,
           \A m \in net \ net' : m.type = "CLIENT_REQUEST" =>
               Stored(m.req)' \/ \E n \in net' : n.type = "CLIENT_REQUEST" /\ n.req = m.req,
           \A i \in Sites : \A q \in cached'[i] : q \in cached[i] \/ Stored(q)'
    PROVE  NothingForgotten'
<1>1. Leader \in Sites /\ Leader' = Leader
  BY FourFacts DEF Leader, get_leader
<1>2. ASSUME NEW q, Stored(q)
      PROVE  Stored(q)'
  <2>1. PICK s \in Seqs : Known(Leader, s) /\ Own(s).req = q
    BY <1>2 DEF Stored
  <2>2. Known(Leader, s)' /\ Own(s)'.req = q
    BY <2>1, OwnStays
  <2> QED
    BY <2>2 DEF Stored
<1>3. ASSUME NEW q \in Requests, attempts'[q] > 0
      PROVE  Stored(q)' \/ \E m \in net' : m.type = "CLIENT_REQUEST" /\ m.req = q
  BY <1>2, <1>3 DEF NothingForgotten
<1> QED
  BY <1>2, <1>3 DEF NothingForgotten

\* A step may send checkpoint votes besides.
Sends(msgs) == msgs \subseteq net' /\ \A m \in net' : m \in msgs \/ m.type = "CHECKPOINT"

\* What carrying on with entry r stores and sends.
Carried(i, s, r, msgs, r2) ==
    /\ r2 \in RequestStates /\ requests' = [requests EXCEPT ![i][s] = r2]
    /\ r2.tx = r.tx /\ r2.prepares = r.prepares /\ r.commits \subseteq r2.commits
    /\ \/ r2.commits = r.commits /\ Sends(msgs)
       \/ /\ r2.commits = r.commits \cup {i}
          /\ Sends(msgs \cup Broadcast("COMMIT", i, s, r.digest))
    /\ r.decided => r2.decided
    /\ r2.phase = r.phase \/ i \in r2.commits \/ r2.decided
    /\ Cardinality(r2.commits) >= Quorum => r2.decided
    /\ \A j \in Sites : \A q \in cached'[j] : q \in cached[j] \/ q \in AnsweredFromNow(r.tx)

LEMMA CommitCarried ==
    ASSUME FourNodes, TypeOK, NEW i \in Sites, NEW s \in Seqs, NEW r \in RequestStates,
           NEW msgs, CheckCommitQuorum(i, s, r, msgs)
    PROVE  \E r2 : Carried(i, s, r, msgs, r2) /\ r2.commits = r.commits /\ Sends(msgs)
<1>0. cached \in [Sites -> SUBSET Requests]
  BY DEF TypeOK
<1>1. CASE CommitQuorum(r)
  <2>1. PICK r2 : r2 = [r EXCEPT !.decided = TRUE, !.phase = "executed"]
    OBVIOUS
  <2>2. /\ r2 \in RequestStates
        /\ r2.tx = r.tx /\ r2.prepares = r.prepares /\ r2.commits = r.commits /\ r2.decided
    BY <2>1 DEF RequestStates
  <2>3. requests' = [requests EXCEPT ![i][s] = r2] /\ ExecuteRequest(i, s, r.tx)
    BY <1>1, <2>1 DEF CheckCommitQuorum
  <2>4. Sends(msgs)
    BY <1>1 DEF CheckCommitQuorum, TriggerCheckpoint, BroadcastCheckpoint, Sends
  <2>5. \A j \in Sites : \A q \in cached'[j] : q \in cached[j] \/ q \in AnsweredFromNow(r.tx)
    <3>1. cached' = [cached EXCEPT ![i] = @ \cup AnsweredFromNow(r.tx)]
      BY <2>3 DEF ExecuteRequest
    <3> QED
      BY <1>0, <3>1
  <2> QED
    BY <2>2, <2>3, <2>4, <2>5 DEF Carried
<1>2. CASE ~CommitQuorum(r)
  <2>1. /\ requests' = [requests EXCEPT ![i][s] = r]
        /\ Sends(msgs) /\ cached' = cached
    BY <1>2 DEF CheckCommitQuorum, executionVars, Sends
  <2>2. Cardinality(r.commits) >= Quorum => r.decided
    BY <1>2 DEF CommitQuorum
  <2> QED
    BY <2>1, <2>2 DEF Carried
<1> QED
  BY <1>1, <1>2

LEMMA PrepareCarried ==
    ASSUME FourNodes, TypeOK, NEW i \in Sites, NEW s \in Seqs, NEW r \in RequestStates,
           NEW msgs, CheckPrepareQuorum(i, s, r, msgs),
           Cardinality(r.commits) >= Quorum => r.decided
    PROVE  \E r2 : /\ Carried(i, s, r, msgs, r2)
                   /\ r.phase = "prepare" /\ Cardinality(r.prepares) >= Quorum =>
                          i \in r2.commits
<1>1. CASE PrepareQuorum(r)
  <2>1. PICK r1 : r1 = [r EXCEPT !.commits = @ \cup {i}, !.phase = "commit"]
    OBVIOUS
  <2>2. PICK msgs1 : msgs1 = msgs \cup Broadcast("COMMIT", i, s, r.digest)
    OBVIOUS
  <2>3. /\ r1 \in RequestStates /\ r1.tx = r.tx /\ r1.prepares = r.prepares
        /\ r1.commits = r.commits \cup {i} /\ r1.decided = r.decided
    BY <2>1 DEF RequestStates
  <2>4. CheckCommitQuorum(i, s, r1, msgs1)
    BY <1>1, <2>1, <2>2 DEF CheckPrepareQuorum, SendCommit
  <2>5. PICK r2 : Carried(i, s, r1, msgs1, r2) /\ r2.commits = r1.commits /\ Sends(msgs1)
    BY <2>3, <2>4, CommitCarried
  <2> QED
    BY <2>2, <2>3, <2>5 DEF Carried
<1>2. CASE ~PrepareQuorum(r)
  <2>1. /\ requests' = [requests EXCEPT ![i][s] = r]
        /\ Sends(msgs) /\ cached' = cached
    BY <1>2 DEF CheckPrepareQuorum, executionVars, Sends
  <2>2. ~(r.phase = "prepare" /\ Cardinality(r.prepares) >= Quorum)
    BY <1>2 DEF PrepareQuorum
  <2> QED
    BY <2>1, <2>2 DEF Carried
<1> QED
  BY <1>1, <1>2

\* The votes a node broadcasts are for the leader's proposal.
LEMMA BroadcastIsVote ==
    ASSUME FourNodes, GenuineInv, EntriesAreOwn', NEW i \in Sites, NEW s \in Seqs, Known(i, s)',
           NEW type, NEW digest, digest = requests'[i][s].digest, NEW d \in Sites \ {i}
    PROVE  Vote(type, i, d, s)' \in Broadcast(type, i, s, digest)
<1>1. digest = hash_message(Own(s)')
  BY DEF EntriesAreOwn, hash_message
<1>2. view[i] = 0 /\ d \in Peers(i)
  BY FourFacts DEF GenuineInv, ViewIsFirst
<1> QED
  BY <1>1, <1>2 DEF Vote, Broadcast, hash_message

\* Entry r, about to be carried on with, is what the node had and what it took.
Continues(i, s, r, msgs, r2) ==
    /\ r.digest = hash_message(r.tx) /\ i \in r.prepares
    /\ Known(i, s) =>
          /\ r.tx = requests[i][s].tx
          /\ requests[i][s].prepares \subseteq r.prepares
          /\ requests[i][s].commits \subseteq r.commits
    /\ ~Known(i, s) =>
          Broadcast("PREPARE", i, s, r.digest) \subseteq msgs /\ i # Leader /\ NoGapBefore(i, s)
    /\ \A m \in msgs : m \in net \/ m.type = "PREPARE"
    /\ \A j \in r.commits :
          \/ HasCommit(i, j, s)
          \/ j # i /\ \E m \in net : m.type = "COMMIT" /\ m.sender = j /\ m.seq = s
    /\ r.phase # "prepare" => i \in r.commits \/ s \in sending'[i] \/ r.decided
    /\ Cardinality(r.prepares) >= Quorum =>
          i \in r2.commits \/ s \in sending'[i] \/ r2.decided
    /\ \A j \in Sites, t \in Seqs :
          t \in sending[j] => t \in sending'[j] \/ (j = i /\ t = s)

\* Carrying on with an entry is progress.
LEMMA CarriedCounts ==
    ASSUME FourNodes, TypeOK, GenuineInv, QuorumInv, EntriesAreOwn',
           NEW i \in Sites, NEW s \in Seqs, NEW r \in RequestStates,
           NEW msgs, NEW r2, Carried(i, s, r, msgs, r2), Continues(i, s, r, msgs, r2)
    PROVE  EntriesProgress /\ Known(i, s)' /\ requests'[i][s] = r2
<1>0. requests \in [Sites -> [Seqs -> RequestStates \cup {NoRequest}]]
  BY DEF TypeOK
<1>1. requests'[i][s] = r2 /\ Known(i, s)'
  BY <1>0, DataAssumption DEF Carried, Known
<1>2. r.digest = requests'[i][s].digest
  <2>1. requests'[i][s].digest = hash_message(requests'[i][s].tx)
    <3>1. Known(i, s)'
      BY <1>1
    <3>2. requests'[i][s].tx = Own(s)' /\ requests'[i][s].digest = hash_message(Own(s)')
      BY <3>1 DEF EntriesAreOwn, hash_message
    <3> QED
      BY <3>2
  <2>2. requests'[i][s].tx = r.tx
    BY <1>1 DEF Carried
  <2> QED
    BY <2>1, <2>2 DEF Continues
<1>3. Known(i, s) \/ (Announces(i, s) /\ NoGapBefore(i, s))
  <2>1. SUFFICES ASSUME ~Known(i, s)
                 PROVE  Announces(i, s) /\ NoGapBefore(i, s)
    OBVIOUS
  <2>2. \A d \in Sites \ {i} : Vote("PREPARE", i, d, s)' \in net'
    BY <1>1, <1>2, <2>1, BroadcastIsVote DEF Carried, Continues, Sends
  <2> QED
    BY <2>1, <2>2 DEF Announces, Continues
<1>4. i \in r2.commits => HasCommit(i, i, s) \/ SendsCommit(i, s)
  BY <1>1, <1>2, BroadcastIsVote DEF Carried, Continues, SendsCommit, Sends
<1>5. \A j \in r2.commits :
         \/ HasCommit(i, j, s) \/ j = i
         \/ \E m \in net : m.type = "COMMIT" /\ m.sender = j /\ m.seq = s
  BY DEF Carried, Continues
<1>6. \A m \in net' \ net : m.type = "COMMIT" => m.sender = i /\ m.seq = s /\ i \in r2.commits
  BY DEF Carried, Continues, Broadcast, Sends
<1>7. Settled(i, s)'
  BY <1>1 DEF Settled, Voted, Carried, Continues, Quorum
<1>8. Known(i, s) =>
          /\ r2.tx = requests[i][s].tx
          /\ requests[i][s].prepares \subseteq r2.prepares
          /\ requests[i][s].commits \subseteq r2.commits
  BY DEF Carried, Continues
<1>9. Counts(i, s, r2)
  BY <1>3, <1>4, <1>5, <1>6, <1>7, <1>8 DEF Counts, Carried, Continues
<1> QED
  BY <1>9, EntryCounts

\* What is executed is remembered as the request that was stored.
LEMMA CachedIsStored ==
    ASSUME FourNodes, EntriesAreOwn', NEW i \in Sites, NEW s \in Seqs, Known(i, s)',
           NEW q \in AnsweredFromNow(requests'[i][s].tx)
    PROVE  Stored(q)'
<1> DEFINE tx == requests'[i][s].tx
<1>1. tx = Own(s)' /\ Known(Leader, s)'
  BY DEF EntriesAreOwn
<1>2. q = tx.req
  BY DEF AnsweredFromNow, FourNodes
<1> QED
  BY <1>1, <1>2 DEF Stored

LEMMA Concludes ==
    ASSUME FourNodes, TypeOK, QuorumInv, EntriesProgress, NothingLost,
           UNCHANGED <<attempts, lastSeq>>,
           \A j \in Sites : sending'[j] \subseteq sending[j],
           \A n \in net \ net' : n.type # "CLIENT_REQUEST",
           \A j \in Sites : \A q \in cached'[j] : q \in cached[j] \/ Stored(q)'
    PROVE  Progress
<1>1. NothingForgotten'
  BY Remembers DEF QuorumInv, EntriesProgress
<1>2. Numbers'
  <2>1. Leader \in Sites /\ Leader' = Leader
    BY FourFacts DEF Leader, get_leader
  <2> QED
    BY <2>1 DEF QuorumInv, Numbers, EntriesProgress, EntriesGrow
<1> QED
  BY <1>1, <1>2 DEF Progress, EntriesProgress

\* The leader proposes a request.
LEMMA ProposalIsProgress ==
    ASSUME FourNodes, IInv, GenuineInv, QuorumInv, EntriesAreOwn',
           NEW i \in Sites, is_leader(i, view[i]), NEW tx \in Txs,
           NEW phase \in {"pre_prepare", "prepare"}, Propose(i, tx, phase),
           NEW old \in SUBSET net,
           net' = old \cup ProposalMessages(i, lastSeq[i] + 1, tx), NothingLost,
           \A n \in net \ net' : n.type = "CLIENT_REQUEST" => n.req = tx.req,
           \A q \in Requests : attempts'[q] > 0 => attempts[q] > 0 \/ q = tx.req,
           phase # "prepare" => lastSeq[i] + 1 \in sending'[i],
           \A j \in Sites, t \in Seqs : t \in sending[j] => t \in sending'[j],
           \A j \in Sites : \A t, u \in sending'[j] : t = u
    PROVE  Progress
<1>0. PICK s : s = lastSeq[i] + 1
  OBVIOUS
<1>1. PICK r : r = [NewRequest(tx, hash_message(tx), {i}) EXCEPT !.phase = phase]
  OBVIOUS
<1>2. /\ requests' = [requests EXCEPT ![i][s] = r] /\ s \in Seqs
      /\ lastSeq' = [lastSeq EXCEPT ![i] = s] /\ cached' = cached
  BY <1>0, <1>1 DEF Propose
<1>3. i = Leader /\ i \in Correct /\ Leader' = Leader /\ view[i] = 0
  BY FourFacts DEF GenuineInv, ViewIsFirst, is_leader, Leader, get_leader
<1>4. /\ r \in RequestStates /\ r.tx = tx /\ r.prepares = {i} /\ r.commits = {}
      /\ r.phase = phase
  BY <1>1 DEF NewRequest, RequestStates, hash_message, Digests
<1>5. ~Known(i, s)
  <2>1. lastSeq[i] \in Int
    BY DEF IInv, TypeOK
  <2> QED
    BY <1>0, <1>2, <1>3, <2>1 DEF IInv, NothingAhead
<1>6. requests'[i][s] = r /\ Known(i, s)'
  BY <1>2, <1>4, DataAssumption DEF IInv, TypeOK, Known
<1>7. Own(s)' = tx
  BY <1>3, <1>4, <1>6 DEF Own
<1>8. Announces(i, s)
  <2>1. ASSUME NEW d \in Sites \ {i}
        PROVE  Vote("PREPARE", i, d, s)' \in net' /\ Proposal(d, s)' \in net'
    <3>1. d \in Peers(i) /\ ProposalFor(i, d, tx) = tx
      BY <1>3, FourFacts DEF ProposalFor, FourNodes
    <3>2. Vote("PREPARE", i, d, s)' \in Broadcast("PREPARE", i, s, hash_message(tx))
      BY <1>3, <1>7, <3>1 DEF Vote, Broadcast, hash_message
    <3>3. Proposal(d, s)' \in BroadcastPrePrepare(i, s, tx)
      BY <1>3, <1>7, <3>1 DEF Proposal, BroadcastPrePrepare, hash_message
    <3> QED
      BY <1>0, <3>2, <3>3 DEF ProposalMessages
  <2> QED
    BY <2>1 DEF Announces
<1>9. Cardinality(r.prepares) = 1 /\ Cardinality(r.commits) = 0 /\ Quorum = 3
  <2>1. Cardinality({i}) = 1 /\ Cardinality({}) = 0
    BY FS_Singleton, FS_EmptySet
  <2> QED
    BY <1>4, <2>1, FourFacts
<1>10. Settled(i, s)'
  <2>1. phase # "prepare" => s \in sending'[i]
    BY <1>0
  <2>2. ~(Cardinality(r.prepares) >= Quorum) /\ ~(Cardinality(r.commits) >= Quorum)
    BY <1>9
  <2>3. i \in r.prepares /\ r.phase = phase
    BY <1>4
  <2> QED
    BY <1>6, <2>1, <2>2, <2>3 DEF Settled, Voted, Quorum
<1>11. \A m \in net' : m \in net \/ m.type \in {"PRE_PREPARE", "PREPARE"}
  BY DEF ProposalMessages, BroadcastPrePrepare, Broadcast
<1>12. lastSeq \in [Sites -> Int] /\ \A t \in Seqs : t < s => Known(i, t)
  <2>1. lastSeq \in [Sites -> Int] /\ i \in Sites
    BY DEF IInv, TypeOK
  <2> QED
    BY <1>0, <1>3, <2>1 DEF QuorumInv, Numbers, Seqs
<1>13. Counts(i, s, r)
  BY <1>2, <1>4, <1>5, <1>8, <1>10, <1>11, <1>12 DEF Counts, NoGapBefore
<1>14. EntriesProgress
  BY <1>2, <1>13, EntryCounts DEF IInv
<1>15. Stored(tx.req)'
  BY <1>2, <1>3, <1>6, <1>7 DEF Stored
<1>16. NothingForgotten'
  BY <1>2, <1>14, <1>15, Remembers DEF QuorumInv, EntriesProgress
<1>17. Numbers'
  <2>1. \A j \in Sites : lastSeq'[j] <= MaxSeq
    BY <1>2, <1>12, DataAssumption DEF QuorumInv, Numbers, Seqs
  <2>2. ASSUME NEW t \in Seqs, t <= lastSeq'[Leader]
        PROVE  Known(Leader, t)'
    <3>1. t < s \/ t = s
      BY <1>2, <1>3, <1>12, <2>2 DEF Seqs
    <3>2. t < s => Known(Leader, t)'
      BY <1>3, <1>14, <1>12 DEF EntriesProgress, EntriesGrow
    <3> QED
      BY <1>3, <1>6, <3>1, <3>2
  <2> QED
    BY <1>3, <2>1, <2>2 DEF Numbers
<1> QED
  BY <1>14, <1>16, <1>17 DEF Progress, EntriesProgress

LEMMA HandleIsProgress ==
    ASSUME FourNodes, IInv, GenuineInv, QuorumInv, EntriesAreOwn, EntriesAreOwn',
           NEW i \in Sites, NEW m \in net, m.dst = i, Deliverable(m), HandleMessage(i, m)
    PROVE  Progress
<1> USE MessageFields
<1>0. /\ TypeOK /\ m \in Messages /\ view[i] = 0 /\ i \in Correct
      /\ Leader = get_leader(0)
  BY FourFacts DEF IInv, TypeOK, GenuineInv, ViewIsFirst, Leader
\* A message without effect.
<1>1. ASSUME UNCHANGED <<requests, attempts, lastSeq, sending, cached>>,
             net' = net \ {m}, Taken(m), m.type # "CLIENT_REQUEST"
      PROVE  Progress
  <2>1. EntriesProgress
    BY <1>0, <1>1, SameEntries
  <2>2. NothingLost
    BY <1>1 DEF NothingLost
  <2> QED
    BY <1>0, <1>1, <2>1, <2>2, Concludes
\* A vote, or a proposal that is accepted.
<1>2. ASSUME NEW s \in Seqs, NEW r \in RequestStates, NEW msgs, NEW r2,
             Carried(i, s, r, msgs, r2), EntriesProgress, Known(i, s)', requests'[i][s] = r2,
             UNCHANGED <<attempts, lastSeq, sending>>, Taken(m), m.type # "CLIENT_REQUEST",
             net \ {m} \subseteq msgs,
             \A n \in msgs : n \in net \/ n.type = "PREPARE"
      PROVE  Progress
  <2>1. NothingLost
    BY <1>2 DEF NothingLost, Carried, Sends
  <2>3. \A n \in net \ net' : n.type # "CLIENT_REQUEST"
    BY <1>2 DEF Carried, Sends
  <2>4. \A j \in Sites : \A q \in cached'[j] : q \in cached[j] \/ Stored(q)'
    BY <1>2, CachedIsStored DEF Carried
  <2> QED
    BY <1>0, <1>2, <2>1, <2>3, <2>4, Concludes
<1>3. CASE HandlePrePrepare(i, m)
  <2>0. m.type = "PRE_PREPARE" /\ m.seq \in Seqs /\ m.digest \in Digests /\ m.request \in Txs
    BY <1>0, <1>3 DEF HandlePrePrepare
  <2>1. CASE AcceptPrePrepare(i, m)
    <3>1. PICK r : r = [NewRequest(m.request, m.digest, {}) EXCEPT
                           !.prepares = @ \cup {i}, !.phase = "prepare"]
      OBVIOUS
    <3>2. PICK msgs : msgs = (net \ {m}) \cup Broadcast("PREPARE", i, m.seq, m.digest)
      OBVIOUS
    <3>3. /\ r \in RequestStates /\ r.tx = m.request /\ r.digest = m.digest
          /\ r.prepares = {i} /\ r.commits = {} /\ r.phase = "prepare"
      BY <2>0, <3>1 DEF NewRequest, RequestStates
    <3>4. /\ ValidPrePrepare(i, m) /\ ~Known(i, m.seq)
          /\ CheckPrepareQuorum(i, m.seq, r, msgs)
          /\ UNCHANGED <<attempts, lastSeq, sending>>
      BY <2>1, <3>1, <3>2 DEF AcceptPrePrepare, RecordOwnPrepare, protocolVars
    <3>5. Cardinality(r.prepares) = 1 /\ Cardinality(r.commits) = 0 /\ Quorum = 3
      BY <3>3, FS_Singleton, FS_EmptySet, FourFacts
    <3>6. PICK r2 : Carried(i, m.seq, r, msgs, r2)
      <4>1. ~(Cardinality(r.commits) >= Quorum) /\ CheckPrepareQuorum(i, m.seq, r, msgs)
        BY <3>4, <3>5
      <4> QED
        BY ONLY <1>0, <2>0, <3>3, <4>1, PrepareCarried, FourNodes, i \in Sites
    <3>7. i # Leader /\ r.digest = hash_message(r.tx)
      <4>1. m.sender = Leader /\ m.digest = hash_message(m.request)
        BY <1>0, <3>4 DEF ValidPrePrepare
      <4>2. m.sender # m.dst
        BY <2>0 DEF IInv, MessagesAreSound, Sound
      <4> QED
        BY <3>3, <4>1, <4>2
    <3>8. /\ Broadcast("PREPARE", i, m.seq, r.digest) \subseteq msgs
          /\ \A n \in msgs : n \in net \/ n.type = "PREPARE"
      BY <3>2, <3>3 DEF Broadcast
    \* The proposals before it have come, for it has not overtaken them.
    <3>9. NoGapBefore(i, m.seq)
      <4>1. m.sender = Leader /\ i # Leader /\ Leader \in Correct
        BY <1>0, <3>4, <3>7, FourFacts DEF ValidPrePrepare
      <4>2. Known(Leader, m.seq)
        BY <2>0, <4>1 DEF GenuineInv, ProposalsAreGenuine, Proposed
      <4>3. \A t \in Seqs : t < m.seq => Known(Leader, t)
        BY <2>0, <4>1, <4>2, FourFacts DEF QuorumInv, NothingSkipped, NoGapBefore
      <4>4. \A t \in Seqs : t < m.seq => Overtakes(m, Proposal(i, t))
        BY <2>0, <4>1 DEF Overtakes, Proposal, FourNodes
      <4>5. \A t \in Seqs : t < m.seq => Proposal(i, t) \notin net
        BY <4>4 DEF Deliverable, FourNodes
      <4> QED
        BY <4>1, <4>3, <4>5 DEF QuorumInv, LeaderIsHeard, NoGapBefore
    <3>10. EntriesProgress /\ Known(i, m.seq)' /\ requests'[i][m.seq] = r2
      <4>1. Continues(i, m.seq, r, msgs, r2)
        BY <3>3, <3>4, <3>5, <3>7, <3>8, <3>9 DEF Continues
      <4> QED
        BY <1>0, <2>0, <3>3, <3>6, <4>1, CarriedCounts
    <3>11. Taken(m)
      BY <2>0, <3>10 DEF Taken
    <3> QED
      BY <1>2, <2>0, <3>2, <3>3, <3>4, <3>6, <3>8, <3>10, <3>11
  <2>2. CASE ~AcceptPrePrepare(i, m)
    <3>1. /\ UNCHANGED <<requests, attempts, lastSeq, sending, cached>>
          /\ net' = net \ {m}
          /\ Known(i, m.seq) \/ ~ValidPrePrepare(i, m)
      BY <1>3, <2>2 DEF HandlePrePrepare, DetectEquivocation, Ignore, protocolVars,
                        executionVars, checkpointVars
    \* What lies below the watermark is stored already.
    <3>2. m = Proposal(i, m.seq) => ValidPrePrepare(i, m) \/ Known(i, m.seq)
      <4>1. m.seq \in Int /\ m.seq > 0 /\ m.seq < Window /\ Window \in Nat
        BY <2>0, DataAssumption DEF FourNodes, Seqs
      <4>2. low[i] = 0 \/ (low[i] \in Seqs /\ Known(i, low[i]) /\ NoGapBefore(i, low[i]))
        BY DEF QuorumInv, NothingSkipped
      <4>3. low[i] \in Nat /\ (m.seq <= low[i] => Known(i, m.seq))
        BY <2>0, <4>1, <4>2 DEF NoGapBefore, Seqs
      <4> QED
        BY <1>0, <4>1, <4>3 DEF ValidPrePrepare, Proposal
    <3>3. Known(i, m.seq) => Known(i, m.seq)'
      BY <3>1 DEF Known
    <3>4. Taken(m)
      BY <2>0, <3>1, <3>2, <3>3 DEF Taken
    <3> QED
      BY <1>1, <2>0, <3>1, <3>4
  <2> QED
    BY <2>1, <2>2
<1>4. ASSUME m.type \in {"PREPARE", "COMMIT"}, Known(i, m.seq), m.digest = hash_message(Own(m.seq)),
             m.view = 0
      PROVE  MatchingVote(i, m)
  BY <1>0, <1>4 DEF MatchingVote, EntriesAreOwn
<1>5. CASE HandlePrepare(i, m)
  <2> DEFINE r == requests[i][m.seq]
  <2>0. m.type = "PREPARE" /\ m.seq \in Seqs /\ m.sender \in Sites
    BY <1>0, <1>5 DEF HandlePrepare
  <2>1. CASE MatchingVote(i, m) /\ m.sender \notin r.prepares
    <3>1. PICK r1 : r1 = [r EXCEPT !.prepares = @ \cup {m.sender}]
      OBVIOUS
    <3>2. Known(i, m.seq) /\ r \in RequestStates /\ Settled(i, m.seq)
      BY <1>0, <2>0, <2>1 DEF MatchingVote, Known, TypeOK, QuorumInv
    <3>3. /\ r1 \in RequestStates /\ r1.tx = r.tx /\ r1.digest = r.digest
          /\ r1.prepares = r.prepares \cup {m.sender} /\ r1.commits = r.commits
          /\ r1.phase = r.phase /\ r1.decided = r.decided
      BY <2>0, <3>1, <3>2 DEF RequestStates
    <3>4. CheckPrepareQuorum(i, m.seq, r1, net \ {m}) /\ UNCHANGED <<attempts, lastSeq, sending>>
      BY <1>5, <2>1, <3>1 DEF HandlePrepare, protocolVars
    <3>5. PICK r2 : /\ Carried(i, m.seq, r1, net \ {m}, r2)
                    /\ r1.phase = "prepare" /\ Cardinality(r1.prepares) >= Quorum =>
                           i \in r2.commits
      BY <1>0, <2>0, <3>2, <3>3, <3>4, PrepareCarried DEF Settled
    <3>6. Cardinality(r1.prepares) >= Quorum =>
              i \in r2.commits \/ m.seq \in sending'[i] \/ r2.decided
      BY <3>2, <3>3, <3>4, <3>5 DEF Settled, Voted, Carried
    <3>7. r1.digest = hash_message(r1.tx)
      BY <1>0, <2>0, <3>2, <3>3 DEF IInv, EntriesAreSound
    <3>8. EntriesProgress /\ Known(i, m.seq)' /\ requests'[i][m.seq] = r2
      <4>1. Continues(i, m.seq, r1, net \ {m}, r2)
        BY <3>2, <3>3, <3>4, <3>6, <3>7 DEF Continues, HasCommit, Settled, Voted
      <4> QED
        BY <1>0, <2>0, <3>3, <3>5, <4>1, CarriedCounts
    <3>9. Taken(m)
      BY <2>0, <3>3, <3>5, <3>8 DEF Taken, HasPrepare, Carried
    <3> QED
      BY <1>2, <2>0, <3>3, <3>4, <3>5, <3>8, <3>9
  <2>2. CASE ~(MatchingVote(i, m) /\ m.sender \notin r.prepares)
    <3>1. /\ UNCHANGED <<requests, attempts, lastSeq, sending, cached>>
          /\ net' = net \ {m}
      BY <1>5, <2>2 DEF HandlePrepare, Ignore, protocolVars, executionVars, checkpointVars
    <3>2. Taken(m)
      BY <1>4, <2>0, <2>2, <3>1 DEF Taken, HasPrepare, Vote, Known
    <3> QED
      BY <1>1, <2>0, <3>1, <3>2
  <2> QED
    BY <2>1, <2>2
<1>6. CASE HandleCommit(i, m)
  <2> DEFINE r == requests[i][m.seq]
  <2>0. m.type = "COMMIT" /\ m.seq \in Seqs /\ m.sender \in Sites
    BY <1>0, <1>6 DEF HandleCommit
  <2>1. CASE MatchingVote(i, m) /\ m.sender \notin r.commits
    <3>1. PICK r1 : r1 = [r EXCEPT !.commits = @ \cup {m.sender}]
      OBVIOUS
    <3>2. Known(i, m.seq) /\ r \in RequestStates /\ Settled(i, m.seq)
      BY <1>0, <2>0, <2>1 DEF MatchingVote, Known, TypeOK, QuorumInv
    <3>3. /\ r1 \in RequestStates /\ r1.tx = r.tx /\ r1.digest = r.digest
          /\ r1.prepares = r.prepares /\ r1.commits = r.commits \cup {m.sender}
          /\ r1.phase = r.phase /\ r1.decided = r.decided
      BY <2>0, <3>1, <3>2 DEF RequestStates
    <3>4. CheckCommitQuorum(i, m.seq, r1, net \ {m}) /\ UNCHANGED <<attempts, lastSeq, sending>>
      BY <1>6, <2>1, <3>1 DEF HandleCommit, protocolVars
    <3>5. PICK r2 : Carried(i, m.seq, r1, net \ {m}, r2)
      BY <1>0, <2>0, <3>3, <3>4, CommitCarried
    <3>6. Cardinality(r1.prepares) >= Quorum =>
              i \in r2.commits \/ m.seq \in sending'[i] \/ r2.decided
      BY <3>2, <3>3, <3>4, <3>5 DEF Settled, Voted, Carried
    <3>7. r1.digest = hash_message(r1.tx)
      BY <1>0, <2>0, <3>2, <3>3 DEF IInv, EntriesAreSound
    <3>8. m.sender = i => i \in r.commits
      BY <2>0 DEF QuorumInv, CommitsAreSent, HasCommit
    <3>9. EntriesProgress /\ Known(i, m.seq)' /\ requests'[i][m.seq] = r2
      <4>1. Continues(i, m.seq, r1, net \ {m}, r2)
        BY <2>0, <3>2, <3>3, <3>4, <3>6, <3>7, <3>8 DEF Continues, HasCommit, Settled, Voted
      <4> QED
        BY <1>0, <2>0, <3>3, <3>5, <4>1, CarriedCounts
    <3>10. Taken(m)
      BY <2>0, <3>3, <3>5, <3>9 DEF Taken, HasCommit, Carried
    <3> QED
      BY <1>2, <2>0, <3>3, <3>4, <3>5, <3>9, <3>10
  <2>2. CASE ~(MatchingVote(i, m) /\ m.sender \notin r.commits)
    <3>1. /\ UNCHANGED <<requests, attempts, lastSeq, sending, cached>>
          /\ net' = net \ {m}
      BY <1>6, <2>2 DEF HandleCommit, Ignore, protocolVars, executionVars, checkpointVars
    <3>2. Taken(m)
      BY <1>4, <2>0, <2>2, <3>1 DEF Taken, HasCommit, Vote, Known
    <3> QED
      BY <1>1, <2>0, <3>1, <3>2
  <2> QED
    BY <2>1, <2>2
<1>7. CASE HandleClientRequest(i, m)
  <2>0. /\ m.type = "CLIENT_REQUEST" /\ m.req \in Requests /\ Taken(m)
        /\ m \in [type: {"CLIENT_REQUEST"}, dst: Sites, req: Requests]
    BY <1>0, <1>7 DEF HandleClientRequest, Messages, Taken
  <2>1. CASE ProposeClientRequest(i, m)
    <3>1. PICK tx : tx = [req |-> m.req, id |-> lastSeq[i] + 1, fake |-> FALSE]
      OBVIOUS
    <3>2. /\ is_leader(i, view[i]) /\ Propose(i, tx, "prepare")
          /\ net' = (net \ {m}) \cup ProposalMessages(i, lastSeq[i] + 1, tx)
          /\ UNCHANGED <<sending, attempts>>
      BY <2>1, <3>1 DEF ProposeClientRequest
    <3>3. tx \in Txs
      BY <2>0, <3>1, <3>2, DataAssumption DEF Txs, Propose
    <3>4. NothingLost /\ net \ {m} \in SUBSET net
      BY <2>0, <3>2 DEF NothingLost
    <3>5. \A j \in Sites : \A t, u \in sending'[j] : t = u
      BY <3>2 DEF QuorumInv, Numbers
    <3>6. \A n \in net \ net' : n.type = "CLIENT_REQUEST" => n.req = tx.req
      BY <3>1, <3>2
    <3>7. /\ \A q \in Requests : attempts'[q] > 0 => attempts[q] > 0 \/ q = tx.req
          /\ \A j \in Sites, t \in Seqs : t \in sending[j] => t \in sending'[j]
      BY <3>2
    <3> QED
      BY <3>2, <3>3, <3>4, <3>5, <3>6, <3>7, ProposalIsProgress
  \* Anything else leaves requests, counters and votes alone.
  <2>2. ASSUME UNCHANGED <<requests, attempts, lastSeq, sending, cached>>,
               net \ {m} \subseteq net', \A n \in net' : n \in net \/ n.type = "CLIENT_REQUEST",
               Stored(m.req) \/ \E n \in net' : n.type = "CLIENT_REQUEST" /\ n.req = m.req
        PROVE  Progress
    <3>1. EntriesProgress
      BY <1>0, <2>2, SameEntries
    <3>2. NothingLost
      BY <2>0, <2>2 DEF NothingLost
    <3>3. NothingForgotten'
      <4>1. Stored(m.req) => Stored(m.req)'
        BY <2>2 DEF Stored, Known, Own, Leader, get_leader
      <4>2. \A n \in net \ net' : n = m
        BY <2>2
      <4> QED
        BY <2>2, <3>1, <4>1, <4>2, Remembers DEF QuorumInv, EntriesProgress
    <3>4. Numbers'
      BY <2>2 DEF QuorumInv, Numbers, Known, Leader, get_leader
    <3> QED
      BY <3>1, <3>2, <3>3, <3>4 DEF Progress, EntriesProgress
  <2>3. CASE ReplyFromCache(i, m)
    <3>1. Stored(m.req)
      BY <2>3 DEF ReplyFromCache, QuorumInv, NothingForgotten
    <3>2. /\ UNCHANGED <<requests, attempts, lastSeq, sending, cached>>
          /\ net' = net \ {m}
      BY <2>3 DEF ReplyFromCache, protocolVars
    <3> QED
      BY <2>2, <3>1, <3>2
  <2>4. CASE Redirect(i, m)
    <3>1. PICK n : n = [m EXCEPT !.dst = get_leader(view[i])]
      OBVIOUS
    <3>2. n.type = "CLIENT_REQUEST" /\ n.req = m.req /\ n.dst \in Correct
      BY <1>0, <2>0, <3>1, FourFacts
    <3>3. /\ UNCHANGED <<requests, attempts, lastSeq, sending, cached>>
          /\ net' = (net \ {m}) \cup {n}
      BY <2>4, <3>1, <3>2 DEF Redirect, protocolVars, executionVars
    <3> QED
      BY <2>2, <3>2, <3>3
  <2>5. ~RejectAboveWatermark(i, m)
    <3>1. lastSeq[i] \in Int /\ lastSeq[i] <= MaxSeq
      BY <1>0 DEF TypeOK, QuorumInv, Numbers
    <3>2. low[i] \in Nat
      BY DEF QuorumInv, NothingSkipped, Seqs
    <3> QED
      BY <1>0, <3>1, <3>2, DataAssumption DEF RejectAboveWatermark, BelowHighWatermark, FourNodes
  <2> QED
    BY <1>7, <2>1, <2>3, <2>4, <2>5 DEF HandleClientRequest
<1>8. CASE HandleCheckpoint(i, m)
  <2>1. /\ UNCHANGED <<requests, attempts, lastSeq, sending, cached>>
        /\ net' = net \ {m} /\ m.type = "CHECKPOINT"
    BY <1>8 DEF HandleCheckpoint, protocolVars, executionVars
  <2>2. Taken(m)
    BY <2>1 DEF Taken
  <2> QED
    BY <1>1, <2>1, <2>2
<1> QED
  BY <1>3, <1>5, <1>6, <1>7, <1>8 DEF HandleMessage

LEMMA StepIsProgress ==
    ASSUME FourNodes, IInv, GenuineInv, QuorumInv, IInv', GenuineInv', [Next]_vars
    PROVE  Progress
<1>0. /\ TypeOK /\ EntriesAreOwn /\ EntriesAreOwn'
      /\ Correct = Sites /\ Demo \subseteq Requests
  BY OwnEntries, OwnEntriesNext, FourFacts, DataAssumption DEF IInv
<1>1. CASE UNCHANGED vars
  <2>1. EntriesProgress
    BY <1>1, SameEntries DEF vars
  <2> QED
    BY <1>0, <1>1, <2>1, Concludes DEF vars, NothingLost
<1>2. ASSUME NEW q \in Requests, NEW d \in Sites, SendRequest(q, d)
      PROVE  Progress
  <2>1. PICK n : n = [type |-> "CLIENT_REQUEST", dst |-> d, req |-> q]
    OBVIOUS
  <2>2. /\ attempts' = [attempts EXCEPT ![q] = @ + 1] /\ net' = net \cup {n}
        /\ UNCHANGED <<requests, lastSeq, sending, cached>>
    BY <1>2, <2>1 DEF SendRequest, protocolVars, executionVars
  <2>3. EntriesProgress
    BY <2>1, <2>2, SameEntries
  <2>4. \A p \in Requests : attempts'[p] > 0 => attempts[p] > 0 \/ p = q
    BY <1>0, <2>2 DEF TypeOK
  <2>5. NothingForgotten'
    BY <2>1, <2>2, <2>3, <2>4, Remembers DEF QuorumInv, EntriesProgress
  <2>6. Numbers'
    BY <2>2 DEF QuorumInv, Numbers, Known, Leader, get_leader
  <2> QED
    BY <2>2, <2>3, <2>5, <2>6 DEF Progress, EntriesProgress, NothingLost
<1>3. ASSUME NEW i \in Correct, ProcessMessage(i)
      PROVE  Progress
  BY <1>0, <1>3, HandleIsProgress DEF ProcessMessage
<1>4. ASSUME NEW i \in Correct
      PROVE  ~ProcessFaultyMessage(i)
  BY DEF ProcessFaultyMessage, FaultyMessages, FourNodes
<1>5. ASSUME NEW i \in Correct, NEW q \in Demo, SubmitRequest(i, q)
      PROVE  Progress
  <2>1. PICK tx : tx = [req |-> q, id |-> DemoId[q], fake |-> FALSE]
    OBVIOUS
  <2>2. /\ is_leader(i, view[i]) /\ Propose(i, tx, "pre_prepare")
        /\ sending[i] = {} /\ sending' = [sending EXCEPT ![i] = {lastSeq[i] + 1}]
        /\ attempts' = [attempts EXCEPT ![q] = 1]
        /\ net' = net \cup ProposalMessages(i, lastSeq[i] + 1, tx)
    BY <1>5, <2>1 DEF SubmitRequest
  <2>3. tx \in Txs /\ tx.req = q
    BY <1>0, <2>1, DataAssumption DEF Txs
  <2>4. \A p \in Requests : attempts'[p] > 0 => attempts[p] > 0 \/ p = tx.req
    BY <1>0, <2>2, <2>3 DEF TypeOK
  <2>5. /\ lastSeq[i] + 1 \in sending'[i]
        /\ \A j \in Sites, t \in Seqs : t \in sending[j] => t \in sending'[j]
        /\ \A j \in Sites : \A t, u \in sending'[j] : t = u
    BY <1>0, <2>2 DEF TypeOK, QuorumInv, Numbers
  <2>6. NothingLost /\ net \in SUBSET net
    BY <2>2 DEF NothingLost
  <2> QED
    BY <1>0, <2>2, <2>3, <2>4, <2>5, <2>6, ProposalIsProgress
<1>6. ASSUME NEW i \in Correct, FinishSendPrepare(i)
      PROVE  Progress
  <2>1. PICK s \in sending[i] :
           /\ RecordOwnPrepare(i, s, requests[i][s], net)
           /\ sending' = [sending EXCEPT ![i] = {}]
           /\ UNCHANGED <<lastSeq, attempts>>
    BY <1>6 DEF FinishSendPrepare
  <2> DEFINE r == requests[i][s]
  <2>2. PICK r1 : r1 = [r EXCEPT !.prepares = @ \cup {i}, !.phase = "prepare"]
    OBVIOUS
  <2>3. i \in Sites /\ s \in Seqs /\ Known(i, s) /\ r \in RequestStates /\ Settled(i, s)
    BY <1>0 DEF IInv, TypeOK, SendingIsKnown, Known, QuorumInv
  <2>4. /\ r1 \in RequestStates /\ r1.tx = r.tx /\ r1.digest = r.digest /\ r1.phase = "prepare"
        /\ r1.prepares = r.prepares \cup {i} /\ r1.commits = r.commits
        /\ r1.decided = r.decided
    BY <2>2, <2>3 DEF RequestStates
  <2>5. CheckPrepareQuorum(i, s, r1, net)
    BY <2>1, <2>2 DEF RecordOwnPrepare
  <2>6. PICK r2 : /\ Carried(i, s, r1, net, r2)
                  /\ r1.phase = "prepare" /\ Cardinality(r1.prepares) >= Quorum =>
                         i \in r2.commits
    BY <1>0, <2>3, <2>4, <2>5, PrepareCarried DEF Settled
  <2>7. /\ \A j \in Sites : sending'[j] \subseteq sending[j]
        /\ \A j \in Sites, t \in Seqs : t \in sending[j] => t \in sending'[j] \/ (j = i /\ t = s)
    BY <1>0, <2>1 DEF TypeOK, QuorumInv, Numbers
  <2>8. r1.digest = hash_message(r1.tx)
    BY <1>0, <2>3, <2>4 DEF IInv, EntriesAreSound
  <2>9. Continues(i, s, r1, net, r2)
    BY <2>3, <2>4, <2>6, <2>7, <2>8 DEF Continues, HasCommit, Settled
  <2>10. EntriesProgress /\ Known(i, s)' /\ requests'[i][s] = r2
    BY <1>0, <2>3, <2>4, <2>6, <2>9, CarriedCounts
  <2>11. net \subseteq net'
    BY <2>6 DEF Carried, Sends
  <2>12. \A j \in Sites : \A q \in cached'[j] : q \in cached[j] \/ Stored(q)'
    BY <1>0, <2>3, <2>6, <2>10, CachedIsStored DEF Carried
  <2> QED
    BY <1>0, <2>1, <2>7, <2>10, <2>11, <2>12, Concludes DEF NothingLost
<1>7. Next => Progress
  BY <1>0, <1>2, <1>3, <1>4, <1>5, <1>6 DEF Next
<1> QED
  BY <1>1, <1>7

LEMMA InitQuorumInv == ASSUME FourNodes PROVE Init => QuorumInv
<1> SUFFICES ASSUME Init
             PROVE  QuorumInv
  OBVIOUS
<1>0. Leader \in Sites /\ Demo \subseteq Requests
  BY FourFacts, DataAssumption
<1>1. \A i \in Sites, s \in Seqs : ~Known(i, s)
  BY DEF Init, Known
<1>2. LeaderIsHeard /\ OneHearsTheOther /\ OneMissesCommits
  BY <1>0, <1>1 DEF LeaderIsHeard, OneHearsTheOther, OneMissesCommits, MissesPrepare,
                    MissesCommit, HasCommit
<1>3. CommitsAreSent
  BY <1>1 DEF Init, CommitsAreSent, HasCommit
<1>4. NothingForgotten
  BY DEF Init, NothingForgotten
<1>5. Numbers
  BY <1>0, DataAssumption DEF Init, Numbers, Seqs
<1>6. NothingSkipped
  BY <1>1 DEF Init, NothingSkipped
<1> QED
  BY <1>1, <1>2, <1>3, <1>4, <1>5, <1>6 DEF QuorumInv

\* Of four nodes two are outside any set that is no quorum.
LEMMA TwoOutside ==
    ASSUME FourNodes, NEW P \in SUBSET Sites, ~(Cardinality(P) >= Quorum)
    PROVE  \E j, k \in Sites \ P : j # k
<1> DEFINE R == Sites \ P
<1>0. IsFiniteSet(Sites) /\ Cardinality(Sites) = 4 /\ Quorum = 3
  BY FourFacts
<1>1. /\ IsFiniteSet(P) /\ IsFiniteSet(R) /\ Cardinality(P) \in Nat /\ Cardinality(R) \in Nat
      /\ IsFiniteSet({}) /\ Cardinality({}) = 0
  BY <1>0, FS_Subset, FS_CardinalityType, FS_EmptySet
<1>2. Cardinality(R) = 4 - Cardinality(P)
  <2>1. Cardinality(R) = Cardinality(Sites) - Cardinality(Sites \cap P)
    BY <1>0, FS_Difference
  <2> QED
    BY <1>0, <2>1, Sites \cap P = P
<1>3. Cardinality(R) >= 2
  BY <1>0, <1>1, <1>2
<1>4. R # {}
  BY <1>1, <1>3
<1>5. PICK j \in R : TRUE
  BY <1>4
<1>6. Cardinality(R \ {j}) = Cardinality(R) - 1
  BY <1>1, FS_RemoveElement
<1>7. R \ {j} # {}
  BY <1>1, <1>3, <1>6
<1> QED
  BY <1>7

\* Of four nodes, all but one are a quorum.
LEMMA AllButOne ==
    ASSUME FourNodes, NEW i \in Sites, NEW P \in SUBSET Sites, Sites \ {i} \subseteq P
    PROVE  Cardinality(P) >= Quorum
<1>1. IsFiniteSet(Sites) /\ Cardinality(Sites) = 4 /\ Quorum = 3
  BY FourFacts
<1>2. Cardinality(Sites \ {i}) = 3
  BY <1>1, FS_RemoveElement
<1>3. IsFiniteSet(P)
  BY <1>1, FS_Subset
<1>4. Cardinality(Sites \ {i}) <= Cardinality(P)
  BY <1>3, FS_Subset
<1> QED
  BY <1>1, <1>2, <1>4

LEMMA FourSites ==
    ASSUME FourNodes, NEW w \in Sites, NEW x \in Sites \ {w}, NEW y \in Sites \ {w, x},
           NEW z \in Sites \ {w, x, y}
    PROVE  Sites = {w, x, y, z}
<1> DEFINE A == Sites \ {w}
           B == A \ {x}
           C == B \ {y}
           D == C \ {z}
<1>0. IsFiniteSet(Sites) /\ Cardinality(Sites) = 4
  BY FourFacts
<1>1. IsFiniteSet(A) /\ Cardinality(A) = 3
  BY <1>0, FS_RemoveElement
<1>2. IsFiniteSet(B) /\ Cardinality(B) = 2
  <2> x \in A
    OBVIOUS
  <2> HIDE DEF A
  <2> QED
    BY <1>1, FS_RemoveElement
<1>3. IsFiniteSet(C) /\ Cardinality(C) = 1
  <2> y \in B
    OBVIOUS
  <2> HIDE DEF B
  <2> QED
    BY <1>2, FS_RemoveElement
<1>4. IsFiniteSet(D) /\ Cardinality(D) = 0
  <2> z \in C
    OBVIOUS
  <2> HIDE DEF C
  <2> QED
    BY <1>3, FS_RemoveElement
<1>5. D = {}
  <2> HIDE DEF D
  <2> QED
    BY <1>4, FS_EmptySet
<1> QED
  BY <1>5

\* With nothing in flight, one node at most has fewer votes than a quorum.
LEMMA OneIsNotPrepared ==
    ASSUME FourNodes, IInv, GenuineInv, QuorumInv, net = {},
           NEW s \in Seqs, \A x \in Sites : Known(x, s),
           NEW i \in Sites, ~Prepared(i, s), NEW k \in Sites \ {i}, ~Prepared(k, s)
    PROVE  FALSE
<1>0. /\ Leader \in Sites /\ net = {} /\ Correct = Sites
      /\ \A x \in Sites : Settled(x, s) /\ requests[x][s].prepares \in SUBSET Sites
  BY FourFacts DEF QuorumInv, IInv, TypeOK, Known, RequestStates
\* Whoever is not prepared misses the votes of the two other backups.
<1>1. ASSUME NEW x \in Sites, ~Prepared(x, s)
      PROVE  x # Leader /\ \A y \in Sites \ {x, Leader} : MissesPrepare(x, y, s)
  <2> DEFINE P == requests[x][s].prepares
  <2>1. PICK a, b \in Sites \ P : a # b
    BY <1>0, <1>1, TwoOutside DEF Prepared
  <2>2. \A z \in Sites \ P : z # x /\ MissesPrepare(x, z, s)
    BY <1>0 DEF MissesPrepare, HasPrepare, Settled
  <2>3. x # Leader /\ a # Leader /\ b # Leader
    BY <1>0, <2>1, <2>2 DEF QuorumInv, LeaderIsHeard
  <2>4. Sites = {x, Leader, a, b}
    BY <1>0, <2>1, <2>2, <2>3, FourSites
  <2> QED
    BY <2>1, <2>2, <2>3, <2>4
<1>2. MissesPrepare(i, k, s) /\ MissesPrepare(k, i, s)
  BY <1>1
<1> QED
  BY <1>2 DEF QuorumInv, OneHearsTheOther

\* With nothing in flight, a quorum has sent its COMMITs, and all but one node
\* have counted them.
LEMMA QuiescenceExecutes ==
    ASSUME FourNodes, IInv, GenuineInv, QuorumInv
    PROVE  QuorumExecutes
<1> SUFFICES ASSUME net = {}, \A i \in Correct : sending[i] = {},
                    NEW q \in Requests, attempts[q] > 0
             PROVE  Cardinality({i \in Correct : Executed(q, i)}) >= Quorum
  BY DEF QuorumExecutes
<1>0. Correct = Sites /\ Leader \in Sites /\ EntriesAreOwn
  BY FourFacts, OwnEntries
<1>1. PICK s \in Seqs : Known(Leader, s) /\ Own(s).req = q
  BY DEF QuorumInv, NothingForgotten, Stored
<1>2. \A i \in Sites : Known(i, s) /\ Settled(i, s)
  BY <1>1 DEF QuorumInv, LeaderIsHeard
<1> DEFINE Senders == {j \in Sites : HasCommit(j, j, s)}
<1>3. Cardinality(Senders) >= Quorum
  <2>1. CASE \E i \in Sites : requests[i][s].decided
    <3>1. PICK i \in Sites : requests[i][s].decided
      BY <2>1
    <3> DEFINE C == requests[i][s].commits
    <3>2. Cardinality(C) >= Quorum /\ C \subseteq Sites
      BY <1>0, <1>2, <3>1 DEF IInv, EntriesAreSound, TypeOK, Known, RequestStates
    <3>3. C \subseteq Senders
      BY <1>2, <3>2 DEF QuorumInv, CommitsAreSent, HasCommit
    <3>4. Cardinality(C) <= Cardinality(Senders) /\ Cardinality(C) \in Nat
          /\ Cardinality(Senders) \in Nat
      BY <3>3, SiteSets
    <3> QED
      BY <3>2, <3>4, FourFacts
  <2>2. CASE \A i \in Sites : ~requests[i][s].decided
    <3>1. \A i \in Sites : Prepared(i, s) => i \in Senders
      BY <1>0, <1>2, <2>2 DEF Settled, Voted, HasCommit, Prepared
    <3>2. \E z \in Sites : \A i \in Sites \ {z} : Prepared(i, s)
      BY <1>0, <1>2, OneIsNotPrepared
    <3>3. PICK z \in Sites : Sites \ {z} \subseteq Senders
      BY <3>1, <3>2
    <3> QED
      BY <3>3, AllButOne
  <2> QED
    BY <2>1, <2>2
<1>4. PICK z \in Sites : \A i \in Sites \ {z} : \A j \in Sites \ {i} : ~MissesCommit(i, j, s)
  BY <1>0 DEF QuorumInv, OneMissesCommits
<1>5. ASSUME NEW i \in Sites \ {z}
      PROVE  Executed(q, i)
  <2> DEFINE C == requests[i][s].commits
  <2>1. Senders \subseteq C
    BY <1>4 DEF MissesCommit, HasCommit
  <2>2. C \in SUBSET Sites
    BY <1>2 DEF IInv, TypeOK, Known, RequestStates
  <2>3. Cardinality(Senders) <= Cardinality(C) /\ Cardinality(C) \in Nat
        /\ Cardinality(Senders) \in Nat
    BY <2>1, <2>2, SiteSets
  <2>4. Decided(i, s)
    BY <1>2, <1>3, <2>3, FourFacts DEF Settled, Decided
  <2> QED
    BY <1>0, <1>1, <1>2, <2>4 DEF Executed, EntriesAreOwn
<1> QED
  BY <1>0, <1>5, AllButOne

\* With four nodes up, none bad, one connection per pair, proposals of one thread and
\* no message lost, what a client or the demo asks of the leader is executed by a
\* quorum once nothing is in flight, although nodes drop the votes that overtake the
\* proposal (_handle_prepare, _handle_commit) and the proposals below their watermark
\* (handle_pre_prepare).  It speaks of clients with one request each, for another one
\* could be taken for a repetition, and of fewer numbers than the window holds.
THEOREM QuorumExecutesHolds ==
    ASSUME FourNodes
    PROVE  Spec => []QuorumExecutes
<1>1. Spec => [](IInv /\ GenuineInv /\ CheckpointInv)
  <2>1. IInv /\ GenuineInv /\ [Next]_vars => GenuineInv'
    BY StepIsGenuine, GenuineStepKeeps DEF IInv
  <2>2. IInv /\ IInv' /\ CheckpointInv /\ [Next]_vars => CheckpointInv'
    BY StepDecisionsStay, StepCounts, CheckpointStepKeeps DEF IInv
  <2> QED
    BY <2>1, <2>2, InitGenuineInv, InitCheckpointInv, Invariance, PTL DEF Spec
<1>2. /\ IInv /\ GenuineInv /\ CheckpointInv /\ QuorumInv
      /\ (IInv /\ GenuineInv /\ CheckpointInv)' /\ [Next]_vars
      => QuorumInv'
  BY StepIsProgress, StepCounts, ProgressKeepsQuorumInv
<1>3. IInv /\ GenuineInv /\ QuorumInv => QuorumExecutes
  BY QuiescenceExecutes
<1> QED
  BY <1>1, <1>2, <1>3, InitQuorumInv, PTL DEF Spec
=============================================================================
