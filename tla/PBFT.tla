-------------------------------- MODULE PBFT --------------------------------
(***************************************************************************)
(* The three-phase protocol of consensus/pbft.py within one view: client   *)
(* request, PRE-PREPARE, PREPARE, COMMIT, execution on the account store,  *)
(* client reply and checkpoint.  A site runs one message thread            *)
(* (process_messages), so each handler is one atomic action; the leader's  *)
(* demo thread (submit_request) is a second thread, whose proposal is cut  *)
(* where it releases the lock.                                             *)
(*                                                                         *)
(* Messages are in the set net from send to delivery.  A message that is   *)
(* never delivered is a lost one; Channels says which deliveries can be    *)
(* out of order.  Signatures (crypto_utils.py) are modelled by    *)
(* what they guarantee: only a Faulty site makes messages of its own, and  *)
(* only in its own name.  WAL, PBFT log and persisted counters have no     *)
(* reader before a restart or a view change and are not in this module.    *)
(***************************************************************************)
EXTENDS Integers, FiniteSets, FiniteSetsExt

CONSTANTS
    F,                \* number of Byzantine sites tolerated (config.f)
    Sites,            \* the NUM_SITES = 3F + 1 nodes
    SiteOf,           \* SiteOf[k] is the node whose sid is k
    Malicious,        \* nodes that run this code with is_malicious set
    Victim,           \* the node with sid 3, target of the malicious leader
    Faulty,           \* nodes that may send anything they can sign, or nothing
    FaultyTxs,        \* transactions a faulty node may propose or vote for
    FaultyStates,     \* balances a faulty node may send a checkpoint vote for
    Requests,         \* signed client requests and demo transactions
    Demo,             \* the requests that the main thread submits (TRANSACTIONS)
    DemoId,           \* tx_id of each demo transaction
    Ids,              \* tx_id values: sequence numbers and demo ids
    Noop,             \* the null request
    ClientOf,         \* client_id of each client request
    Contact,          \* nodes a client may send its request to first
    MaxAttempts,      \* bound: times a client sends the same request
    Accounts,         \* the accounts of the world state
    InitialBalance,   \* balance of an account never written (100)
    Op,               \* the transfer each request asks for
    MaxSeq,           \* bound: sequence numbers 1..MaxSeq are used
    Window,           \* high_water_mark - low_water_mark (100)
    Interval,         \* a checkpoint every Interval sequence numbers (2)
    Channels,         \* which messages can overtake others, see Overtakes
    NoRequest,        \* no entry in self.requests
    NoSocket          \* no entry in self.client_connections

N       == 3 * F + 1
Quorum  == 2 * F + 1
Seqs    == 1 .. MaxSeq
Correct == Sites \ Faulty

Transfers == [src: Accounts, dst: Accounts, amount: Int]
Txs       == [req: Requests \cup {Noop}, id: Ids, fake: BOOLEAN]
Balances  == [Accounts -> Int]
Digests   == [digestOf: Txs]
StateDigests == [digestOf: Balances]

\* One entry of self.requests.
RequestStates ==
    [tx: Txs, digest: Digests, prepares: SUBSET Sites, commits: SUBSET Sites,
     decided: BOOLEAN,
     phase: {"pre_prepare", "prepare", "commit", "executed"}]

Messages ==
    [type: {"PRE_PREPARE"}, sender: Sites, dst: Sites, view: Int, seq: Seqs,
     digest: Digests, request: Txs]
    \cup [type: {"PREPARE", "COMMIT"}, sender: Sites, dst: Sites, view: Int,
          seq: Seqs, digest: Digests]
    \cup [type: {"CHECKPOINT"}, sender: Sites, dst: Sites, seq: Seqs,
          digest: StateDigests]
    \cup [type: {"CLIENT_REQUEST"}, dst: Sites, req: Requests]

ASSUME FaultAssumption ==
    /\ F \in Nat \ {0}
    /\ IsFiniteSet(Sites)
    /\ Cardinality(Sites) = 3 * F + 1
    /\ Faulty \subseteq Sites
    /\ Cardinality(Faulty) <= F
    /\ SiteOf \in [0 .. (3 * F) -> Sites]
    /\ Malicious \subseteq Sites

ASSUME DataAssumption ==
    /\ MaxSeq \in Nat
    /\ Window \in Nat
    /\ Interval \in Nat \ {0}
    /\ MaxAttempts \in Nat
    /\ InitialBalance \in Int
    /\ Channels \in {"any", "fifo", "ordered", "phased"}
    /\ Demo \subseteq Requests
    /\ Seqs \subseteq Ids
    /\ DemoId \in [Demo -> Ids]
    /\ Op \in [Requests -> Transfers]
    /\ FaultyTxs \subseteq Txs
    /\ FaultyStates \subseteq Balances
    /\ Contact \subseteq Sites
    /\ NoRequest \notin RequestStates
    /\ NoSocket \notin Requests

VARIABLES
    net,             \* messages sent and not yet taken from incoming_queue
    view,            \* self.view
    viewChangeSent,  \* self.view_change_sent
    lastSeq,         \* sequence_manager.last_seq
    low,             \* sequence_manager.low_water_mark
    requests,        \* self.requests
    sending,         \* proposals between PRE-PREPARE and the lock of _send_prepare
    lastExec,        \* self.last_executed_seq
    hasPending,      \* self.has_pending_request
    conns,           \* self.client_connections: whose socket waits for which seq
    cached,          \* requests answered from self.client_replies
    checkpoints,     \* self.checkpoints: the votes counted
    stable,          \* store: state::checkpoint
    balance,         \* store: state::<account>
    ledger,          \* store: ledger::<tx_id>
    attempts,        \* clients: times each request was sent
    success          \* clients: requests answered SUCCESS

protocolVars   == <<view, viewChangeSent, lastSeq, sending>>
executionVars  == <<lastExec, hasPending, conns, cached, balance, ledger, success>>
checkpointVars == <<checkpoints, stable, low>>
vars == <<net, view, viewChangeSent, lastSeq, low, requests, sending, lastExec,
          hasPending, conns, cached, checkpoints, stable, balance, ledger,
          attempts, success>>

-----------------------------------------------------------------------------
(* Helpers *)

get_leader(v) == SiteOf[v % N]
is_leader(i, v) == i = get_leader(v)

\* Digests are collision free: equal digests, equal contents.
hash_message(tx) == [digestOf |-> tx]

Peers(i) == Correct \ {i}
Known(i, s) == requests[i][s] # NoRequest
Decided(i, s) == Known(i, s) /\ requests[i][s].decided
Prepared(i, s) == Known(i, s) /\ Cardinality(requests[i][s].prepares) >= Quorum
Bigger(a, b) == IF a > b THEN a ELSE b

\* net_broadcast of a vote; messages to Faulty nodes have no effect here.
Broadcast(type, i, s, digest) ==
    {[type |-> type, sender |-> i, dst |-> d, view |-> view[i], seq |-> s,
      digest |-> digest] : d \in Peers(i)}

BroadcastCheckpoint(i, s, digest) ==
    {[type |-> "CHECKPOINT", sender |-> i, dst |-> d, seq |-> s,
      digest |-> digest] : d \in Peers(i)}

ProposalByAnyLeader(i, d, tx) ==    \* wrong: the switch is_malicious is not read
    IF d = Victim THEN [tx EXCEPT !.fake = TRUE] ELSE tx

\* The transaction a leader sends to d: a malicious one forges it for Victim.
ProposalFor(i, d, tx) ==
    IF i \in Malicious /\ d = Victim THEN [tx EXCEPT !.fake = TRUE] ELSE tx

BroadcastPrePrepare(i, s, tx) ==
    {[type |-> "PRE_PREPARE", sender |-> i, dst |-> d, view |-> view[i],
      seq |-> s, digest |-> hash_message(ProposalFor(i, d, tx)),
      request |-> ProposalFor(i, d, tx)] : d \in Peers(i)}

\* Channels = "any": delivery in any order, as when connections are reopened;
\* "fifo": one TCP connection per sender and receiver, never reopened, seen for
\* each sequence number alone;
\* "ordered": moreover one thread makes all proposals, so they come in order;
\* "phased": "fifo", and the messages of one phase reach a node before those of
\* the next, whoever sent them (the network delay is small against NET_MIN).
Rank == [PRE_PREPARE |-> 1, PREPARE |-> 2, COMMIT |-> 3, CHECKPOINT |-> 4]
Overtakes(m, o) ==
    /\ m.type # "CLIENT_REQUEST" /\ o.type # "CLIENT_REQUEST"
    /\ m.dst = o.dst
    /\ Channels = "phased" \/ m.sender = o.sender
    /\ \/ m.seq = o.seq /\ Rank[o.type] < Rank[m.type]
       \/ /\ Channels = "ordered" /\ o.seq < m.seq
          /\ m.type = "PRE_PREPARE" /\ o.type = "PRE_PREPARE"
Deliverable(m) == Channels # "any" => \A o \in net : ~Overtakes(m, o)

\* What faulty nodes may send to i at any time, in their own name: proposals, votes
\* and checkpoints of the view i is in.  Two more things i would take from anybody
\* are not modelled: a higher view in any message makes it synchronise, before the
\* signature is checked (process_messages), and it believes a SYNC_RESPONSE.
FaultyMessages(i) ==
    [type: {"PRE_PREPARE"}, sender: Faulty, dst: {i}, view: {view[i]},
     seq: Seqs, digest: {hash_message(tx) : tx \in FaultyTxs},
     request: FaultyTxs]
    \cup [type: {"PREPARE", "COMMIT"}, sender: Faulty, dst: {i},
          view: {view[i]}, seq: Seqs,
          digest: {hash_message(tx) : tx \in FaultyTxs}]
    \cup [type: {"CHECKPOINT"}, sender: Faulty, dst: {i}, seq: Seqs,
          digest: {[digestOf |-> b] : b \in FaultyStates}]

-----------------------------------------------------------------------------
Init ==
    /\ net = {}
    /\ view = [i \in Sites |-> 0]
    /\ viewChangeSent = [i \in Sites |-> FALSE]
    /\ lastSeq = [i \in Sites |-> 0]
    /\ low = [i \in Sites |-> 0]
    /\ requests = [i \in Sites |-> [s \in Seqs |-> NoRequest]]
    /\ sending = [i \in Sites |-> {}]
    /\ lastExec = [i \in Sites |-> 0]
    /\ hasPending = [i \in Sites |-> FALSE]
    /\ conns = [i \in Sites |-> [s \in Seqs |-> NoSocket]]
    /\ cached = [i \in Sites |-> {}]
    /\ checkpoints = [i \in Sites |-> {}]
    /\ stable = [i \in Sites |->
                   [seq |-> 0, balances |-> [a \in Accounts |-> InitialBalance]]]
    /\ balance = [i \in Sites |-> [a \in Accounts |-> InitialBalance]]
    /\ ledger = [i \in Sites |-> {}]
    /\ attempts = [q \in Requests |-> 0]
    /\ success = {}

-----------------------------------------------------------------------------
(* Checkpoints *)

CheckpointVotes(votes, s, digest) ==
    {j \in Sites : [seq |-> s, digest |-> digest, sender |-> j] \in votes}

CertifiedByWeakQuorum(votes, s, digest) ==    \* wrong: one honest vote too few
    Cardinality(CheckpointVotes(votes, s, digest)) > F

Certified(votes, s, digest) ==
    Cardinality(CheckpointVotes(votes, s, digest)) >= Quorum

\* Counts one vote.  A certified checkpoint becomes stable with the balances
\* this node has now, bal, whatever the digest certified.
RecordCheckpointVote(i, s, digest, sender, bal) ==
    LET votes == checkpoints[i] \cup
                   {[seq |-> s, digest |-> digest, sender |-> sender]} IN
    /\ checkpoints' = [checkpoints EXCEPT ![i] = votes]
    /\ IF Certified(votes, s, digest) /\ s > stable[i].seq
       THEN /\ stable' = [stable EXCEPT ![i] = [seq |-> s, balances |-> bal]]
            /\ low' = [low EXCEPT ![i] = Bigger(low[i], s)]
       ELSE UNCHANGED <<stable, low>>

TriggerCheckpoint(i, s, bal, msgs) ==
    /\ net' = msgs \cup BroadcastCheckpoint(i, s, [digestOf |-> bal])
    /\ RecordCheckpointVote(i, s, [digestOf |-> bal], i, bal)

HandleCheckpoint(i, m) ==
    /\ m.type = "CHECKPOINT"
    /\ net' = net \ {m}
    /\ RecordCheckpointVote(i, m.seq, m.digest, m.sender, balance[i])
    /\ UNCHANGED <<requests, attempts, executionVars, protocolVars>>

-----------------------------------------------------------------------------
(* Execution *)

\* KVStore.transfer: both balances are read before either is written.
Transferred(bal, op) ==
    [bal EXCEPT ![op.src] = bal[op.src] - op.amount,
                ![op.dst] = bal[op.dst] + op.amount]

Succeeds(bal, tx) == tx.req # Noop /\ bal[Op[tx.req].src] >= Op[tx.req].amount

\* Requests of the same client sent before now carry a timestamp that is not
\* newer than the cache entry written now.
AnsweredFromNow(tx) ==
    IF tx.req \in Requests \ Demo
    THEN {q \in Requests \ Demo : attempts[q] > 0 /\ ClientOf[q] = ClientOf[tx.req]}
    ELSE {}

LedgerAfterAnyTry(i, tx) ==    \* wrong: a refused transfer is recorded as well
    {t \in ledger[i] : t.id # tx.id} \cup {tx}

LedgerAfter(i, tx) ==
    IF Succeeds(balance[i], tx)
    THEN {t \in ledger[i] : t.id # tx.id} \cup {tx}
    ELSE ledger[i]

BalanceAfter(i, tx) ==
    IF Succeeds(balance[i], tx)
    THEN Transferred(balance[i], Op[tx.req])
    ELSE balance[i]

ExecuteRequest(i, s, tx) ==
    /\ balance' = [balance EXCEPT ![i] = BalanceAfter(i, tx)]
    /\ ledger' = [ledger EXCEPT ![i] = LedgerAfter(i, tx)]
    /\ hasPending' = [hasPending EXCEPT ![i] = FALSE]
    /\ lastExec' = [lastExec EXCEPT ![i] = Bigger(@, s)]
    /\ conns' = [conns EXCEPT ![i][s] = NoSocket]
    /\ success' = success \cup ({conns[i][s]} \ {NoSocket})
    /\ cached' = [cached EXCEPT ![i] = @ \cup AnsweredFromNow(tx)]

-----------------------------------------------------------------------------
(* The three phases.  An operator that takes (i, s, r, msgs) carries on with
   entry r of requests[i][s] and with msgs as the messages in flight. *)

CommitQuorumByPhase(r) ==    \* wrong: the demo thread resets the phase
    Cardinality(r.commits) >= Quorum /\ r.phase # "executed"

CommitQuorum(r) == Cardinality(r.commits) >= Quorum /\ ~r.decided

CheckCommitQuorum(i, s, r, msgs) ==
    IF CommitQuorum(r)
    THEN /\ requests' = [requests EXCEPT ![i][s] =
                           [r EXCEPT !.decided = TRUE, !.phase = "executed"]]
         /\ ExecuteRequest(i, s, r.tx)
         /\ IF s % Interval = 0
            THEN TriggerCheckpoint(i, s, BalanceAfter(i, r.tx), msgs)
            ELSE net' = msgs /\ UNCHANGED checkpointVars
    ELSE /\ requests' = [requests EXCEPT ![i][s] = r]
         /\ net' = msgs
         /\ UNCHANGED <<executionVars, checkpointVars>>

SendCommitReady(i, s, r, msgs) ==    \* wrong: leaves the transient phase
    CheckCommitQuorum(i, s,
        [r EXCEPT !.commits = @ \cup {i}, !.phase = "prepare_ready"],
        msgs \cup Broadcast("COMMIT", i, s, r.digest))

SendCommit(i, s, r, msgs) ==
    CheckCommitQuorum(i, s,
        [r EXCEPT !.commits = @ \cup {i}, !.phase = "commit"],
        msgs \cup Broadcast("COMMIT", i, s, r.digest))

PrepareQuorumTooSmall(r) ==    \* wrong: 2F votes with one's own among them
    Cardinality(r.prepares) >= 2 * F /\ r.phase = "prepare"

PrepareQuorumTooLarge(r) ==    \* wrong: one vote more than a quorum
    Cardinality(r.prepares) > Quorum /\ r.phase = "prepare"

PrepareQuorum(r) == Cardinality(r.prepares) >= Quorum /\ r.phase = "prepare"

CheckPrepareQuorum(i, s, r, msgs) ==
    IF PrepareQuorum(r)
    THEN SendCommit(i, s, r, msgs)
    ELSE /\ requests' = [requests EXCEPT ![i][s] = r]
         /\ net' = msgs
         /\ UNCHANGED <<executionVars, checkpointVars>>

\* The part of _send_prepare under the lock, after the broadcast.
RecordOwnPrepare(i, s, r, msgs) ==
    CheckPrepareQuorum(i, s,
        [r EXCEPT !.prepares = @ \cup {i}, !.phase = "prepare"], msgs)

NewRequest(tx, digest, prepares) ==
    [tx |-> tx, digest |-> digest, prepares |-> prepares, commits |-> {},
     decided |-> FALSE, phase |-> "pre_prepare"]

ValidFromAnyone(i, m) ==    \* wrong: the sender is not checked
    /\ m.view = view[i]
    /\ m.digest = hash_message(m.request)
    /\ low[i] < m.seq /\ m.seq <= low[i] + Window

ValidPrePrepare(i, m) ==
    /\ m.sender = get_leader(m.view)
    /\ m.view = view[i]
    /\ m.digest = hash_message(m.request)
    /\ low[i] < m.seq /\ m.seq <= low[i] + Window

AcceptPrePrepare(i, m) ==
    /\ ValidPrePrepare(i, m)
    /\ ~Known(i, m.seq)
    /\ RecordOwnPrepare(i, m.seq, NewRequest(m.request, m.digest, {}),
           (net \ {m}) \cup Broadcast("PREPARE", i, m.seq, m.digest))
    /\ UNCHANGED <<attempts, protocolVars>>

\* A second PRE-PREPARE with another digest forces a view change, once.
DetectEquivocation(i, m) ==
    /\ ValidPrePrepare(i, m)
    /\ Known(i, m.seq) /\ requests[i][m.seq].digest # m.digest
    /\ viewChangeSent' = [viewChangeSent EXCEPT ![i] = TRUE]
    /\ net' = net \ {m}
    /\ UNCHANGED <<view, lastSeq, sending, requests, attempts, executionVars,
                   checkpointVars>>

\* The early returns of a handler: the message is consumed, nothing else.
Ignore(m) ==
    /\ net' = net \ {m}
    /\ UNCHANGED <<requests, attempts, protocolVars, executionVars, checkpointVars>>

HandlePrePrepare(i, m) ==
    /\ m.type = "PRE_PREPARE"
    /\ \/ AcceptPrePrepare(i, m)
       \/ DetectEquivocation(i, m)
       \/ /\ \/ ~ValidPrePrepare(i, m)
             \/ Known(i, m.seq) /\ requests[i][m.seq].digest = m.digest
          /\ Ignore(m)

MatchingAnyDigest(i, m) ==    \* wrong: the digest is not compared
    m.view = view[i] /\ Known(i, m.seq)

\* A vote counts for the request already accepted at its number, no other.
MatchingVote(i, m) ==
    /\ m.view = view[i]
    /\ Known(i, m.seq)
    /\ m.digest = requests[i][m.seq].digest

HandlePrepare(i, m) ==
    /\ m.type = "PREPARE"
    /\ LET r == requests[i][m.seq] IN
       IF MatchingVote(i, m) /\ m.sender \notin r.prepares
       THEN /\ CheckPrepareQuorum(i, m.seq,
                   [r EXCEPT !.prepares = @ \cup {m.sender}], net \ {m})
            /\ UNCHANGED <<attempts, protocolVars>>
       ELSE Ignore(m)

HandleCommit(i, m) ==
    /\ m.type = "COMMIT"
    /\ LET r == requests[i][m.seq] IN
       IF MatchingVote(i, m) /\ m.sender \notin r.commits
       THEN /\ CheckCommitQuorum(i, m.seq,
                   [r EXCEPT !.commits = @ \cup {m.sender}], net \ {m})
            /\ UNCHANGED <<attempts, protocolVars>>
       ELSE Ignore(m)

-----------------------------------------------------------------------------
(* Requests *)

\* A client signs a request, or sends the same signed request again.
SendRequest(q, d) ==
    /\ q \in Requests \ Demo
    /\ d \in Contact \ Faulty
    /\ attempts[q] < MaxAttempts
    /\ q \notin success
    /\ [type |-> "CLIENT_REQUEST", dst |-> d, req |-> q] \notin net
    /\ attempts' = [attempts EXCEPT ![q] = @ + 1]
    /\ net' = net \cup {[type |-> "CLIENT_REQUEST", dst |-> d, req |-> q]}
    /\ UNCHANGED <<requests, protocolVars, executionVars, checkpointVars>>

UpToHighWatermark(i) == lastSeq[i] <= low[i] + Window    \* wrong: one too many

BelowHighWatermark(i) == lastSeq[i] < low[i] + Window

\* get_next_seq, _send_pre_prepare and the broadcast of _send_prepare.  With
\* F > 0 the leader's own vote completes no quorum yet.
Propose(i, tx, phase) ==
    LET s == lastSeq[i] + 1 IN
    /\ BelowHighWatermark(i)
    /\ s \in Seqs
    /\ lastSeq' = [lastSeq EXCEPT ![i] = s]
    /\ requests' = [requests EXCEPT ![i][s] =
          [NewRequest(tx, hash_message(tx), {i}) EXCEPT !.phase = phase]]
    /\ UNCHANGED <<view, viewChangeSent, lastExec, cached, balance, ledger,
                   success, checkpointVars>>

ProposalMessages(i, s, tx) ==
    BroadcastPrePrepare(i, s, tx)
        \cup Broadcast("PREPARE", i, s, hash_message(tx))

ProposeClientRequest(i, m) ==
    LET s  == lastSeq[i] + 1
        tx == [req |-> m.req, id |-> s, fake |-> FALSE] IN
    /\ is_leader(i, view[i])
    /\ m.req \notin cached[i]
    /\ Propose(i, tx, "prepare")
    /\ net' = (net \ {m}) \cup ProposalMessages(i, s, tx)
    /\ conns' = [conns EXCEPT ![i][s] = m.req]
    /\ hasPending' = [hasPending EXCEPT ![i] = TRUE]
    /\ UNCHANGED <<sending, attempts>>

\* get_next_seq raises: the exception is logged and the socket stays open.
RejectAboveWatermark(i, m) ==
    /\ is_leader(i, view[i])
    /\ m.req \notin cached[i]
    /\ ~BelowHighWatermark(i)
    /\ Ignore(m)

ReplyFromCache(i, m) ==
    /\ m.req \in cached[i]
    /\ net' = net \ {m}
    /\ success' = success \cup {m.req}
    /\ UNCHANGED <<requests, attempts, protocolVars, checkpointVars, lastExec,
                   hasPending, conns, cached, balance, ledger>>

RedirectToSelf(i, m) ==    \* wrong: names the node itself as the leader
    /\ ~is_leader(i, view[i])
    /\ m.req \notin cached[i]
    /\ UNCHANGED vars

\* The client follows REDIRECT with the same signed request.
Redirect(i, m) ==
    /\ ~is_leader(i, view[i])
    /\ m.req \notin cached[i]
    /\ net' = (net \ {m}) \cup
          {n \in {[m EXCEPT !.dst = get_leader(view[i])]} : n.dst \in Correct}
    /\ UNCHANGED <<requests, attempts, protocolVars, executionVars, checkpointVars>>

HandleClientRequest(i, m) ==
    /\ m.type = "CLIENT_REQUEST"
    /\ \/ ProposeClientRequest(i, m)
       \/ RejectAboveWatermark(i, m)
       \/ ReplyFromCache(i, m)
       \/ Redirect(i, m)

\* Main thread, demo mode: submit_request up to the broadcast of PREPARE.
SubmitRequest(i, q) ==
    LET s  == lastSeq[i] + 1
        tx == [req |-> q, id |-> DemoId[q], fake |-> FALSE] IN
    /\ is_leader(i, view[i])
    /\ sending[i] = {}
    /\ attempts[q] = 0
    /\ Propose(i, tx, "pre_prepare")
    /\ attempts' = [attempts EXCEPT ![q] = 1]
    /\ net' = net \cup ProposalMessages(i, s, tx)
    /\ sending' = [sending EXCEPT ![i] = {s}]
    /\ UNCHANGED <<conns, hasPending>>

\* Main thread again: the locked part of _send_prepare.
FinishSendPrepare(i) ==
    \E s \in sending[i] :
        /\ RecordOwnPrepare(i, s, requests[i][s], net)
        /\ sending' = [sending EXCEPT ![i] = {}]
        /\ UNCHANGED <<view, viewChangeSent, lastSeq, attempts>>

-----------------------------------------------------------------------------
HandleMessage(i, m) ==
    \/ HandlePrePrepare(i, m)
    \/ HandlePrepare(i, m)
    \/ HandleCommit(i, m)
    \/ HandleCheckpoint(i, m)
    \/ HandleClientRequest(i, m)

\* One turn of process_messages with a message that was in flight.
ProcessMessage(i) ==
    \E m \in net : m.dst = i /\ Deliverable(m) /\ HandleMessage(i, m)

\* The same with a message of a faulty node.
ProcessFaultyMessage(i) == \E m \in FaultyMessages(i) : HandleMessage(i, m)

Next ==
    \/ \E q \in Requests, d \in Sites : SendRequest(q, d)
    \/ \E i \in Correct :
        \/ ProcessMessage(i)
        \/ ProcessFaultyMessage(i)
        \/ \E q \in Demo : SubmitRequest(i, q)
        \/ FinishSendPrepare(i)

Spec == Init /\ [][Next]_vars

\* The message thread and the demo thread of a correct node keep running, and
\* the connections lose nothing.
FairSpec ==
    /\ Spec
    /\ \A i \in Correct : WF_vars(ProcessMessage(i)) /\ WF_vars(FinishSendPrepare(i))

-----------------------------------------------------------------------------
(* Properties *)

\* Every variable holds a value of its kind.
TypeOK ==
    /\ net \in SUBSET Messages
    /\ view \in [Sites -> Int]
    /\ viewChangeSent \in [Sites -> BOOLEAN]
    /\ lastSeq \in [Sites -> Int]
    /\ low \in [Sites -> Int]
    /\ requests \in [Sites -> [Seqs -> RequestStates \cup {NoRequest}]]
    /\ sending \in [Sites -> SUBSET Seqs]
    /\ lastExec \in [Sites -> Int]
    /\ hasPending \in [Sites -> BOOLEAN]
    /\ conns \in [Sites -> [Seqs -> Requests \cup {NoSocket}]]
    /\ cached \in [Sites -> SUBSET Requests]
    /\ checkpoints \in [Sites ->
          SUBSET [seq: Seqs, digest: StateDigests, sender: Sites]]
    /\ stable \in [Sites -> [seq: Int, balances: Balances]]
    /\ balance \in [Sites -> Balances]
    /\ ledger \in [Sites -> SUBSET Txs]
    /\ attempts \in [Requests -> Int]
    /\ success \in SUBSET Requests

\* No two correct nodes execute different transactions at one sequence number,
\* whatever the faulty nodes send (README.md, "Safety").
Agreement ==
    \A i, j \in Correct, s \in Seqs :
        Decided(i, s) /\ Decided(j, s) => requests[i][s].tx = requests[j][s].tx

\* What one correct node executed, F + 1 correct nodes hold prepared with a full
\* quorum of votes: among any 2F + 1 nodes that answer a view change is one that
\* holds the certificate (it reports it unless it has executed that number too).
DecidedIsPrepared ==
    \A i \in Correct, s \in Seqs : Decided(i, s) =>
        Cardinality({j \in Correct : Prepared(j, s)
                        /\ requests[j][s].tx = requests[i][s].tx}) > F

\* A node moves its watermark (and prunes its logs) up to s only when F + 1
\* correct nodes have executed s: a faulty vote never completes a checkpoint.
StableIsExecuted ==
    \A i \in Correct, s \in Seqs : low[i] = s =>
        Cardinality({j \in Correct : Decided(j, s)}) > F

\* Under a leader that runs this code, malicious or not, what is executed is a
\* request somebody made: never the forged copy sent to Victim, and never the
\* invention of a faulty backup (REPORT_UPGRADE_PBFT.md, 4.2).
OnlyRequested ==
    \A i \in Correct, s \in Seqs :
        Decided(i, s) /\ get_leader(view[i]) \in Correct =>
            LET tx == requests[i][s].tx IN
            tx.req \in Requests /\ attempts[tx.req] > 0 /\ ~tx.fake

\* The leader is never more than Window ahead of what F + 1 correct nodes have
\* executed: with Interval <= Window the gap is closed by a stable checkpoint.
WindowIsExecuted ==
    \A i \in Correct : lastSeq[i] > Window =>
        \E s \in Seqs : /\ s >= lastSeq[i] - Window
                       /\ Cardinality({j \in Correct : Decided(j, s)}) > F

\* Balances of a node change only in the step that decides a sequence number,
\* and a number once decided is never decided again nor its transaction changed:
\* no interleaving of votes with the leader's own proposal executes twice.
ExecuteOnce ==
    [][\A i \in Correct :
         /\ \A s \in Seqs : Decided(i, s) =>
                Decided(i, s)' /\ requests'[i][s].tx = requests[i][s].tx
         /\ balance'[i] # balance[i] => \E s \in Seqs : ~Decided(i, s) /\ Decided(i, s)'
      ]_vars

\* What a transfer, and a set of them, do to an account.
Effect(t, a) ==
    (IF Op[t.req].dst = a THEN Op[t.req].amount ELSE 0)
        - (IF Op[t.req].src = a THEN Op[t.req].amount ELSE 0)

NetEffect(S, a) == MapThenSumSet(LAMBDA t : Effect(t, a), S)

\* Money is moved, never made: the balances of a node are the initial ones plus
\* the transfers in its ledger, however many threads and votes raced to execute.
BalancesMatchLedger ==
    \A i \in Correct, a \in Accounts :
        balance[i][a] = InitialBalance + NetEffect(ledger[i], a)

\* What each correct node executed at each number.
ExecutedLog ==
    [i \in Correct |-> [s \in Seqs |->
        IF Decided(i, s) THEN requests[i][s].tx ELSE NoRequest]]

Log == INSTANCE ReplicatedLog WITH
    Nodes <- Correct, Slots <- Seqs, Values <- Txs, None <- NoRequest,
    log <- ExecutedLog

\* Each step of the protocol fills at most one slot of the log of one node, and
\* with what the others have there: PBFT implements ReplicatedLog.
ImplementsLog == Log!Spec

Executed(q, i) == \E s \in Seqs : Decided(i, s) /\ requests[i][s].tx.req = q

\* When PRE-PREPAREs arrive before votes, the client is answered ...
RequestAnswered ==
    \A q \in Requests \ Demo : attempts[q] > 0 ~> q \in success

\* ... and every correct node executes the request, as the integration test
\* expects (tests/integration_test.py, test_normal_consensus).
EveryoneExecutes ==
    \A q \in Requests : attempts[q] > 0 ~> \A i \in Correct : Executed(q, i)

\* Votes that overtake the PRE-PREPARE are dropped, yet with all of four nodes up
\* and no message lost they cost at most one node the request: once nothing is in
\* flight a quorum has executed every request made.
QuorumExecutes ==
    net = {} /\ (\A i \in Correct : sending[i] = {}) =>
        \A q \in Requests : attempts[q] > 0 =>
            Cardinality({i \in Correct : Executed(q, i)}) >= Quorum

-----------------------------------------------------------------------------
(* The inductive invariant.  Votes of correct nodes, in flight or counted,  *)
(* are for the one digest their sender has stored, and a COMMIT is backed   *)
(* by a prepared quorum at its sender.                                      *)

\* The demo thread only comes back to a request it has stored.
SendingIsKnown == \A i \in Correct : \A s \in sending[i] : Known(i, s)

Supports(j, s, digest) == Known(j, s) /\ requests[j][s].digest = digest

Backs(j, s, digest) ==
    Supports(j, s, digest) /\ Cardinality(requests[j][s].prepares) >= Quorum

Sound(m) ==
    /\ m.type = "PRE_PREPARE" => m.sender # m.dst
    /\ m.type = "PREPARE" /\ m.sender \in Correct => Supports(m.sender, m.seq, m.digest)
    /\ m.type = "COMMIT" /\ m.sender \in Correct => Backs(m.sender, m.seq, m.digest)

MessagesAreSound == \A m \in net : Sound(m)

VotesAreSound ==
    \A i \in Correct, s \in Seqs : Known(i, s) =>
        /\ \A j \in requests[i][s].prepares \cap Correct :
               Supports(j, s, requests[i][s].digest)
        /\ \A j \in requests[i][s].commits \cap Correct :
               Backs(j, s, requests[i][s].digest)

EntriesAreSound ==
    \A i \in Correct, s \in Seqs : Known(i, s) =>
        /\ requests[i][s].digest = hash_message(requests[i][s].tx)
        /\ requests[i][s].decided => Cardinality(requests[i][s].commits) >= Quorum

\* A leader has stored nothing at the numbers it has not given out.
NothingAhead ==
    \A i \in Correct, s \in Seqs :
        is_leader(i, view[i]) /\ s > lastSeq[i] => ~Known(i, s)

IInv ==
    /\ TypeOK
    /\ SendingIsKnown
    /\ MessagesAreSound
    /\ VotesAreSound
    /\ EntriesAreSound
    /\ NothingAhead
=============================================================================
