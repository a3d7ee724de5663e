------------------------------ MODULE Recovery ------------------------------
(***************************************************************************)
(* One backup node of consensus/pbft.py on its store (rocksdb_store.py):   *)
(* what is on disk when the process dies between two writes, and what      *)
(* start() makes of it.  Every put, delete and broadcast is a step; todo   *)
(* holds those the running handler has still to make.  The memory of the   *)
(* handler, which dies with the process, changes when the handler begins.  *)
(*                                                                         *)
(* The leader and the other backups are correct, stay in one view and are  *)
(* the environment: the leader proposes transaction s at sequence number s *)
(* once, every vote is delivered at most once, and what arrives while the  *)
(* process is down is lost.  A later leader, which may propose an executed *)
(* number to a restarted node again, is in ViewChange and not here.        *)
(* A message the handler would drop unread is left out: it equals a lost   *)
(* one.  A put that returned survives, since it is the process that   *)
(* dies and not the machine.                                               *)
(***************************************************************************)
EXTENDS Integers, FiniteSets, Sequences, SequencesExt

CONSTANTS
    F,                \* number of Byzantine sites tolerated (config.f)
    Self,             \* this node
    Peers,            \* the other nodes, the leader among them
    Accounts,         \* the accounts of the world state
    InitialBalance,   \* balance of an account never written (100)
    Op,               \* the transfer each transaction asks for
    MaxSeq,           \* bound: sequence numbers 1..MaxSeq are used
    Interval,         \* a checkpoint every Interval sequence numbers (2)
    Arriving,         \* bound: the messages of peers that are not lost
    MaxCrashes,       \* bound: times the process dies, once more in start()
    NoRequest         \* no entry in self.requests

Quorum == 2 * F + 1
Sites  == Peers \cup {Self}
Seqs   == 1 .. MaxSeq

Transfers == [src: Accounts, dst: Accounts, amount: Int]
Balances  == [Accounts -> Int]

\* One entry of self.requests; its transaction and digest are those of s.
RequestStates ==
    [prepares: SUBSET Sites, commits: SUBSET Sites, decided: BOOLEAN,
     phase: {"pre_prepare", "prepare", "commit", "executed"}]

WalEntries == [n: Nat, state: {"READY", "COMMIT"}, tx: Seqs]
LogEntries == [type: {"PRE_PREPARE"}, seq: Seqs]
                  \cup [type: {"PREPARE", "COMMIT"}, seq: Seqs, sender: Sites]

PeerMessages ==
    [type: {"PRE_PREPARE"}, seq: Seqs]
        \cup [type: {"PREPARE", "COMMIT", "CHECKPOINT"}, seq: Seqs, sender: Peers]

ASSUME RecoveryAssumption ==
    /\ F \in Nat \ {0}
    /\ IsFiniteSet(Peers)
    /\ Cardinality(Peers) = 3 * F
    /\ Self \notin Peers
    /\ IsFiniteSet(Accounts)
    /\ InitialBalance \in Int
    /\ MaxSeq \in Nat
    /\ Op \in [Seqs -> Transfers]
    /\ Interval \in Nat \ {0}
    /\ Arriving \subseteq PeerMessages
    /\ MaxCrashes \in Nat
    /\ NoRequest \notin RequestStates

VARIABLES
    \* The store.
    wal,         \* wal::<tx_id>::<n>
    logs,        \* pbft_log::<type>::<seq>::<digest>::<sender>
    balance,     \* state::<account>
    ledger,      \* ledger::<tx_id>
    checkpoint,  \* state::checkpoint
    savedSeq,    \* state::last_seq
    \* The process.
    status,      \* "down", "starting" or "running"
    todo,        \* the steps the handler or start() has still to take
    walSeq,      \* KVStore._wal_seq
    requests,    \* self.requests
    lastExec,    \* self.last_executed_seq
    low,         \* sequence_manager.low_water_mark
    checkpoints, \* self.checkpoints: the votes counted
    \* The environment.
    delivered,   \* what the peers sent and this node has taken
    sent,        \* sequence numbers this node has sent COMMIT for
    crashes      \* times the process died

store   == <<wal, logs, balance, ledger, checkpoint, savedSeq>>
memory  == <<walSeq, requests, lastExec, low, checkpoints>>
vars    == <<store, status, todo, memory, delivered, sent, crashes>>

-----------------------------------------------------------------------------
(* Helpers *)

Known(s) == requests[s] # NoRequest
Bigger(a, b) == IF a > b THEN a ELSE b
LargestOf(S) == {n \in S \cup {0} : \A o \in S : o <= n}    \* one number, 0 if S is empty

Idle == status = "running" /\ todo = <<>>

Transferred(bal, op) ==
    [bal EXCEPT ![op.src] = bal[op.src] - op.amount,
                ![op.dst] = bal[op.dst] + op.amount]

\* The state of a peer that executed 1..s in order; its checkpoint vote for s.
PeerState[s \in 0 .. MaxSeq] ==
    IF s = 0 THEN [a \in Accounts |-> InitialBalance]
    ELSE LET bal == PeerState[s - 1] IN
         IF bal[Op[s].src] >= Op[s].amount THEN Transferred(bal, Op[s]) ELSE bal

\* The steps a handler is made of.
LogProposal(s)       == [op |-> "log", entry |-> [type |-> "PRE_PREPARE", seq |-> s]]
LogVote(type, s, j)  == [op |-> "log", entry |-> [type |-> type, seq |-> s, sender |-> j]]
LogWal(state, s)     == [op |-> "wal", state |-> state, tx |-> s]
Send(type, s)        == [op |-> "send", type |-> type, seq |-> s]
Transfer(s, replay)  == [op |-> "transfer", tx |-> s, replay |-> replay]
PutState(a, b)       == [op |-> "state", account |-> a, balance |-> b]
PutLedger(s)         == [op |-> "ledger", tx |-> s]
SaveLastSeq(s)       == [op |-> "last_seq", seq |-> s]
TriggerCheckpoint(s) == [op |-> "trigger", seq |-> s]
SaveCheckpoint(s)    == [op |-> "checkpoint", seq |-> s]
DeleteOldWal(s)      == [op |-> "old_wal", seq |-> s]
DeleteOldLogs(s)     == [op |-> "old_logs", seq |-> s]
Resend(s)            == [op |-> "resend", seq |-> s]
Start(phase)         == [op |-> phase]

-----------------------------------------------------------------------------
Init ==
    /\ wal = {} /\ logs = {} /\ ledger = {} /\ savedSeq = 0
    /\ balance = [a \in Accounts |-> InitialBalance]
    /\ checkpoint = [seq |-> 0, balances |-> balance]
    /\ status = "running" /\ todo = <<>>
    /\ walSeq = 0 /\ lastExec = 0 /\ low = 0 /\ checkpoints = {}
    /\ requests = [s \in Seqs |-> NoRequest]
    /\ delivered = {} /\ sent = {} /\ crashes = 0

-----------------------------------------------------------------------------
(* The handlers of the message thread *)

PrepareQuorum(r) == Cardinality(r.prepares) >= Quorum /\ r.phase = "prepare"
CommitQuorum(r)  == Cardinality(r.commits) >= Quorum /\ ~r.decided

\* _check_commit_quorum, _execute_request and the checkpoint after it.
AfterCommitVote(r) ==
    IF CommitQuorum(r) THEN [r EXCEPT !.decided = TRUE, !.phase = "executed"] ELSE r

ExecuteSteps(s) ==
    <<LogWal("COMMIT", s), Transfer(s, FALSE), SaveLastSeq(s)>>
        \o (IF s % Interval = 0 THEN <<TriggerCheckpoint(s)>> ELSE <<>>)

CommitVoteSteps(s, r) == IF CommitQuorum(r) THEN ExecuteSteps(s) ELSE <<>>

ReadyAfterCommit(r) ==    \* wrong: leaves the transient phase
    [r EXCEPT !.commits = @ \cup {Self}, !.phase = "prepare_ready"]

\* _send_commit
WithOwnCommit(r) == [r EXCEPT !.commits = @ \cup {Self}, !.phase = "commit"]

SendCommitSteps(s, r) ==
    <<LogVote("COMMIT", s, Self), Send("COMMIT", s)>>
        \o CommitVoteSteps(s, WithOwnCommit(r))

Handle(s, r, steps) ==
    /\ requests' = [requests EXCEPT ![s] = r]
    /\ todo' = steps
    /\ UNCHANGED <<store, status, walSeq, lastExec, low, checkpoints, sent, crashes>>

\* A message of a peer that is still to arrive is taken by the idle thread.  A
\* PRE-PREPARE thus comes once for each number: no view change proposes it again.
Take(m) == Idle /\ m \in Arriving \ delivered /\ delivered' = delivered \cup {m}

HandlePrePrepare(s) ==
    /\ Take([type |-> "PRE_PREPARE", seq |-> s])
    /\ low < s
    /\ ~Known(s)
    /\ Handle(s, [prepares |-> {Self}, commits |-> {}, decided |-> FALSE,
                   phase |-> "prepare"],
              <<LogProposal(s), LogWal("READY", s), LogVote("PREPARE", s, Self),
                Send("PREPARE", s)>>)

LogVoteLast(s, j, r) ==    \* wrong: the last vote of the certificate can be lost
    SendCommitSteps(s, r) \o <<LogVote("PREPARE", s, j)>>

\* The log holds the whole certificate before the COMMIT leaves.
PreparedSteps(s, j, r) ==
    <<LogVote("PREPARE", s, j)>> \o SendCommitSteps(s, r)

HandlePrepare(s, j) ==
    /\ Take([type |-> "PREPARE", seq |-> s, sender |-> j])
    /\ Known(s)
    /\ LET r == [requests[s] EXCEPT !.prepares = @ \cup {j}] IN
       IF PrepareQuorum(r)
       THEN Handle(s, AfterCommitVote(WithOwnCommit(r)), PreparedSteps(s, j, r))
       ELSE Handle(s, r, <<LogVote("PREPARE", s, j)>>)

HandleCommit(s, j) ==
    /\ Take([type |-> "COMMIT", seq |-> s, sender |-> j])
    /\ Known(s)
    /\ LET r == [requests[s] EXCEPT !.commits = @ \cup {j}] IN
       Handle(s, AfterCommitVote(r),
              <<LogVote("COMMIT", s, j)>> \o CommitVoteSteps(s, r))

\* _handle_checkpoint up to its first write.
CountCheckpointVote(s, digest, j, rest) ==
    LET votes == checkpoints \cup {[seq |-> s, digest |-> digest, sender |-> j]}
        count == Cardinality({v \in votes : v.seq = s /\ v.digest = digest}) IN
    /\ checkpoints' = votes
    /\ todo' = (IF count >= Quorum /\ s > checkpoint.seq
                THEN <<SaveCheckpoint(s), DeleteOldWal(s), DeleteOldLogs(s)>>
                ELSE <<>>) \o rest

HandleCheckpoint(s, j) ==
    /\ Take([type |-> "CHECKPOINT", seq |-> s, sender |-> j])
    /\ s % Interval = 0
    /\ CountCheckpointVote(s, PeerState[s], j, <<>>)
    /\ UNCHANGED <<store, status, walSeq, requests, lastExec, low, sent, crashes>>

-----------------------------------------------------------------------------
(* The steps of a handler *)

At(op) == todo # <<>> /\ Head(todo).op = op

PutPbftLog ==
    /\ At("log")
    /\ logs' = logs \cup {Head(todo).entry}
    /\ todo' = Tail(todo)
    /\ UNCHANGED <<wal, balance, ledger, checkpoint, savedSeq, status, memory,
                   delivered, sent, crashes>>

PutWal ==
    /\ At("wal")
    /\ walSeq' = walSeq + 1
    /\ wal' = wal \cup {[n |-> walSeq + 1, state |-> Head(todo).state, tx |-> Head(todo).tx]}
    /\ todo' = Tail(todo)
    /\ UNCHANGED <<logs, balance, ledger, checkpoint, savedSeq, status, requests,
                   lastExec, low, checkpoints, delivered, sent, crashes>>

Broadcast ==
    /\ At("send")
    /\ sent' = sent \cup {[type |-> Head(todo).type, seq |-> Head(todo).seq]}
    /\ todo' = Tail(todo)
    /\ UNCHANGED <<store, status, memory, delivered, crashes>>

\* KVStore.transfer reads both balances and then writes them one by one.  The
\* ledger gets the transaction if it succeeded, from a replay in any case.
RunTransfer ==
    /\ At("transfer")
    /\ LET tx == Head(todo).tx
           op == Op[tx]
           succeeds == balance[op.src] >= op.amount IN
       todo' = (IF succeeds
                THEN <<PutState(op.src, balance[op.src] - op.amount),
                       PutState(op.dst, balance[op.dst] + op.amount)>>
                ELSE <<>>)
               \o (IF succeeds \/ Head(todo).replay THEN <<PutLedger(tx)>> ELSE <<>>)
               \o Tail(todo)
    /\ UNCHANGED <<store, status, memory, delivered, sent, crashes>>

WriteState ==
    /\ At("state")
    /\ balance' = [balance EXCEPT ![Head(todo).account] = Head(todo).balance]
    /\ todo' = Tail(todo)
    /\ UNCHANGED <<wal, logs, ledger, checkpoint, savedSeq, status, memory,
                   delivered, sent, crashes>>

WriteLedger ==
    /\ At("ledger")
    /\ ledger' = ledger \cup {Head(todo).tx}
    /\ todo' = Tail(todo)
    /\ UNCHANGED <<wal, logs, balance, checkpoint, savedSeq, status, memory,
                   delivered, sent, crashes>>

WriteLastSeq ==
    /\ At("last_seq")
    /\ lastExec' = Bigger(lastExec, Head(todo).seq)
    /\ savedSeq' = lastExec'
    /\ todo' = Tail(todo)
    /\ UNCHANGED <<wal, logs, balance, ledger, checkpoint, status, walSeq, requests,
                   low, checkpoints, delivered, sent, crashes>>

\* _trigger_checkpoint: this node votes for the balances it has now.
VoteCheckpoint ==
    /\ At("trigger")
    /\ CountCheckpointVote(Head(todo).seq, balance, Self, Tail(todo))
    /\ UNCHANGED <<store, status, walSeq, requests, lastExec, low, delivered, sent, crashes>>

WriteCheckpoint ==
    /\ At("checkpoint")
    /\ checkpoint' = [seq |-> Head(todo).seq, balances |-> balance]
    /\ low' = Bigger(low, Head(todo).seq)
    /\ todo' = Tail(todo)
    /\ UNCHANGED <<wal, logs, balance, ledger, savedSeq, status, walSeq, requests,
                   lastExec, checkpoints, delivered, sent, crashes>>

\* The WAL is cut by its own counter, the PBFT log by sequence number.
PruneWal ==
    /\ At("old_wal")
    /\ wal' = {w \in wal : w.n >= Head(todo).seq}
    /\ todo' = Tail(todo)
    /\ UNCHANGED <<logs, balance, ledger, checkpoint, savedSeq, status, memory,
                   delivered, sent, crashes>>

PruneLogs ==
    /\ At("old_logs")
    /\ logs' = {e \in logs : e.seq >= Head(todo).seq}
    /\ todo' = Tail(todo)
    /\ UNCHANGED <<wal, balance, ledger, checkpoint, savedSeq, status, memory,
                   delivered, sent, crashes>>

-----------------------------------------------------------------------------
(* Crash and start() *)

\* The process dies; nothing but the store is left.
Crash ==
    /\ status # "down"
    /\ crashes < IF status = "starting" THEN MaxCrashes + 1 ELSE MaxCrashes
    /\ crashes' = crashes + 1
    /\ status' = "down" /\ todo' = <<>>
    /\ walSeq' = 0 /\ lastExec' = 0 /\ low' = 0 /\ checkpoints' = {}
    /\ requests' = [s \in Seqs |-> NoRequest]
    /\ UNCHANGED <<store, delivered, sent>>

StartSteps == <<Start("replay"), Start("load_ledger"), Start("reconstruct"),
                Start("sync"), Start("reprocess")>>

\* KVStore.__init__ and start() up to the balances of the checkpoint.
Restart ==
    /\ status = "down"
    /\ status' = "starting"
    /\ walSeq' \in LargestOf({w.n : w \in wal})
    /\ lastExec' = Bigger(savedSeq, checkpoint.seq)
    /\ \E order \in SetToSeqs(Accounts) :
          todo' = (IF checkpoint.seq > 0
                   THEN [k \in DOMAIN order |-> PutState(order[k], checkpoint.balances[order[k]])]
                   ELSE <<>>) \o StartSteps
    /\ UNCHANGED <<store, requests, low, checkpoints, delivered, sent, crashes>>

ReplayTwice(from) ==    \* wrong: the ledger is not asked
    {w \in wal : w.state = "COMMIT" /\ w.n > from}

ReplayLater(from) ==    \* wrong: one entry too few
    {w \in wal : w.state = "COMMIT" /\ w.n > from + 1 /\ w.tx \notin ledger}

ReplayEntries(from) ==
    {w \in wal : w.state = "COMMIT" /\ w.n > from /\ w.tx \notin ledger}

\* replay_wal_from, which compares the WAL counter with the checkpoint's number.
ReplayWal ==
    /\ At("replay")
    /\ \E entries \in SetToSeqs(ReplayEntries(checkpoint.seq)) :
          /\ \A k, l \in DOMAIN entries : k < l => entries[k].n < entries[l].n
          /\ todo' = [k \in DOMAIN entries |-> Transfer(entries[k].tx, TRUE)] \o Tail(todo)
    /\ UNCHANGED <<store, status, memory, delivered, sent, crashes>>

LoadLedger ==
    /\ At("load_ledger")
    /\ \E s \in LargestOf(ledger) : todo' = <<SaveLastSeq(s)>> \o Tail(todo)
    /\ UNCHANGED <<store, status, memory, delivered, sent, crashes>>

Voters(type, s) == {j \in Sites : [type |-> type, seq |-> s, sender |-> j] \in logs}

ReconstructedPhase(s) ==
    IF Cardinality(Voters("COMMIT", s)) >= Quorum THEN "executed"
    ELSE IF Cardinality(Voters("PREPARE", s)) >= Quorum THEN "prepare"
    ELSE "pre_prepare"

Reconstructed(s) ==
    IF s > lastExec /\ [type |-> "PRE_PREPARE", seq |-> s] \in logs
    THEN [prepares |-> Voters("PREPARE", s), commits |-> Voters("COMMIT", s),
          decided |-> ReconstructedPhase(s) = "executed", phase |-> ReconstructedPhase(s)]
    ELSE NoRequest

\* _reconstruct_requests_from_logs; what is in the ledger is never above lastExec.
ReconstructRequests ==
    /\ At("reconstruct")
    /\ requests' = [s \in Seqs |-> Reconstructed(s)]
    /\ todo' = Tail(todo)
    /\ UNCHANGED <<store, status, walSeq, lastExec, low, checkpoints, delivered,
                   sent, crashes>>

\* _sync_with_peers: last_executed_seq jumps to the highest number a peer has
\* executed; the transactions themselves are never asked for (pbft.py:491).
SyncWithPeers ==
    /\ At("sync")
    /\ \E p \in 0 .. MaxSeq :
          todo' = (IF p > lastExec THEN <<SaveLastSeq(p)>> ELSE <<>>) \o Tail(todo)
    /\ UNCHANGED <<store, status, memory, delivered, sent, crashes>>

Resends(s) == Known(s) /\ s > lastExec /\ ~requests[s].decided /\ PrepareQuorum(requests[s])

\* _reprocess_reconstructed_requests goes through the requests in their order; one
\* with a full COMMIT quorum is decided already.
Reprocess ==
    /\ At("reprocess")
    /\ status' = "running"
    /\ todo' = [s \in Seqs |-> Resend(s)] \o Tail(todo)
    /\ UNCHANGED <<store, memory, delivered, sent, crashes>>

ResendCommit ==
    /\ At("resend")
    /\ LET s == Head(todo).seq IN
       IF Resends(s)
       THEN /\ requests' = [requests EXCEPT ![s] = AfterCommitVote(WithOwnCommit(@))]
            /\ todo' = SendCommitSteps(s, requests[s]) \o Tail(todo)
       ELSE UNCHANGED requests /\ todo' = Tail(todo)
    /\ UNCHANGED <<store, status, walSeq, lastExec, low, checkpoints, delivered, sent, crashes>>

-----------------------------------------------------------------------------
HandleMessage ==
    \E s \in Seqs :
        \/ HandlePrePrepare(s)
        \/ \E j \in Peers : HandlePrepare(s, j) \/ HandleCommit(s, j) \/ HandleCheckpoint(s, j)

HandlerStep ==
    \/ PutPbftLog \/ PutWal \/ Broadcast
    \/ RunTransfer \/ WriteState \/ WriteLedger \/ WriteLastSeq
    \/ VoteCheckpoint \/ WriteCheckpoint \/ PruneWal \/ PruneLogs

StartStep ==
    \/ ReplayWal \/ LoadLedger \/ ReconstructRequests \/ SyncWithPeers \/ Reprocess
    \/ ResendCommit

Next == HandleMessage \/ HandlerStep \/ StartStep \/ Crash \/ Restart

Spec == Init /\ [][Next]_vars

-----------------------------------------------------------------------------
(* Properties *)

\* Every variable holds a value of its kind.
TypeOK ==
    /\ wal \in SUBSET WalEntries
    /\ logs \in SUBSET LogEntries
    /\ balance \in Balances
    /\ ledger \in SUBSET Seqs
    /\ checkpoint \in [seq: 0 .. MaxSeq, balances: Balances]
    /\ savedSeq \in 0 .. MaxSeq
    /\ status \in {"down", "starting", "running"}
    /\ walSeq \in Nat
    /\ requests \in [Seqs -> RequestStates \cup {NoRequest}]
    /\ lastExec \in 0 .. MaxSeq
    /\ low \in 0 .. MaxSeq
    /\ sent \in SUBSET [type: {"PREPARE", "COMMIT"}, seq: Seqs]
    /\ crashes \in 0 .. MaxCrashes + 1

\* A COMMIT the peers may have counted is never forgotten: above its last
\* executed number the node still holds the prepared certificate behind it,
\* which is what it puts into a VIEW-CHANGE, wherever it died in between.
CommitSurvives ==
    Idle => \A s \in Seqs :
        [type |-> "COMMIT", seq |-> s] \in sent /\ s > lastExec =>
            Known(s) /\ Cardinality(requests[s].prepares) >= Quorum

\* The replay of the WAL moves no money for a transaction in the ledger, whether
\* that was recorded live, by an earlier replay, or by one that died half way
\* (REPORT_UPGRADE_PBFT.md, 4.3).  It says nothing of a number executed again.
LedgerIsFinal ==
    At("transfer") /\ Head(todo).replay => Head(todo).tx \notin ledger

\* What the WAL records as decided, above the checkpoint, is in the ledger once
\* the node runs, wherever it died in between (every transfer is affordable).
DecisionSurvives ==
    Idle => \A w \in wal :
        w.state = "COMMIT" /\ w.n > checkpoint.seq => w.tx \in ledger
=============================================================================
