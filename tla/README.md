# Verification of the BFT ledger

TLA+ specifications of the replicated ledger in `src/`, the TLC runs that check
them on small instances, and proofs, checked by TLAPS, that hold for every number
of nodes. The program is a PBFT cluster of four Python processes (`config.py`:
`f = 1`, `NUM_SITES = 3f + 1`, `QUORUM = 2f + 1`) that order signed transfers
between accounts and store them in a key-value store.

1. [The system](#1-the-system)
2. [Modules](#2-modules)
3. [Runs](#3-runs)
4. [Bounds, fairness and abstractions](#4-bounds-fairness-and-abstractions)
5. [Proofs](#5-proofs)
6. [What the code does otherwise than documented](#6-what-the-code-does-otherwise-than-documented)
7. [What is not modelled, and the plan](#7-what-is-not-modelled-and-the-plan)

## 1. The system

### Components

| Component | Source | State | Operations |
|---|---|---|---|
| Three-phase consensus | `consensus/pbft.py` 757-1195 | `requests[seq]` (transaction, digest, PREPARE and COMMIT votes, `decided`, phase), `sequence_manager`, `view`, `client_replies`, `client_connections`, `has_pending_request` | client request, PRE-PREPARE, PREPARE, COMMIT, execution, reply |
| Checkpoints | `consensus/pbft.py` 1199-1303 | `checkpoints[(seq, digest)]`, low watermark, stored checkpoint | trigger, count a vote, make stable, prune |
| Store and recovery | `storage/rocksdb_store.py`, `consensus/pbft.py` 160-346 | WAL, PBFT log, balances, ledger, checkpoint, view, last sequence number | transfer, append, prune, replay, reconstruct |
| View change | `consensus/view_change.py`, `consensus/pbft.py` 348-431, 701-755 | `view_changes_collected[v]`, `view_change_sent`, two timers | time out, VIEW-CHANGE, NEW-VIEW, re-proposal, null request |
| Heartbeat and sync | `consensus/pbft.py` 433-699 | `last_leader_pong`, `is_syncing`, peers' numbers | PING/PONG, SYNC_REQUEST/RESPONSE, missing transactions (never reached) |
| Node, main thread | `node.py`, `main.py` | threads and queue | start, stop, demo loop |
| Client | `client.py`, `client_tui.py` | one signed request | send, follow a redirect, wait 30 s |
| TCP transport | `network/` | one pooled socket per destination, accepted connections | send, accept, split lines |
| Signatures, digests | `crypto_utils.py` | key files | sign, verify, hash |
| Configuration, logging, tools | `config.py`, `logger.py`, `check_db.py` | constants | - |

### How they interact

A client opens a TCP connection to any node and sends a signed `CLIENT_REQUEST`. A
backup answers `REDIRECT`; the leader (`view % N`) answers from its cache or takes
the next sequence number, stores the request, keeps the socket under that number and
broadcasts PRE-PREPARE and its own PREPARE. A node that accepts the PRE-PREPARE
broadcasts PREPARE, on `2f + 1` PREPAREs COMMIT, and on `2f + 1` COMMITs it executes
the transfer on its own balances, answers the socket if it holds one, and at every
`CHECKPOINT_INTERVAL`th number broadcasts a vote for a digest of its balances. `2f + 1`
equal votes make the checkpoint stable: it is stored, the low watermark rises, WAL and
PBFT log are pruned. On its way each handler appends to the WAL and to the PBFT log,
which `start()` reads back after a crash.

A node runs these threads: the message thread (`process_messages`, takes
`incoming_queue` one by one), a view change timer (1 s), a heartbeat (1.5 s), a sync
check (15 s), one reader per accepted connection, and, in demo mode, the main thread
of the leader, which calls `submit_request` itself. `pbft.start()` runs before the
message thread starts. `net_send` runs in the thread that calls it: it sleeps a random delay,
signs, and writes to the one pooled socket of the destination. `net_broadcast` calls it for the
sites 0 to 3 in turn, and `net_send` returns at once when the destination is the sender, so no
node ever gets a message of its own. A send that fails is dropped
(`network/__init__.py:71`), and nothing is ever sent again.

When the leader is silent for 4.5 s, or a pending request is late, a node broadcasts
VIEW-CHANGE with the prepared certificates in its PBFT log. The leader of the next view,
when it has `2f + 1` of them, broadcasts NEW-VIEW and proposes the certified requests again
at their numbers, or a null request when there are none. A node that sees a higher view in
any message asks its peers (SYNC_REQUEST) and adopts the view and the last sequence number
of their answers.

### What is hard, and what makes each component correct

* **Consensus.** Byzantine peers, an equivocating leader, votes in any order, the demo
  thread that releases the lock in the middle of a proposal. Correct: no two honest
  nodes execute different transactions at a number; what was executed was requested and
  can be shown after a view change; each number is executed once, and balances agree
  with the ledger; a client is answered.
* **Checkpoints.** Votes that complete before or after a node executed the number; a
  leader that stops at the high watermark. Correct: stable implies executed by `f + 1`
  honest nodes; the leader is never more than the window ahead of them.
* **Store and recovery.** A crash between any two of about ten writes per handler, and again
  during the recovery. Correct: no sent COMMIT is forgotten, no decision is lost, none
  is paid again by the replay, balances agree with the ledger again (which they do not, section 6).
* **View change, heartbeat and sync.** Timers that race late answers, certificates for
  what was executed out of order, a new leader that proposes numbers again. Correct: a
  decision of one view is kept in the next; no node is in a view that a quorum did not ask
  for; a view that a quorum asked for is entered, by all.
* **Client.** A request repeated while the first copy is in flight. Correct: paid once.
* **Transport.** A socket that the message thread, the heartbeat, the timer and the health check
  share, closed and replaced under a thread that is in the middle of a line. Correct: what
  `send_message` reported as sent arrives, once. A duplicate would not hurt the consensus, which
  counts a sender once; a line that is lost is never repeated.

Every place where one of these bites is in `PROJECT.json` under `hazards`.

## 2. Modules

| Module | What it is |
|---|---|
| `ReplicatedLog` | What the ledger promises: nodes fill the slots of one log, each slot once and all with the same value |
| `PBFT` | Normal case of one view, all nodes, clients, demo thread, faulty nodes, checkpoints; implements `ReplicatedLog` |
| `ViewChange` | Views: timers, VIEW-CHANGE, NEW-VIEW, re-proposal, catching up with peers, restart; with the votes on numbers, but without accounts, clients and checkpoints |
| `Recovery` | One backup on its store: every durable write, crash, `start()` |
| `Transport` | The socket from one node to another, the threads that share it, the line reader |
| `MCPBFT`, `MCViewChange`, `MCRecovery`, `MCTransport` | Instances for TLC; the documents' claims |
| `PBFTProofs` | Type correctness, agreement, certificates, single execution and refinement |
| `CheckpointProofs`, `RequestProofs` | Further theorems about `PBFT`, from the invariant of `PBFTProofs`: the second about what is executed of what was requested, the balances included |
| `ViewChangeProofs`, `ViewAgreementProofs` | Theorems about `ViewChange`: the support of views; types and agreement |
| `RecoveryProofs`, `DecisionProofs` | Theorems about `Recovery`; the second continues the first |
| `TransportProofs` | Theorems about `Transport` |

Operators whose comment begins with *wrong:* are not part of a specification. Each is a
plausible bug in the definition that follows it; every property of a passing run fails
when its definition is replaced by one of them (`mutants` in `PROJECT.json`).

### PBFT

| Variable | In the code |
|---|---|
| `net` | messages between `net_send` and the end of their wait in `incoming_queue` |
| `view`, `viewChangeSent` | `self.view`, `self.view_change_sent` |
| `lastSeq`, `low` | `sequence_manager.last_seq`, `.low_water_mark` |
| `requests` | `self.requests` |
| `sending` | where the demo thread is between the PRE-PREPARE and the lock in `_send_prepare` |
| `lastExec`, `hasPending` | `last_executed_seq`, `has_pending_request` |
| `conns` | `client_connections`, by sequence number |
| `cached` | requests the leader would answer from `client_replies` |
| `checkpoints`, `stable` | votes of `self.checkpoints`; the checkpoint in the store |
| `balance`, `ledger` | `state::<account>`, `ledger::<tx_id>` |
| `attempts`, `success` | client side: times a request was sent, requests answered SUCCESS |

`process_messages` is one thread and takes the lock, so a handler is one action with
everything it calls: `HandleCommit` includes the quorum test, the execution, the reply and
the checkpoint vote with its own count. Operators that take `(i, s, r, msgs)` carry this on:
`r` is the entry as changed so far and `msgs` the messages in flight so far.

| Action | Code |
|---|---|
| `HandlePrePrepare` = `AcceptPrePrepare`, `DetectEquivocation` or an early return | `_handle_pre_prepare`, `_send_prepare` |
| `HandlePrepare`, `CheckPrepareQuorum`, `SendCommit` | `_handle_prepare`, `_check_prepare_quorum`, `_send_commit` |
| `HandleCommit`, `CheckCommitQuorum`, `ExecuteRequest` | `_handle_commit`, `_check_commit_quorum`, `_execute_request`, `KVStore.transfer` |
| `HandleCheckpoint`, `TriggerCheckpoint`, `RecordCheckpointVote` | `_handle_checkpoint`, `_trigger_checkpoint` |
| `HandleClientRequest` = `ProposeClientRequest`, `RejectAboveWatermark`, `ReplyFromCache` or `Redirect` | `_handle_client_request`, `get_next_seq`, `_send_pre_prepare` |
| `SubmitRequest`, then `FinishSendPrepare` | `submit_request` of the demo thread, cut where `_send_pre_prepare` releases the lock before `_send_prepare` takes it again |
| `ProcessFaultyMessage` | any of the handlers, with a message a Byzantine peer can sign |
| `SendRequest` | `client.py` |

Two kinds of bad nodes are kept apart. `Malicious` nodes run this code with
`is_malicious` set: they forge the request they send to `Victim` (sid 3) and do
everything else by the book. `Faulty` nodes send anything they can sign, at any time, or
nothing. A `Faulty` node with no transactions to vote for is a node that is down.

### Recovery

A handler begins with an action that takes the message and changes the memory
(`HandlePrePrepare`, `HandlePrepare`, `HandleCommit`, `HandleCheckpoint`), and leaves in `todo`
the puts, deletes and broadcasts it makes, in the order of the code. Each of these is an
action of its own (`PutPbftLog`, `PutWal`, `Broadcast`, `RunTransfer`, `WriteState`,
`WriteLedger`, `WriteLastSeq`, `VoteCheckpoint`, `WriteCheckpoint`, `PruneWal`,
`PruneLogs`), and `Crash` may fall between any two. Changing the memory early is
harmless: nothing else reads it before the handler ends, and a crash loses it. What is
read from the store or written from the memory in the middle of a handler (balances, the WAL
counter, `last_executed_seq`) is read and written in the step that does so.
`Restart`, `ReplayWal`, `LoadLedger`, `ReconstructRequests`, `SyncWithPeers`, `Reprocess` and
`ResendCommit` (the body of the loop of `_reprocess_reconstructed_requests`) are `start()`, cut the
same way.

| Variable | In the code |
|---|---|
| `wal`, `logs` | `wal::<tx_id>::<n>`, `pbft_log::...` |
| `balance`, `ledger`, `checkpoint`, `savedSeq` | `state::<account>`, `ledger::`, `state::checkpoint`, `state::last_seq` |
| `walSeq`, `requests`, `lastExec`, `low`, `checkpoints` | the memory, gone with the process |
| `delivered`, `sent`, `crashes` | environment: messages taken, COMMITs sent, crashes so far |

The peers are correct and stay in one view: transaction `s` is the one proposed at number `s`,
once. What Byzantine peers can do is the business of `PBFT`; the question here is what the store
can. A later leader can propose a number again that the restarted node has executed; that is left
out here, is in `ViewChange` (run `restarted_voter`) and costs money in the code (section 6).

### ViewChange

| Variable | In the code |
|---|---|
| `net` | messages in flight; one that its handler would drop unread stays there |
| `view`, `viewChangeSent` | `self.view` (also on disk), `self.view_change_sent` |
| `initiating` | how far a thread is in `_initiate_view_change`, and the view it has read |
| `collected` | `view_changes_collected` of the views this node leads (nobody reads the others) |
| `lastSeq`, `requests`, `lastExec`, `hasPending` | as in `PBFT` |
| `logs` | the PBFT log in the store, from which certificates and restarts are made |
| `executed`, `asked`, `restarts` | history: requests executed, VIEW-CHANGEs sent, restarts |

| Action | Code |
|---|---|
| `CheckViewTimeout`, `SetViewChangeSent`, `BroadcastViewChange` | `check_view_timeout` as called by `_heartbeat_loop` and the timer loop, and `_initiate_view_change`, cut where the message thread can come between: after the view is read (`view_change.py:72`) and before the certificates are collected |
| `HandleEquivocation` | the view change that `_handle_pre_prepare` starts at a second digest |
| `HandleViewChange` with `SendNewView` | `handle_view_change`, `_send_new_view`, `_apply_new_view` at the new leader, the null request |
| `HandleNewView` | `handle_new_view`, `_apply_new_view` elsewhere |
| `HandleClientRequest`, `HandlePrePrepare`, `HandlePrepare`, `HandleCommit` | the normal case in any view |
| `CatchUp` | PING/PONG, `SYNC_REQUEST`, `SYNC_RESPONSE`, `_sync_with_peers`: a node adopts a view and a last number that some peer has or had |
| `Restart` | the process ends between two messages; `start()` with `_reconstruct_requests_from_logs`, `_sync_with_peers`, `_reprocess_reconstructed_requests` |

Details that decide the properties: a node does not record its own VIEW-CHANGE; the
PBFT log keys have no view; a node that holds an entry does not vote for its re-proposal;
which of two certificates for a number gets into `O` depends on the order of arrival
(`Choices`); a backup that becomes leader takes numbers from a counter it never
advanced.

### Transport

| Variable | In the code |
|---|---|
| `pool` | `connections[dst]` |
| `opened`, `closed`, `broken` | sockets connected, closed by this node, gone by the network's or the peer's doing |
| `stream` | bytes of a socket that may reach the reader |
| `pc`, `sock`, `left`, `attempt`, `done` | where a thread is, its socket, what `sendall` has to write, the attempts of this `send_message`, messages finished |
| `written`, `torn`, `halfway`, `refused` | history, for the properties and bounds |

`TakeSocket`, `Write`, `WriteFails`, `Reconnect`, `ReconnectFails`, `RewriteFails` are
`send_message`; `KeeperTakesSocket`, `Check`, `CheckFails`, `KeeperConnects`,
`KeeperConnectFails` are `_keep_connected`; `Break` is the environment. The reader of
`tcp_server.py` is a function of the bytes, `Received`.

## 3. Runs

All instances have four nodes, `F = 1`.

| Run | Properties | What it shows |
|---|---|---|
| `faulty_leader` | `Agreement`, `DecidedIsPrepared` | A Byzantine leader proposes two transactions at one number, to whom it likes, and votes for both; messages in any order. Honest nodes agree, and `F + 1` of them hold the prepared certificate of whatever one executed |
| `faulty_backup` | `TypeOK`, `IInv`, `OnlyRequested`, `StableIsExecuted`, `ImplementsLog` | With the leader of `--malicious` and a Byzantine backup that votes for the request, for its forged copy and for checkpoints as it pleases, the copy is never executed, no state is made stable that was not executed, and the executed entries refine `ReplicatedLog`; also the invariant of the proofs |
| `demo_thread` | `BalancesMatchLedger`, `QuorumExecutes`, `ExecuteOnce` | The main thread comes back to an entry that the message thread has prepared or executed in between and sets its phase back; the transfer is still executed once |
| `watermarks` | `WindowIsExecuted`, `BalancesMatchLedger` | Window 1: the leader refuses requests until a checkpoint is stable; repeated requests, cached replies and a transfer the payer cannot pay occur |
| `answered` | `RequestAnswered`, `EveryoneExecutes` | A client that asked a backup is answered and all nodes execute, provided PRE-PREPAREs come before votes |
| `crash` | `TypeOK`, `CommitSurvives`, `LedgerIsFinal`, `DecisionSurvives` | Death between any two writes and again in `start()` |
| `view_change` | `TypeOK`, `Agreement` | One view change at any moment of the agreement on a number, any votes late or lost: what one node executed in view 0 is what others execute in view 1 |
| `new_view` | `ViewIsSupported`, `SupportInv`, `NewViewReached`, `ViewsConverge` | Two view changes with stale timers, lost NEW-VIEWs and a restart: views are asked for by a quorum, and a view that is asked for is entered by all |
| `transport` | `PooledIsOpen`, `TrueIsDelivered`, `AtMostOnce` | Two sending threads and the health check on one socket that breaks, times out or is closed under them |
| `out_of_order` | `SameResult` violated | see section 6 |
| `dead_leader` | `LeaderIsReplaced` violated | see section 6 |
| `restarted_voter` | `Agreement` violated | see section 6 |

Notes on properties that need one:

* `DecidedIsPrepared` is what a view change rests on: any `2F + 1` nodes that answer
  include one of the `F + 1`. It is stronger than `Agreement` and is a statement about
  other nodes than the one that executed.
* `QuorumExecutes` is an invariant of quiescent states (nothing in flight, no proposal half
  made): votes that overtake a PRE-PREPARE are dropped, and still, with all four nodes up, the
  drops cannot add up to a quorum that fails. It says nothing when a message is lost or a
  node is down; then it does not hold (section 6). It is a property of four nodes: with `F >= 2`
  the same drops can leave only `F + 2` nodes prepared, fewer than a quorum. The run has one
  number; its theorem has all of them, and the checkpoints on the way. With several numbers it
  needs proposals in order (`"ordered"`): under `"fifo"` random simulation finds a proposal that
  is overtaken by the checkpoint of a later number and dropped, since it is below the watermark.
* `LedgerIsFinal` speaks of the moment before a transfer of a replay, whoever made the ledger
  entry: the live path, an earlier replay, or one that was itself interrupted. It says nothing of
  a number that is agreed on again: `_execute_request` does not look into the ledger (section 6).
* `DecisionSurvives` assumes transfers that can be paid (as in the instance; `Payable` in its
  theorem). A refused
  transfer stays out of the ledger and is tried again at each restart; the replay then writes
  it into the ledger without moving money (`rocksdb_store.py:214`).
* `CommitSurvives` stops at `last_executed_seq`, because the code reports no certificate
  below it. That the jump of `_sync_with_peers` raises that number without the
  transactions is visible here but is not a violation of it.
* `Agreement` of `ViewChange` holds over at most `F` view changes without a restart, which is one
  view change of four nodes. With a restart the code does not keep it: see `restarted_voter`.
  Neither after more view changes: certificates are sent only for numbers above
  `last_executed_seq`, so two leaders in a row can propose afresh what others have executed. That is read
  off the code; no run shows it.
* `NewViewReached` excepts restarts, since `view_changes_collected` is only in memory. It says
  what happens when a quorum *without the leader of the new view* has asked; that with one
  node down there is no such quorum is `dead_leader`.
* `TrueIsDelivered` excepts connections that broke after the write (the program cannot know) and
  lines that another thread's write or the health check's newline cut. `AtMostOnce`
  excepts a write that failed half way and was repeated: the newline of a health check can
  complete the first copy.

## 4. Bounds, fairness and abstractions

**Channels.** In `PBFT`, `Channels = "any"` lets every message overtake every other one;
that is the safe choice and needs no argument. `"fifo"` keeps the order of one sender to one
receiver for one sequence number. One thread writing to one socket gives that order, but a
replaced connection or the demo thread breaks it, so the code promises less; the runs that use
`"fifo"` trade that for a state space TLC can finish, or (in `out_of_order`) show that a
failure needs no reordering of one sender's messages. `"ordered"` adds that a node takes the
proposals of one sender in the order of their numbers. That is so when one thread makes them all,
the demo thread or the message thread with the requests of clients, as `net_broadcast` writes to a
receiver before `submit_request` or the handler goes on. `demo_thread` and `QuorumExecutesHolds`
use it. `"phased"` is `"fifo"`, and all messages of a
phase arrive before the next phase. It holds when the delay is small against the code's `NET_MIN`
sleep and is an assumption, not a guarantee: `answered` states what the code promises under
it. All theorems about `PBFT` but `QuorumExecutesHolds` hold for every one of these. In
`ViewChange` messages arrive in any order.

**Faulty nodes** in `PBFT` send proposals, votes and checkpoints of the view their receiver is in. Two
other ways to be heard are left out. `handle_message` reacts to a higher view in any message, before it
verifies the signature (`pbft.py:691`), by asking the peers; and `_sync_with_peers` verifies no
`SYNC_RESPONSE` and adopts the highest view and last number in any one (`pbft.py:437`). So one faulty node can move
another to a view, and to a last executed number, that nobody else is at. The properties of `PBFT` are about the nodes
of one view and say nothing of a node that was moved like that.

**Lost messages** are messages that stay in `net`; every safety run includes them.
Duplicates matter only for client requests (`MaxAttempts = 2`) and votes of faulty nodes,
which can be sent over and over: what the transport can repeat is a vote already counted.

**`EveryStepCounts`** leaves out steps that consume a message and change nothing else that
matters (`MCPBFT`, `MCViewChange`). The state after such a step differs from one where the
message is still in flight only by fewer possible steps, so every reachable value of the
other variables stays reachable.

**Symmetry** is used only in runs without liveness: over the backups where the leader is
the one singled out, over `s1`, `s2` where `s3` is the faulty one, over `p1`, `p2`, `p3` or the
threads that send.

**Bounds of PBFT.** `MaxSeq` (1 or 2 numbers), `MaxAttempts`, the requests, and
`FaultyTxs`. Entries of different numbers share only `lastSeq`, `low`, balances and the
ledger, so agreement needs one number and two candidate transactions; the runs
about order, windows and repetition use two numbers. `Window = 1` and `Interval = 1` bring the
watermark into reach; `Interval = 2` with one number keeps checkpoints out of runs that are
not about them. `RivalOps` are two transfers the payer can afford only one of;
`RealOrForged` are a request and what the malicious leader makes of it.

**Bounds of ViewChange.** The nodes run the code: forged VIEW-CHANGEs, certificates and
NEW-VIEWs are left out, and numbers stay below the first checkpoint. The timer thread and
the heartbeat thread are one: both do the same, and a second one can only repeat a
VIEW-CHANGE, which replaces the first of its sender. `view_change` has one
request, one number and views 0 and 1. Timers, proposals, VIEW-CHANGEs and NEW-VIEWs come at any
moment; `LateTogether` makes votes come together: a node in `Prompt` counts at once
what it can count, the others are late with all their votes or with none, and the
VIEW-CHANGEs of a quorum are counted without a step between. In view 0 `s3` is not in `Prompt`,
and the proposal of any node may be late, so some nodes may execute, or hold a certificate,
while others do not. `new_view` drops the votes (`VotesAreLost`) and has three views, so that a timer can
be stale by more than one, and a restart of a node that had collected VIEW-CHANGEs
(`RestartForgets`; the others lose nothing that the properties read). `restarted_voter`, which
looks for a counterexample only, also makes timeouts atomic and restarts late. In
`dead_leader` the dead leader is one that no fairness applies to.

**`CatchUp`** stands for an exchange: a PING, PONG or any message of a higher view, the SYNC_REQUESTs, up to
3 s in which `_sync_with_peers` reads the queue, the answers, and what it adopts (`pbft.py:418-500`,
624-699). It is one atomic step here. Left out are answers that are lost or come after the 3 s, a
view that rises while the answers are on their way, the messages that are put back into the queue behind others
(any order is allowed anyway), `is_syncing`, and the second synchronisation that a SYNC_RESPONSE can start. That a
peer's view or number may be an old one is kept. `ViewsConverge` rests mostly on the
fairness of this step: it says that nothing in the view change itself keeps a node from following, and
it does not show that the exchange succeeds.

**Bounds of Recovery.** Two numbers, a checkpoint at the second, one crash, and one more if the
process is just starting. `Arriving` names the messages that are not lost: in `crash`
(`MostArrive`) number 1 is executed on the COMMITs of the peers alone, so that its prepared
certificate is never complete, and number 2 through the node's own PREPARE and COMMIT with
those of `p1` and `p2`; all checkpoint votes arrive. A put that returned survives, as the process
dies and not the machine.

**Bounds of Transport.** One destination: the table has one lock but the destinations share no
other state. Two threads send one message each (`OneEach`), a line is
written in at most two pieces (`TwoPieces`), three connections (`MaxSockets`), and one fault
(`MaxFaults`): a connection that breaks, a send that times out or a connect that is refused.
The consequences of the one fault, threads that close each other's sockets, are not
bounded. A line is two halves and a newline, which is as much as framing can tell apart.

**Deadlock** is not checked: the cluster stops legitimately when all requests are
executed and nothing is in flight (`CHECK_DEADLOCK FALSE`), and so does the instance of
`Transport` when all is sent. That the cluster does not stop early is what
`QuorumExecutes`, `RequestAnswered`, `NewViewReached` and `ViewsConverge` say.

**Fairness in PBFT** (`FairSpec`): weak fairness of `ProcessMessage(i)` and `FinishSendPrepare(i)` for
each correct node. The message thread is a loop over a queue, and the demo thread has only to
get a lock that is always released. What is in `net` is finite and a consumed message does not
come back, so a message thread that keeps running takes all of them: the model thereby also
assumes that TCP loses nothing between two running processes. No fairness for
clients or faulty nodes.

**Fairness in ViewChange** (`FairSpec`): weak fairness of handling a VIEW-CHANGE that is in
flight, again the message thread's loop on a link that works, and of `CatchUp`: PINGs carry
the view, go out every 1.5 s as long as both nodes run, and a lost one is followed by the next. No
fairness for NEW-VIEW, votes, proposals, clients or timeouts: they may never come. `SurvivorSpec` of
`dead_leader` adds the timer threads of the three nodes that run.

**Signatures and digests** are ideal: a faulty node speaks in its own name only, and equal
digests have equal contents. **Timestamps** of the reply cache are abstracted to the set of
requests that are not newer than the cached entry. **Exceptions** that a handler lets out are
caught by `process_messages` and logged: the message is consumed.

## 5. Proofs

The theorems assume only the named assumptions of the modules they are about
(`FaultAssumption` and `DataAssumption`, `ViewChangeAssumption`, `RecoveryAssumption`,
`TransportAssumption`): `F >= 1`, `3F + 1` nodes, in `PBFT` at most `F` of them faulty, any requests,
any bounds on numbers, views, restarts and crashes, any channel order, any accounts and
transfers, any number of threads and sockets. `TransportAssumption` has the messages to send
distinct, as each is signed with its own time. TLC evaluates the assumptions in every run. Four
theorems have a hypothesis of their own: `BalancesMatchLedger`, `QuorumExecutes`, agreement in
`ViewChange` and `DecisionSurvives`, see below. The instance of the run that checks the property
satisfies the hypothesis.

| Theorem | Module | Statement |
|---|---|---|
| `TypeCorrect` | `PBFTProofs` | `Spec => []TypeOK` |
| `Invariance` | `PBFTProofs` | `Spec => []IInv` |
| `AgreementHolds` | `PBFTProofs` | `Spec => []Agreement` |
| `DecidedIsPreparedHolds` | `PBFTProofs` | `Spec => []DecidedIsPrepared` |
| `ExecuteOnceHolds` | `PBFTProofs` | `Spec => ExecuteOnce` |
| `Refinement` | `PBFTProofs` | `Spec => ImplementsLog` |
| `StableIsExecutedHolds` | `CheckpointProofs` | `Spec => []StableIsExecuted` |
| `WindowIsExecutedHolds` | `CheckpointProofs` | `Spec => []WindowIsExecuted` |
| `OnlyRequestedHolds` | `RequestProofs` | `Spec => []OnlyRequested` |
| `BalancesMatchLedgerHolds` | `RequestProofs` | `Spec => []BalancesMatchLedger` if the leader runs this code, with `DistinctKeys` and `NoSelfTransfer` |
| `QuorumExecutesHolds` | `RequestProofs` | `Spec => []QuorumExecutes` if `FourNodes` |
| `SupportInvariance` | `ViewChangeProofs` | `Spec => []SupportInv` |
| `ViewIsSupportedHolds` | `ViewChangeProofs` | `Spec => []ViewIsSupported` |
| `TypeCorrect` | `ViewAgreementProofs` | `Spec => []TypeOK` |
| `AgreementHolds` | `ViewAgreementProofs` | `Spec => [](Early => Agreement)` |
| `AgreementWithoutRestarts` | `ViewAgreementProofs` | `Spec => []Agreement` if `MaxRestarts = 0` and `MaxView <= F` |
| `TypeCorrect` | `RecoveryProofs` | `Spec => []TypeOK` |
| `LedgerIsFinalHolds` | `RecoveryProofs` | `Spec => []LedgerIsFinal` |
| `CommitSurvivesHolds` | `RecoveryProofs` | `Spec => []CommitSurvives` |
| `DecisionSurvivesHolds` | `DecisionProofs` | `Spec /\ []Payable => []DecisionSurvives` |
| `PooledIsOpenHolds` | `TransportProofs` | `Spec => []PooledIsOpen` |
| `TrueIsDeliveredHolds` | `TransportProofs` | `Spec => []TrueIsDelivered` |
| `AtMostOnceHolds` | `TransportProofs` | `Spec => []AtMostOnce` |

**Agreement.** `Agreement` alone is not inductive: it says nothing of the votes on their way.
`IInv` adds what ties a vote to its sender. A PREPARE of a correct node, in flight or counted,
is for the digest that node has stored (`Supports`); a COMMIT moreover rests on `2F + 1`
PREPAREs stored there (`Backs`); what is decided has `2F + 1` COMMITs (`EntriesAreSound`); a
leader has nothing at numbers it has not handed out (`NothingAhead`), so it never overwrites
an entry; and the demo thread comes back only to entries that exist (`SendingIsKnown`).

The proof of the step has two halves. `StepAdvances`: every step either leaves all entries
alone (`Quiet`) or changes one entry of one node, where votes are only added, the transaction stays
unless the entry is new, and new messages are sound (`Advance`). `AdvanceKeepsIInv` and
`QuietKeepsIInv` then argue about these two shapes instead of about each handler.
`QuorumsMeet` says that two sets of `2F + 1` of `3F + 1` nodes share a correct one; two
decisions thus share a correct COMMIT sender, who has stored one digest, and digests are
injective. A commit quorum contains `F + 1` correct nodes, and each of their COMMITs rests on
a prepared quorum: that is `DecidedIsPrepared`. The refinement maps each executed entry to
a slot of the log, and a step that decides needs `Agreement` in the next state.

**Checkpoints.** `CheckpointInv`: a correct node's checkpoint vote, in flight or counted, is for
a number it has executed, and a watermark rests on `F + 1` such nodes. It is kept because
decisions stay (`StepDecisionsStay`, from `ExecuteOnce`) and because of `2F + 1` equal votes at
least `F + 1` are of correct nodes (`QuorumIsHonest`). `WindowIsExecuted` follows with the
bound that the leader hands out no number above `low + Window`.

**Requests.** `GenuineInv`: what a leader that runs this code sends to anyone but `Victim`, and
what anyone but `Victim` stores, was asked for. `Victim` executes only what is prepared at `F + 1`
correct nodes (`DecidedIsPrepared`), one of which is not `Victim`. The invariant further says which
key the leader gives a request, and that it proposes a transaction of the demo once.

**Balances.** `LedgerInv`: what is in a ledger was executed at some number by that node, and each
account is the initial balance and the net effect of the ledger (`NetEffect`). A step that decides
moves money and adds one transaction, which was not there before: no number is executed twice, and
two numbers have two ledger keys. `NetEffectAdds` says what one more transaction does to the sum;
it and the sum's finiteness come from an induction over finite sets (`MapThenSumSet` is a fold),
written out on the well-founded order of cardinalities, as no induction theorem that takes an
operator can be cited. The hypotheses name two places where the code is wrong otherwise (section
6): ledger keys that differ (`DistinctKeys`), and no transfer to oneself (`NoSelfTransfer`). A leader
that does not run this code could choose the keys as well.

**A quorum executes.** `FourNodes` is the case in which what a node drops is all that is lost:

* four nodes, none faulty or down, and a leader that is not `--malicious`: with `F >= 2`, with a node
  down or with a forged copy for `Victim` the drops can leave too few votes (sections 3 and 6);
* channels that are `"ordered"`: the leader's vote, its checkpoint and its later proposals do not
  overtake a proposal (section 4);
* one request of each client: of several, the reply cache takes an older one for a
  repetition, and nobody executes it;
* fewer numbers than the window has (`MaxSeq < Window`, 100 in the code): at the high watermark
  the leader refuses requests.

The checkpoint interval is any, so with the 2 of the code there are up to 49 checkpoints on the way.

In `QuorumInv` a node *misses* the vote of another when the vote was sent, is not counted and not in flight
any more. `OneHearsTheOther`: of two nodes, the one that accepts the proposal first does not
miss the PREPARE of the other, which is sent later. `LeaderIsHeard`: the leader misses no
PREPARE and is missed by nobody. So with nothing in flight two backups cannot both be two votes
short, and three nodes are prepared and send COMMIT. `OneMissesCommits`: a COMMIT rests on three
PREPAREs, so when the first one is sent three nodes have the proposal, and only the fourth can miss
COMMITs. Three nodes count all COMMITs, and execute. The other parts say that a quorum that is
complete has been acted upon (`Settled`), that COMMITs are counted by their sender first
(`CommitsAreSent`), and that a request is in flight or stored by the leader (`NothingForgotten`).
The step is proved in two halves again: `StepIsProgress`, where every action is shown to be
`Progress` (at most one entry grows, what is new is broadcast, a message leaves `net` only when it is
counted or its receiver cannot count it), and `ProgressKeepsQuorumInv`.

A checkpoint raises the low watermark, and proposals at or below it are dropped. `NothingSkipped` says that
this loses nothing: a node stores numbers without gaps (`NoGapBefore`, as proposals come in order), and
knows the number of its watermark. For that number three nodes have voted, of
which one is the leader or the node itself; who votes has executed the number
(`CheckpointInv`), and the leader's vote does not overtake its proposal. What is dropped is
thus known. The entries in `self.requests` stay: `_handle_checkpoint` prunes the WAL and the PBFT log only.

**Views.** That a node in view `v` has the support of a quorum is not inductive: the next
node to ask counts on from its own view, and what it read may be stale. `SupportInv` says that
whoever is in a view, has asked for one or is about to, has every view below supported
(`SupportedUpTo`), and that VIEW-CHANGEs, collected votes and NEW-VIEWs are of nodes that asked.

**Agreement over views.** `Early` says that no node has restarted and none is in a view above
`F`. An entry is overwritten only by the leader of a new view that proposes at a number it already
knows, and the leaders of views `1 .. F` are at most `F` nodes (`LaterLeaders`). All the others
hold on to the transaction they sent COMMIT for (`SteadyVotes`), the leader of view 0 because it
knows no number beyond the last it handed out (`FirstLeaderCounts`), and what is executed has `2F + 1` COMMITs of nodes that hold the same
transaction or are later leaders (`ExecutedBacked`). Two such quorums share a node that is not a
later leader, and its entry is one transaction. `AgreementWithoutRestarts` restates this for the
instance of the run `view_change`. The hypothesis cannot be dropped: `restarted_voter` breaks
`Agreement` after a restart.

**Recovery.** The properties speak of single moments (an idle node, the step before a transfer);
the invariant `RecoveryInv` speaks of everything a crash can interrupt, that is, of the
list `todo`. Its parts:

* `StepsInv`: which step may come before which (`Before`): the log is written before the COMMIT
  leaves, the decision before the transfer, no transaction occurs in two steps that move it, a
  checkpoint comes first. An action takes the head off the list and may put others in its
  place; `Goes` shows once that order is kept.
* `LogInv`: what `requests` counts is in the log, or is about to be (`Logged`), or is below the
  checkpoint; nothing is known of a number whose proposal did not come (`Taken`). The environment
  delivers a message once, so a number whose entry was cut from the log is not proposed again.
* `OnceInv`: what is in the ledger, in the WAL or about to be moved was decided in memory, and
  on disk: the log has `2F + 1` COMMITs (`DiskDecided`), so that after a restart the number comes
  back as executed and a further COMMIT does not execute it again. The WAL holds one decision for
  a transaction.
* `CertificateInv`: a COMMIT that left is backed by `2F + 1` PREPAREs in the log
  (`PreparedOnDisk`) until the number is saved as executed or cut by a checkpoint, and in memory
  as soon as `start()` has been through the log (`Rebuilt`).
* `PhaseInv`, `CheckpointInv`: what start() has left to do, and that the checkpoint is written
  before the log is cut.

A crash leaves only the parts about the disk, which `ForgottenKeeps` shows to be enough; the four
steps of `start()` that matter rebuild the rest. `LedgerIsFinal` and `CommitSurvives` then follow in
a line each. For `DecisionSurvives`, `DecisionInv` says that what the WAL decides is in the ledger,
or a step that brings it there is left, or the replay is still to come. The hypothesis `[]Payable`
says that no transfer of an executed request is refused. The code promises nothing without it:
a refused transfer is not written to the ledger. The two transfers of the run `crash` are
affordable in every state, so the run satisfies the hypothesis.

**Transport.** `SocketsInv`: the sockets closed so far are among those opened, and the one in
the table is not among them; numbers of sockets are not used again. `WireInv` adds the bytes.
On a socket that neither broke nor had a line cut (`LinesInv`), at most one thread is in the middle
of a line, and what it has sent of that line is the end of the stream; with no thread in a line, the
next byte begins one. What `written` names is then a line of the stream (`WrittenInv`). For
`AtMostOnce`, the first byte of a message whose write never stopped half way is in the streams at
most once, and not at all before its thread writes it (`FirstBytesInv`).

Only model-checked are the liveness properties (`RequestAnswered`, `EveryoneExecutes`,
`NewViewReached`, `ViewsConverge`), which with `ENABLED` are out of the prover's reach. Every
invariant and action property of the passing runs is stated by a theorem.

## 6. What the code does otherwise than documented

Each of these has a run whose counterexample is a schedule of the code.

* `out_of_order`: `_check_commit_quorum` (`pbft.py:1138`) executes as soon as the number's own
  quorum is full. Two nodes run two transfers in different orders, and when only one can be
  paid they refuse different ones. `README.md:162` excludes it.
* `dead_leader`: `handle_view_change` (`view_change.py:139`) collects only VIEW-CHANGEs of others
  and wants `2f + 1` (line 149), and a node sends none to itself. With the leader down, the new
  leader gets `2f` at most: the view never changes. `README.md:163` says that the system always
  moves forward by the view change, `README.md:164` that `f` nodes may crash.
* `restarted_voter`: `start()` reconstructs only entries above `last_executed_seq`
  (`pbft.py:276`), so a restarted node accepts another proposal at a number it has executed. A
  new leader makes one: it never advanced `last_seq` as a backup, and its null request takes
  number 1 again (`view_change.py:259`). `README.md:162` excludes two results at a number.

Met while modelling and kept without a run:

* `_handle_checkpoint` (`pbft.py:1263`) stores the balances it has when the last vote comes,
  which may be older than the certified ones (`ARCHITECTURAL_DECISIONS.md:92`).
* The reply cache (`pbft.py:928`) knows a request only after execution; a repetition before
  that is ordered and paid again (`REPORT_UPGRADE_PBFT.md:149`).
* With one node down every vote is needed, and `_handle_prepare` (`pbft.py:1030`) drops a
  vote that comes before the PRE-PREPARE (`REPORT_UPGRADE_PBFT.md:198`).
* `start()` (`pbft.py:178`) writes back the balances of the checkpoint, and the replay
  skips what is in the ledger (`rocksdb_store.py:204`), so transfers executed after the
  checkpoint lose their effect (`REPORT_UPGRADE_PBFT.md:199`).
* The SUCCESS reply does not depend on the result of the transfer (`pbft.py:1195`;
  `client_tui.py:121` prints that it is committed).
* The forged PRE-PREPARE alone does not make `Victim` suspect the leader: only a second
  PRE-PREPARE with another digest does (`pbft.py:881`, against `REPORT_UPGRADE_PBFT.md:189`).
* One flag stands for all pending requests (`pbft.py:1183`).
* A restarted node pays again what a new leader proposes again. It does not reconstruct numbers up to
  `last_executed_seq` (`pbft.py:276`), its watermarks start at 0, so it accepts the proposal
  (`pbft.py:875`, `view_change.py:263`), and `_execute_request` (`pbft.py:1163`) transfers without
  asking the ledger. Before the first checkpoint two nodes execute a number and restart, a third has
  the certificate and has not executed it, and the fourth, which never saw it, leads the next view: it
  and the two restarted nodes are a quorum for its re-proposal, and the payer is
  debited twice at those two. `restarted_voter` has the same acceptance, with another request.
* A crash between the two balances of a transfer debits the payer twice after the replay
  (`rocksdb_store.py:140`).
* A COMMIT quorum found in the log is reconstructed as executed and then never executed
  (`pbft.py:339`, against the docstring at 244); an entry short of PREPAREs gets a phase in
  which later PREPAREs lead nowhere (`pbft.py:329`).
* A node that holds a request does not vote when a new leader proposes it again
  (`pbft.py:879`), so a re-proposal may gather no quorum in the new view.
* Of two certificates for one number `O` keeps the last, whatever its view
  (`view_change.py:173`).
* The exchange of missing transactions is never reached: `last_executed_seq` is raised at
  `pbft.py:483`, and line 491 then compares it with itself.
* Demo transactions carry ids from a list, client requests their sequence number: in one cluster
  they can share a ledger key, and the later one overwrites the earlier (`pbft.py:1170`).
* A transfer to oneself creates money: both balances are read before either is written
  (`rocksdb_store.py:139`). The instances have distinct accounts.

## 7. What is not modelled, and the plan

Pure input and output, or constants: logging, `config.py`, `check_db.py`, key files, the text
interface of the client, process start and stop with `pool.close()` and `server.stop()`.
Ed25519 and SHA-256 are libraries. Never executed: `tcp_client.send_message` inside a node, which
has a pool before it sends; the exchange of missing transactions; the REQ/RESP recovery
messages, which nobody sends. Not in `PBFT`: what a faulty node can do with a higher view or a
SYNC_RESPONSE (section 4). Not in `ViewChange`: Byzantine nodes, hence forged certificates
and NEW-VIEWs, checkpoints during a view change, and the steps of the exchange behind `CatchUp`. Not in
`Recovery`: other views. The compositions are loose: `PBFT`
assumes of `Transport` only that messages may be lost or reordered, and `ViewChange` assumes
of `Recovery` that a crash falls between two messages.

Next, in this order:

1. **Recovery with a later view**: the second proposal of an executed number, and what the balances are
   after it and after a crash between the two puts of a transfer.
2. **The exchange behind `CatchUp`**, with lost and late answers.
3. **ViewChange with a Byzantine node** that shows certificates of its choice.
