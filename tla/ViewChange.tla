----------------------------- MODULE ViewChange -----------------------------
(***************************************************************************)
(* The view change of consensus/view_change.py together with what it needs *)
(* of consensus/pbft.py: the votes on a sequence number, the PBFT log, the *)
(* catch-up with peers and the restart of a node.  Every node runs the     *)
(* code (no node is Byzantine here), the sequence numbers stay below the   *)
(* first checkpoint, and the accounts are left to module PBFT: a request   *)
(* stands for the transaction a leader makes of it, so equal requests at   *)
(* one sequence number are equal digests.                                  *)
(*                                                                         *)
(* The message thread of a node runs its handlers one at a time; they are  *)
(* atomic.  The heartbeat and the timer thread start view changes; their   *)
(* work is cut where another thread can come between.  net holds the       *)
(* messages in flight, which arrive in any order or never; a message that  *)
(* the handler would drop unread is left there.                            *)
(***************************************************************************)
EXTENDS Integers, FiniteSets

CONSTANTS
    F,            \* number of Byzantine sites tolerated (config.f)
    Sites,        \* the NUM_SITES = 3F + 1 nodes
    SiteOf,       \* SiteOf[k] is the node whose sid is k
    Requests,     \* what clients ask for
    Noop,         \* the null request
    MaxSeq,       \* bound: sequence numbers 1..MaxSeq are used
    MaxView,      \* bound: views 0..MaxView are used
    MaxRestarts,  \* bound: times a node restarts
    NoRequest     \* no entry in self.requests

WeakQuorum == F + 1    \* wrong: the quorum is f + 1

Quorum == 2 * F + 1
Seqs   == 1 .. MaxSeq
Views  == 0 .. MaxView
Txs    == Requests \cup {Noop}

\* A prepared certificate, or a request that the new leader proposes again.
Certs == [seq: Seqs, tx: Txs]

\* One entry of self.requests.
RequestStates ==
    [tx: Txs, prepares: SUBSET Sites, commits: SUBSET Sites, decided: BOOLEAN,
     phase: {"pre_prepare", "prepare", "commit", "executed"}]

\* One pbft_log key; the view of the message is not part of it.
LogEntries == [type: {"PRE_PREPARE", "PREPARE", "COMMIT"}, seq: Seqs, tx: Txs,
               sender: Sites]

Messages ==
    [type: {"PRE_PREPARE", "PREPARE", "COMMIT"}, sender: Sites, dst: Sites,
     view: Views, seq: Seqs, tx: Txs]
    \cup [type: {"VIEW_CHANGE"}, sender: Sites, dst: Sites, view: Views,
          certs: SUBSET Certs]
    \cup [type: {"NEW_VIEW"}, sender: Sites, dst: Sites, view: Views,
          V: SUBSET Sites, O: SUBSET Certs]

ASSUME ViewChangeAssumption ==
    /\ F \in Nat \ {0}
    /\ IsFiniteSet(Sites)
    /\ Cardinality(Sites) = 3 * F + 1
    /\ SiteOf \in [0 .. (3 * F) -> Sites]
    /\ Noop \notin Requests
    /\ MaxSeq \in Nat /\ MaxView \in Nat /\ MaxRestarts \in Nat
    /\ NoRequest \notin RequestStates

VARIABLES
    net,             \* messages sent and not yet handled
    view,            \* self.view, saved on disk
    viewChangeSent,  \* self.view_change_sent
    initiating,      \* the new_view a thread in _initiate_view_change has read
    collected,       \* self.view_changes_collected of the views this node leads
    lastSeq,         \* sequence_manager.last_seq
    requests,        \* self.requests
    lastExec,        \* self.last_executed_seq, saved on disk
    hasPending,      \* self.has_pending_request
    logs,            \* store: pbft_log
    executed,        \* history: what each node has executed
    asked,           \* history: who has sent VIEW-CHANGE for which view
    restarts         \* history: times a node restarted

votingVars  == <<lastSeq, requests, lastExec, hasPending, logs, executed>>
viewVars    == <<view, viewChangeSent, initiating, collected, asked>>
vars == <<net, viewVars, votingVars, restarts>>

-----------------------------------------------------------------------------
(* Helpers *)

get_leader(v) == SiteOf[v % (3 * F + 1)]
IsLeader(i) == get_leader(view[i]) = i
Peers(i) == Sites \ {i}

Known(i, s) == requests[i][s] # NoRequest
Bigger(a, b) == IF a > b THEN a ELSE b

Idle == [phase |-> "idle", view |-> 0]    \* no thread starts a view change

Broadcast(type, i, v, s, tx) ==
    {[type |-> type, sender |-> i, dst |-> d, view |-> v, seq |-> s, tx |-> tx] :
        d \in Peers(i)}

LogEntry(type, s, tx, i) == [type |-> type, seq |-> s, tx |-> tx, sender |-> i]

-----------------------------------------------------------------------------
Init ==
    /\ net = {}
    /\ view = [i \in Sites |-> 0]
    /\ viewChangeSent = [i \in Sites |-> FALSE]
    /\ initiating = [i \in Sites |-> Idle]
    /\ collected = [i \in Sites |-> {}]
    /\ lastSeq = [i \in Sites |-> 0]
    /\ requests = [i \in Sites |-> [s \in Seqs |-> NoRequest]]
    /\ lastExec = [i \in Sites |-> 0]
    /\ hasPending = [i \in Sites |-> FALSE]
    /\ logs = [i \in Sites |-> {}]
    /\ executed = [i \in Sites |-> {}]
    /\ asked = {}
    /\ restarts = 0

-----------------------------------------------------------------------------
(* Proposals and votes *)

Proposed(i, tx) ==
    [tx |-> tx, prepares |-> {i}, commits |-> {}, decided |-> FALSE,
     phase |-> "prepare"]

ProposalMessages(i, v, O) ==
    UNION {Broadcast(type, i, v, c.seq, c.tx) :
              type \in {"PRE_PREPARE", "PREPARE"}, c \in O}

ProposalLogs(i, O) ==
    {LogEntry(type, c.seq, c.tx, i) : type \in {"PRE_PREPARE", "PREPARE"}, c \in O}

\* _send_pre_prepare of every member of O in view v: the entry of the number,
\* if there is one, is overwritten with its votes.
Propose(i, v, O) ==
    /\ requests' = [requests EXCEPT ![i] = [s \in Seqs |->
          IF \E c \in O : c.seq = s
          THEN Proposed(i, (CHOOSE c \in O : c.seq = s).tx)
          ELSE requests[i][s]]]
    /\ logs' = [logs EXCEPT ![i] = @ \cup ProposalLogs(i, O)]

\* _handle_client_request at the leader, for a request not answered before.
HandleClientRequest(i, q) ==
    /\ IsLeader(i)
    /\ lastSeq[i] < MaxSeq
    /\ LET O == {[seq |-> lastSeq[i] + 1, tx |-> q]} IN
       /\ Propose(i, view[i], O)
       /\ net' = net \cup ProposalMessages(i, view[i], O)
    /\ lastSeq' = [lastSeq EXCEPT ![i] = @ + 1]
    /\ hasPending' = [hasPending EXCEPT ![i] = TRUE]
    /\ UNCHANGED <<viewVars, lastExec, executed, restarts>>

PrepareQuorum(r) == Cardinality(r.prepares) >= Quorum /\ r.phase = "prepare"

CommitPhaseMisnamed(i, r) ==    \* wrong: a phase that nothing else knows
    [r EXCEPT !.commits = @ \cup {i}, !.phase = "committed"]

\* What _send_commit makes of an entry, and _check_commit_quorum after it.
WithOwnCommit(i, r) == [r EXCEPT !.commits = @ \cup {i}, !.phase = "commit"]

AfterCommits(r) ==
    IF Cardinality(r.commits) >= Quorum
    THEN [r EXCEPT !.decided = TRUE, !.phase = "executed"] ELSE r

\* Vote m is counted by node i, which makes entry after of its entry, sends
\* commit, and executes if this is what decides the number.
Count(i, m, after, commit) ==
    LET executes == after.decided /\ ~requests[i][m.seq].decided IN
    /\ requests' = [requests EXCEPT ![i][m.seq] = after]
    /\ logs' = [logs EXCEPT ![i] =
          @ \cup {LogEntry(m.type, m.seq, m.tx, m.sender)}
            \cup {LogEntry("COMMIT", m.seq, m.tx, i) : c \in commit}]
    /\ net' = (net \ {m}) \cup commit
    /\ IF executes
       THEN /\ executed' = [executed EXCEPT ![i] = @ \cup {[seq |-> m.seq, tx |-> m.tx]}]
            /\ lastExec' = [lastExec EXCEPT ![i] = Bigger(@, m.seq)]
            /\ hasPending' = [hasPending EXCEPT ![i] = FALSE]
       ELSE UNCHANGED <<executed, lastExec, hasPending>>
    /\ UNCHANGED <<viewVars, lastSeq, restarts>>

\* A vote of this view for the digest that node i holds.
Matches(i, m) ==
    /\ m.view = view[i]
    /\ Known(i, m.seq)
    /\ requests[i][m.seq].tx = m.tx

HandlePrepare(i, m) ==
    /\ m.type = "PREPARE"
    /\ Matches(i, m)
    /\ m.sender \notin requests[i][m.seq].prepares
    /\ LET r == [requests[i][m.seq] EXCEPT !.prepares = @ \cup {m.sender}] IN
       IF PrepareQuorum(r)
       THEN Count(i, m, AfterCommits(WithOwnCommit(i, r)),
                  Broadcast("COMMIT", i, view[i], m.seq, m.tx))
       ELSE Count(i, m, r, {})

HandleCommit(i, m) ==
    /\ m.type = "COMMIT"
    /\ Matches(i, m)
    /\ m.sender \notin requests[i][m.seq].commits
    /\ LET r == [requests[i][m.seq] EXCEPT !.commits = @ \cup {m.sender}] IN
       Count(i, m, AfterCommits(r), {})

FromLeader(i, m) ==
    /\ m.type = "PRE_PREPARE"
    /\ m.sender = get_leader(m.view)
    /\ m.view = view[i]

\* The first proposal seen for a number, in whatever view, is the one voted for.
NewProposal(i, m) == ~Known(i, m.seq)

HandlePrePrepare(i, m) ==
    /\ FromLeader(i, m)
    /\ NewProposal(i, m)
    /\ requests' = [requests EXCEPT ![i][m.seq] = Proposed(i, m.tx)]
    /\ logs' = [logs EXCEPT ![i] =
          @ \cup {LogEntry("PRE_PREPARE", m.seq, m.tx, m.sender),
                  LogEntry("PREPARE", m.seq, m.tx, i)}]
    /\ net' = (net \ {m}) \cup Broadcast("PREPARE", i, m.view, m.seq, m.tx)
    /\ UNCHANGED <<viewVars, lastSeq, lastExec, hasPending, executed, restarts>>

-----------------------------------------------------------------------------
(* Asking for a view change *)

LoggedVotes(i, s, tx) ==
    {j \in Sites : LogEntry("PREPARE", s, tx, j) \in logs[i]}

\* The certificates of node i, each a copy of its log.  Those that the new
\* leader finds without a proposal or with fewer than 2F votes are left out.
PreparedCerts(i) ==
    {c \in Certs :
        /\ c.seq > lastExec[i]
        /\ Known(i, c.seq) /\ requests[i][c.seq].tx = c.tx
        /\ Cardinality(requests[i][c.seq].prepares) >= Quorum
        /\ \E j \in Sites : LogEntry("PRE_PREPARE", c.seq, c.tx, j) \in logs[i]
        /\ Cardinality(LoggedVotes(i, c.seq, c.tx)) >= Quorum - 1}

\* The broadcast reaches the leader of view v, unless that is i itself; what
\* the other nodes record of it is read by nobody.
SendViewChange(i, v) ==
    /\ net' = net \cup {[type |-> "VIEW_CHANGE", sender |-> i, dst |-> d, view |-> v,
                         certs |-> PreparedCerts(i)] : d \in {get_leader(v)} \ {i}}
    /\ asked' = asked \cup {[view |-> v, sender |-> i]}

\* check_view_timeout: the heartbeat thread of a node that does not see its
\* leader, or the timer thread of one whose request is late, reads the view.
CheckViewTimeout(i) ==
    /\ ~IsLeader(i) \/ hasPending[i]
    /\ ~viewChangeSent[i]
    /\ initiating[i] = Idle
    /\ view[i] < MaxView
    /\ initiating' = [initiating EXCEPT ![i] = [phase |-> "read", view |-> view[i] + 1]]
    /\ UNCHANGED <<net, view, viewChangeSent, collected, asked, votingVars, restarts>>

SetViewChangeSent(i) ==
    /\ initiating[i].phase = "read"
    /\ initiating' = [initiating EXCEPT ![i].phase = "set"]
    /\ viewChangeSent' = [viewChangeSent EXCEPT ![i] = TRUE]
    /\ UNCHANGED <<net, view, collected, asked, votingVars, restarts>>

BroadcastViewChange(i) ==
    /\ initiating[i].phase = "set"
    /\ initiating' = [initiating EXCEPT ![i] = Idle]
    /\ SendViewChange(i, initiating[i].view)
    /\ UNCHANGED <<view, viewChangeSent, collected, votingVars, restarts>>

\* _handle_pre_prepare of a second digest: the message thread itself starts the
\* view change.
HandleEquivocation(i, m) ==
    /\ FromLeader(i, m)
    /\ ~NewProposal(i, m) /\ requests[i][m.seq].tx # m.tx
    /\ ~viewChangeSent[i]
    /\ view[i] < MaxView
    /\ viewChangeSent' = [viewChangeSent EXCEPT ![i] = TRUE]
    /\ SendViewChange(i, view[i] + 1)
    /\ UNCHANGED <<view, initiating, collected, votingVars, restarts>>

-----------------------------------------------------------------------------
(* The new view *)

\* The sets O that keep one certificate for every number: which one depends on
\* the order in which the VIEW-CHANGEs arrived.
Choices(certs) ==
    {O \in SUBSET certs : \A c \in certs : Cardinality({d \in O : d.seq = c.seq}) = 1}

\* _apply_new_view at a node that does not lead view v.
EnterView(i, v) ==
    /\ view' = [view EXCEPT ![i] = v]
    /\ viewChangeSent' = [viewChangeSent EXCEPT ![i] = FALSE]
    /\ collected' = [collected EXCEPT ![i] = {c \in @ : c.view > v}]

\* What the new leader proposes at once: the null request if O is empty, at the
\* next number of its own counter, else the members of O it has not executed.
FirstProposals(i, O) ==
    IF O # {} THEN {c \in O : c.seq > lastExec[i]}
    ELSE {[seq |-> s, tx |-> Noop] : s \in {lastSeq[i] + 1} \cap Seqs}

Senders(votes) == {c.sender : c \in votes}

\* _send_new_view and _apply_new_view at the leader of view v.
SendNewView(i, m, votes) ==
    \E O \in Choices(UNION {c.certs : c \in votes}) :
        LET first == FirstProposals(i, O) IN
        /\ EnterView(i, m.view)
        /\ Propose(i, m.view, first)
        /\ lastSeq' = [lastSeq EXCEPT ![i] =
              IF O = {} /\ lastSeq[i] < MaxSeq THEN @ + 1 ELSE @]
        /\ net' = (net \ {m})
             \cup {[type |-> "NEW_VIEW", sender |-> i, dst |-> d, view |-> m.view,
                    V |-> Senders(votes), O |-> O] : d \in Peers(i)}
             \cup ProposalMessages(i, m.view, first)
        /\ UNCHANGED <<initiating, asked, lastExec, hasPending, executed, restarts>>

\* The VIEW-CHANGEs for the view of m, with m in the place of its sender.
VotesWith(i, m) ==
    {c \in collected[i] : c.view = m.view /\ c.sender # m.sender}
        \cup {[view |-> m.view, sender |-> m.sender, certs |-> m.certs]}

EnoughForWeakQuorum(votes) ==    \* wrong: F + 1 nodes suffice
    Cardinality(Senders(votes)) >= F + 1

EnoughWithOwn(votes) ==    \* wrong: waits for its own VIEW-CHANGE as well
    Cardinality(Senders(votes)) > Quorum

EnoughVotes(votes) == Cardinality(Senders(votes)) >= Quorum

HandleViewChange(i, m) ==
    /\ m.type = "VIEW_CHANGE"
    /\ m.view > view[i]
    /\ LET votes == VotesWith(i, m) IN
       IF EnoughVotes(votes)
       THEN SendNewView(i, m, votes)
       ELSE /\ collected' = [collected EXCEPT ![i] =
                  {c \in @ : c.view # m.view} \cup votes]
            /\ net' = net \ {m}
            /\ UNCHANGED <<view, viewChangeSent, initiating, asked, votingVars, restarts>>

\* The sender is not compared with the leader of the view, and O is not
\* recomputed from V.
HandleNewView(i, m) ==
    /\ m.type = "NEW_VIEW"
    /\ m.view > view[i]
    /\ Cardinality(m.V) >= Quorum
    /\ EnterView(i, m.view)
    /\ net' = net \ {m}
    /\ UNCHANGED <<initiating, asked, votingVars, restarts>>

-----------------------------------------------------------------------------
(* Catching up with peers, and restart *)

\* What node i may find out: a number between its own and that of some node.
UpToPeers(f, i) == UNION {f[i] .. f[j] : j \in Sites}

AdoptNumber(i, v, e) ==    \* wrong: the peers' view is left alone
    /\ UNCHANGED view
    /\ lastExec' = [lastExec EXCEPT ![i] = e]

\* _sync_with_peers: a view and a last sequence number that the answers of
\* some peers carry, now or earlier, replace lower ones of this node.  The
\* transactions up to that number are skipped.
Adopt(i, v, e) ==
    /\ view' = [view EXCEPT ![i] = v]
    /\ lastExec' = [lastExec EXCEPT ![i] = e]

\* Any message of a higher view, a PING for one, starts it, and so does a
\* SYNC-RESPONSE of a peer more than two numbers ahead.  SYNC_REQUEST, the answers
\* and what is_syncing guards in between are this one step: an answer that comes
\* late is one of a peer that was there earlier, and one that is lost comes with
\* the next PING.
CatchUp(i) ==
    /\ \E j \in Sites : view[j] > view[i] \/ lastExec[j] > lastExec[i] + 2
    /\ \E v \in UpToPeers(view, i), e \in UpToPeers(lastExec, i) :
          /\ <<v, e>> # <<view[i], lastExec[i]>>
          /\ Adopt(i, v, e)
          /\ viewChangeSent' = [viewChangeSent EXCEPT ![i] = @ /\ v = view[i]]
          /\ lastSeq' = [lastSeq EXCEPT ![i] = IF e > lastExec[i] THEN Bigger(@, e) ELSE @]
    /\ UNCHANGED <<net, initiating, collected, asked, requests, hasPending, logs,
                   executed, restarts>>

Voters(type, i, s, tx) == {j \in Sites : LogEntry(type, s, tx, j) \in logs[i]}

ReconstructedPhase(i, s, tx) ==
    IF Cardinality(Voters("COMMIT", i, s, tx)) >= Quorum THEN "executed"
    ELSE IF Cardinality(Voters("PREPARE", i, s, tx)) >= Quorum THEN "prepare"
    ELSE "pre_prepare"

\* _reconstruct_requests_from_logs for one number, tx being the proposal found.
Reconstructed(i, s, tx) ==
    [tx |-> tx, prepares |-> Voters("PREPARE", i, s, tx),
     commits |-> Voters("COMMIT", i, s, tx),
     decided |-> ReconstructedPhase(i, s, tx) = "executed",
     phase |-> ReconstructedPhase(i, s, tx)]

LoggedProposals(i, s) ==
    {tx \in Txs : \E j \in Sites : LogEntry("PRE_PREPARE", s, tx, j) \in logs[i]}

\* start() between its two looks at the numbers executed: with the entries
\* found on disk, and view v and last executed number e after _sync_with_peers,
\* _reprocess_reconstructed_requests sends COMMIT again.
Resume(i, found, v, e) ==
    LET pending == {s \in Seqs : found[s] # NoRequest /\ s > e}
        resent == {s \in pending : PrepareQuorum(found[s])}
        entries == [s \in Seqs |->
                      IF s \in resent THEN AfterCommits(WithOwnCommit(i, found[s])) ELSE found[s]]
        executes == {s \in resent : entries[s].decided} IN
    /\ \E last \in IF executes = {} THEN {e} ELSE {s \in executes : \A o \in executes : o <= s} :
          Adopt(i, v, last)
    /\ requests' = [requests EXCEPT ![i] = entries]
    /\ executed' = [executed EXCEPT ![i] = @ \cup {[seq |-> s, tx |-> found[s].tx] : s \in executes}]
    /\ hasPending' = [hasPending EXCEPT ![i] = pending # {} /\ executes = {}]
    /\ net' = net \cup UNION {Broadcast("COMMIT", i, v, s, found[s].tx) : s \in resent}
    /\ logs' = [logs EXCEPT ![i] = @ \cup {LogEntry("COMMIT", s, found[s].tx, i) : s \in resent}]
    /\ lastSeq' = [lastSeq EXCEPT ![i] = e]

\* The process ends between two messages and starts again.
Restart(i) ==
    /\ restarts < MaxRestarts
    /\ restarts' = restarts + 1
    /\ \E chosen \in [Seqs -> Txs], v \in UpToPeers(view, i), e \in UpToPeers(lastExec, i) :
          LET kept == {s \in Seqs : s > lastExec[i] /\ LoggedProposals(i, s) # {}} IN
          /\ \A s \in kept : chosen[s] \in LoggedProposals(i, s)
          /\ Resume(i, [s \in Seqs |-> IF s \in kept THEN Reconstructed(i, s, chosen[s])
                                       ELSE NoRequest], v, e)
    /\ viewChangeSent' = [viewChangeSent EXCEPT ![i] = FALSE]
    /\ initiating' = [initiating EXCEPT ![i] = Idle]
    /\ collected' = [collected EXCEPT ![i] = {}]
    /\ UNCHANGED asked

-----------------------------------------------------------------------------
Handle(i, m) ==
    \/ HandlePrePrepare(i, m) \/ HandlePrepare(i, m) \/ HandleCommit(i, m)
    \/ HandleEquivocation(i, m)
    \/ HandleViewChange(i, m) \/ HandleNewView(i, m)

Next ==
    \E i \in Sites :
        \/ \E q \in Requests : HandleClientRequest(i, q)
        \/ \E m \in net : m.dst = i /\ Handle(i, m)
        \/ CheckViewTimeout(i) \/ SetViewChangeSent(i) \/ BroadcastViewChange(i)
        \/ CatchUp(i)
        \/ Restart(i)

Spec == Init /\ [][Next]_vars

\* The message thread takes every VIEW-CHANGE that arrives, and PINGs, which go
\* out every 1.5 s for ever, make a node that is behind catch up.  A NEW-VIEW and
\* any other message may be lost.
ProcessViewChange(i) == \E m \in net : m.dst = i /\ HandleViewChange(i, m)
Fairness(i) == WF_vars(ProcessViewChange(i)) /\ WF_vars(CatchUp(i))
FairSpec == Spec /\ \A i \in Sites : Fairness(i)

\* The threads of node i that start a view change go on, and time out.
TimeoutFairness(i) ==
    /\ WF_vars(CheckViewTimeout(i))
    /\ WF_vars(SetViewChangeSent(i))
    /\ WF_vars(BroadcastViewChange(i))

-----------------------------------------------------------------------------
(* Properties *)

\* Every variable holds a value of its kind.
TypeOK ==
    /\ net \subseteq Messages
    /\ view \in [Sites -> Views]
    /\ viewChangeSent \in [Sites -> BOOLEAN]
    /\ initiating \in [Sites -> [phase: {"idle", "read", "set"}, view: Views]]
    /\ collected \in [Sites -> SUBSET [view: Views, sender: Sites, certs: SUBSET Certs]]
    /\ lastSeq \in [Sites -> 0 .. MaxSeq]
    /\ requests \in [Sites -> [Seqs -> RequestStates \cup {NoRequest}]]
    /\ lastExec \in [Sites -> 0 .. MaxSeq]
    /\ hasPending \in [Sites -> BOOLEAN]
    /\ logs \in [Sites -> SUBSET LogEntries]
    /\ executed \in [Sites -> SUBSET Certs]
    /\ asked \subseteq [view: Views, sender: Sites]
    /\ restarts \in 0 .. MaxRestarts

\* No two nodes execute different requests at one sequence number, though they
\* do so in different views (README.md, "Safety").
Agreement ==
    \A i, j \in Sites : \A a \in executed[i], b \in executed[j] :
        a.seq = b.seq => a.tx = b.tx

Askers(v) == {j \in Peers(get_leader(v)) : [view |-> v, sender |-> j] \in asked}

Supported(v) == Cardinality(Askers(v)) >= Quorum

\* A node is in a later view only if a quorum, without the leader of that view,
\* has asked for it: neither a stale timer nor catching up invents a view.
ViewIsSupported == \A i \in Sites : view[i] > 0 => Supported(view[i])

\* When a quorum without the leader of view v has asked for v, every node gets
\* there, unless a restart has emptied view_changes_collected.
NewViewReached ==
    \A v \in Views : Supported(v) ~> (restarts > 0 \/ \A i \in Sites : view[i] >= v)

\* Once one node is in view v every node gets there, though NEW-VIEWs are lost
\* and nodes restart.
ViewsConverge ==
    \A v \in Views : (\E i \in Sites : view[i] = v) ~> (\A i \in Sites : view[i] >= v)

-----------------------------------------------------------------------------
(* The inductive invariant behind ViewIsSupported.  A view is not only       *)
(* supported, each view below it is as well: the next node that asks counts  *)
(* on from there.                                                            *)

SupportedUpTo(v) == \A w \in 1 .. v : Supported(w)

\* A VIEW-CHANGE is in flight only to the leader of its view and only from
\* another node that has asked; a NEW-VIEW names only such nodes.
MessagesAreAsked ==
    \A m \in net :
        /\ m.type = "VIEW_CHANGE" => m.view \in Views /\ m.sender \in Askers(m.view)
        /\ m.type = "NEW_VIEW" => m.view \in Views /\ m.V \subseteq Askers(m.view)

CollectedAreAsked ==
    \A i \in Sites : \A c \in collected[i] : c.sender \in Askers(c.view)

\* Whoever is in a view, has asked for one or is about to has the support of
\* all views before.
ViewsAreSupported ==
    \A i \in Sites : SupportedUpTo(view[i]) /\ SupportedUpTo(initiating[i].view - 1)

AskedAreSupported == \A a \in asked : SupportedUpTo(a.view - 1)

ViewTypes ==
    /\ view \in [Sites -> Views]
    /\ initiating \in [Sites -> [phase: {"idle", "read", "set"}, view: Views]]
    /\ DOMAIN collected = Sites
    /\ asked \subseteq [view: Views, sender: Sites]

SupportInv ==
    /\ ViewTypes
    /\ MessagesAreAsked
    /\ CollectedAreAsked
    /\ ViewsAreSupported
    /\ AskedAreSupported
=============================================================================
