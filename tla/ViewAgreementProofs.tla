------------------------ MODULE ViewAgreementProofs ------------------------
(***************************************************************************)
(* Proofs about ViewChange, for every number of tolerated faults and every *)
(* bound on views, numbers and restarts: its types, and the agreement of   *)
(* what nodes execute in different views.                                  *)
(***************************************************************************)
EXTENDS ViewChangeProofs

-----------------------------------------------------------------------------
(* Types *)

Votes == [type: {"PRE_PREPARE", "PREPARE", "COMMIT"}, sender: Sites, dst: Sites,
          view: Views, seq: Seqs, tx: Txs]

LEMMA MessageKinds ==
    ASSUME NEW m \in Messages
    PROVE  /\ m.type \in {"PRE_PREPARE", "PREPARE", "COMMIT"} => m \in Votes
           /\ m.type = "VIEW_CHANGE" =>
                 m.view \in Views /\ m.sender \in Sites /\ m.certs \subseteq Certs
           /\ m.type = "NEW_VIEW" => m.view \in Views
           /\ m.dst \in Sites
BY DEF Messages, Votes

LEMMA NumberTypes ==
    /\ 0 \in Views /\ 0 \in 0 .. MaxSeq /\ MaxSeq \in Nat
    /\ Idle \in [phase: {"idle", "read", "set"}, view: Views]
    /\ Noop \in Txs /\ Requests \subseteq Txs
BY ViewChangeAssumption DEF Views, Idle, Txs

LEMMA LeaderTypes ==
    ASSUME NEW v \in Nat
    PROVE  get_leader(v) \in Sites
<1>1. F \in Nat /\ SiteOf \in [0 .. (3 * F) -> Sites]
  BY ViewChangeAssumption
<1>2. v % (3 * F + 1) \in 0 .. (3 * F)
  BY <1>1
<1> QED
  BY <1>1, <1>2 DEF get_leader

\* What a broadcast puts into the network.
LEMMA BroadcastTypes ==
    ASSUME NEW type \in {"PRE_PREPARE", "PREPARE", "COMMIT"}, NEW i \in Sites,
           NEW v \in Views, NEW s \in Seqs, NEW tx \in Txs
    PROVE  /\ Broadcast(type, i, v, s, tx) \subseteq Messages
           /\ \A m \in Broadcast(type, i, v, s, tx) :
                 m.type = type /\ m.sender = i /\ m.dst # i /\ m.seq = s /\ m.tx = tx
BY DEF Broadcast, Messages, Peers

LEMMA ProposalTypes ==
    ASSUME NEW i \in Sites, NEW v \in Views, NEW O \in SUBSET Certs
    PROVE  /\ ProposalMessages(i, v, O) \subseteq Messages
           /\ \A m \in ProposalMessages(i, v, O) :
                 m.type \in {"PRE_PREPARE", "PREPARE"} /\ m.sender = i /\ m.dst # i
           /\ ProposalLogs(i, O) \subseteq LogEntries
<1>1. \A c \in O : c.seq \in Seqs /\ c.tx \in Txs
  BY DEF Certs
<1>2. ASSUME NEW m \in ProposalMessages(i, v, O)
      PROVE  m \in Messages /\ m.type \in {"PRE_PREPARE", "PREPARE"} /\ m.sender = i /\ m.dst # i
  <2>1. PICK type \in {"PRE_PREPARE", "PREPARE"}, c \in O : m \in Broadcast(type, i, v, c.seq, c.tx)
    BY DEF ProposalMessages
  <2> QED
    BY <1>1, <2>1, BroadcastTypes
<1>3. ProposalLogs(i, O) \subseteq LogEntries
  BY <1>1 DEF ProposalLogs, LogEntry, LogEntries
<1> QED
  BY <1>2, <1>3

LEMMA ProposedTypes ==
    ASSUME NEW i \in Sites, NEW tx \in Txs
    PROVE  /\ Proposed(i, tx) \in RequestStates
           /\ Proposed(i, tx).tx = tx /\ Proposed(i, tx).commits = {}
           /\ Proposed(i, tx) # NoRequest
<1>1. Proposed(i, tx) \in RequestStates
  BY DEF Proposed, RequestStates
<1>2. Proposed(i, tx).tx = tx /\ Proposed(i, tx).commits = {}
  BY DEF Proposed
<1> QED
  BY <1>1, <1>2, ViewChangeAssumption

\* Proposing changes the entries of the node that proposes, and only those.
LEMMA ProposeTypes ==
    ASSUME TypeOK, NEW i \in Sites, NEW v \in Views, NEW O \in SUBSET Certs,
           Propose(i, v, O)
    PROVE  /\ requests' \in [Sites -> [Seqs -> RequestStates \cup {NoRequest}]]
           /\ logs' \in [Sites -> SUBSET LogEntries]
           /\ \A j \in Sites \ {i} : requests'[j] = requests[j]
           /\ \A s \in Seqs :
                 \/ requests'[i][s] = requests[i][s]
                 \/ \E c \in O : c.seq = s /\ requests'[i][s] = Proposed(i, c.tx)
<1> DEFINE entry(s) == IF \E c \in O : c.seq = s
                       THEN Proposed(i, (CHOOSE c \in O : c.seq = s).tx)
                       ELSE requests[i][s]
<1>1. requests' = [requests EXCEPT ![i] = [s \in Seqs |-> entry(s)]]
  BY DEF Propose
<1>2. ASSUME NEW s \in Seqs
      PROVE  /\ \/ entry(s) = requests[i][s]
                \/ \E c \in O : c.seq = s /\ entry(s) = Proposed(i, c.tx)
             /\ entry(s) \in RequestStates \cup {NoRequest}
  <2>1. CASE \E c \in O : c.seq = s
    <3>1. PICK c \in O : c.seq = s /\ c = CHOOSE d \in O : d.seq = s
      BY <2>1
    <3>2. c.tx \in Txs /\ entry(s) = Proposed(i, c.tx)
      BY <2>1, <3>1 DEF Certs
    <3>3. Proposed(i, c.tx) \in RequestStates
      BY <3>2, ProposedTypes
    <3> HIDE DEF entry
    <3> QED
      BY <3>1, <3>2, <3>3
  <2>2. CASE ~ \E c \in O : c.seq = s
    BY <2>2 DEF TypeOK
  <2> QED
    BY <2>1, <2>2
<1>3. /\ requests' \in [Sites -> [Seqs -> RequestStates \cup {NoRequest}]]
      /\ \A j \in Sites \ {i} : requests'[j] = requests[j]
      /\ \A s \in Seqs : requests'[i][s] = entry(s)
  <2> HIDE DEF entry
  <2> QED
    BY <1>1, <1>2 DEF TypeOK
<1>4. logs' \in [Sites -> SUBSET LogEntries]
  BY ProposalTypes DEF Propose, TypeOK
<1> QED
  <2> HIDE DEF entry
  <2> QED
    BY <1>2, <1>3, <1>4

-----------------------------------------------------------------------------
(* Counting a vote *)

\* What counting makes of an entry: its request stays, and so do its commits
\* but for that of the node itself.
LEMMA CountedEntry ==
    ASSUME NEW i \in Sites, NEW r \in RequestStates
    PROVE  /\ WithOwnCommit(i, r) \in RequestStates
           /\ WithOwnCommit(i, r).tx = r.tx
           /\ WithOwnCommit(i, r).commits = r.commits \cup {i}
           /\ WithOwnCommit(i, r).decided = r.decided
           /\ AfterCommits(r) \in RequestStates
           /\ AfterCommits(r).tx = r.tx
           /\ AfterCommits(r).commits = r.commits
           /\ AfterCommits(r).decided => r.decided \/ Cardinality(r.commits) >= Quorum
BY DEF WithOwnCommit, AfterCommits, RequestStates

\* The entry after is what counting vote m may make of the entry of node i.
Becomes(i, m, after) ==
    LET r == requests[i][m.seq] IN
    /\ after \in RequestStates
    /\ after.tx = m.tx
    /\ after.commits \subseteq r.commits \cup {i} \cup {j \in {m.sender} : m.type = "COMMIT"}
    /\ after.decided => r.decided \/ Cardinality(after.commits) >= Quorum

\* What such a step writes.
CountWrites(i, m, after) ==
    /\ \A j \in Sites \ {i} : requests'[j] = requests[j] /\ executed'[j] = executed[j]
    /\ \A s \in Seqs \ {m.seq} : requests'[i][s] = requests[i][s]
    /\ requests'[i][m.seq] = after
    /\ \A n \in net' \ net : n.type = "COMMIT" /\ n.sender = i /\ n.dst # i
                              /\ n.seq = m.seq /\ n.tx = m.tx
    /\ \/ executed'[i] = executed[i]
       \/ /\ executed'[i] = executed[i] \cup {[seq |-> m.seq, tx |-> m.tx]}
          /\ after.decided /\ ~requests[i][m.seq].decided

\* A step that counts vote m.
LEMMA CountTypes ==
    ASSUME TypeOK, NEW i \in Sites, NEW m \in net, m.type \in {"PREPARE", "COMMIT"},
           NEW after, after \in RequestStates,
           NEW commit \in {{}, Broadcast("COMMIT", i, view[i], m.seq, m.tx)},
           Count(i, m, after, commit)
    PROVE  TypeOK' /\ CountWrites(i, m, after)
<1> DEFINE executes == after.decided /\ ~requests[i][m.seq].decided
           a == [seq |-> m.seq, tx |-> m.tx]
<1>1. /\ requests' = [requests EXCEPT ![i][m.seq] = after]
      /\ logs' = [logs EXCEPT ![i] =
            @ \cup {LogEntry(m.type, m.seq, m.tx, m.sender)}
              \cup {LogEntry("COMMIT", m.seq, m.tx, i) : c \in commit}]
      /\ net' = (net \ {m}) \cup commit
      /\ IF executes
         THEN /\ executed' = [executed EXCEPT ![i] = @ \cup {a}]
              /\ lastExec' = [lastExec EXCEPT ![i] = Bigger(@, m.seq)]
              /\ hasPending' = [hasPending EXCEPT ![i] = FALSE]
         ELSE UNCHANGED <<executed, lastExec, hasPending>>
      /\ UNCHANGED <<viewVars, lastSeq, restarts>>
  BY DEF Count
<1>2. m \in Votes
  BY MessageKinds DEF TypeOK
<1>3. m.seq \in Seqs /\ m.tx \in Txs /\ m.sender \in Sites /\ view[i] \in Views
  BY <1>2 DEF Votes, TypeOK
<1>5. commit \subseteq Messages
         /\ \A n \in commit : n.type = "COMMIT" /\ n.sender = i /\ n.dst # i
                               /\ n.seq = m.seq /\ n.tx = m.tx
  BY <1>3, BroadcastTypes
<1>6. a \in Certs
  BY <1>3 DEF Certs
<1> HIDE DEF a
<1>7. /\ requests' \in [Sites -> [Seqs -> RequestStates \cup {NoRequest}]]
      /\ \A j \in Sites \ {i} : requests'[j] = requests[j]
      /\ \A s \in Seqs \ {m.seq} : requests'[i][s] = requests[i][s]
      /\ requests'[i][m.seq] = after
  BY <1>1, <1>3 DEF TypeOK
<1>8. logs' \in [Sites -> SUBSET LogEntries]
  <2>1. /\ LogEntry(m.type, m.seq, m.tx, m.sender) \in LogEntries
        /\ {LogEntry("COMMIT", m.seq, m.tx, i) : c \in commit} \subseteq LogEntries
    BY <1>3 DEF LogEntry, LogEntries
  <2> HIDE DEF LogEntry
  <2> QED
    BY <1>1, <2>1 DEF TypeOK
<1>9. net' \subseteq Messages
  BY <1>1, <1>5 DEF TypeOK
<1>10. /\ executed' \in [Sites -> SUBSET Certs]
       /\ \A j \in Sites \ {i} : executed'[j] = executed[j]
       /\ \/ executed'[i] = executed[i]
          \/ executed'[i] = executed[i] \cup {a} /\ executes
  <2>1. \/ executed' = executed
        \/ executed' = [executed EXCEPT ![i] = @ \cup {a}] /\ executes
    BY <1>1
  <2>2. executed \in [Sites -> SUBSET Certs]
    BY DEF TypeOK
  <2> QED
    BY <1>6, <2>1, <2>2
<1>11. lastExec' \in [Sites -> 0 .. MaxSeq] /\ hasPending' \in [Sites -> BOOLEAN]
  <2>1. lastExec[i] \in 0 .. MaxSeq /\ m.seq \in 0 .. MaxSeq
    BY <1>3, NumberTypes DEF TypeOK, Seqs
  <2>2. Bigger(lastExec[i], m.seq) \in 0 .. MaxSeq
    BY <2>1 DEF Bigger
  <2>3. lastExec \in [Sites -> 0 .. MaxSeq] /\ hasPending \in [Sites -> BOOLEAN]
    BY DEF TypeOK
  <2>4. lastExec' = lastExec \/ lastExec' = [lastExec EXCEPT ![i] = Bigger(lastExec[i], m.seq)]
    BY <1>1
  <2>5. hasPending' = hasPending \/ hasPending' = [hasPending EXCEPT ![i] = FALSE]
    BY <1>1
  <2>6. lastExec' \in [Sites -> 0 .. MaxSeq]
    BY <2>2, <2>3, <2>4
  <2> QED
    BY <2>3, <2>5, <2>6
<1>12. TypeOK'
  BY <1>1, <1>7, <1>8, <1>9, <1>10, <1>11 DEF TypeOK, viewVars
<1> QED
  BY <1>1, <1>5, <1>7, <1>10, <1>12 DEF a, CountWrites

-----------------------------------------------------------------------------
(* Every action keeps the types *)

LEMMA RequestTypes ==
    ASSUME TypeOK, NEW i \in Sites, NEW q \in Requests, HandleClientRequest(i, q)
    PROVE  /\ TypeOK'
           /\ {[seq |-> lastSeq[i] + 1, tx |-> q]} \in SUBSET Certs
<1> DEFINE O == {[seq |-> lastSeq[i] + 1, tx |-> q]}
<1>1. /\ lastSeq[i] < MaxSeq /\ Propose(i, view[i], O)
      /\ net' = net \cup ProposalMessages(i, view[i], O)
      /\ lastSeq' = [lastSeq EXCEPT ![i] = @ + 1]
      /\ hasPending' = [hasPending EXCEPT ![i] = TRUE]
      /\ UNCHANGED <<viewVars, lastExec, executed, restarts>>
  BY DEF HandleClientRequest
<1>2. lastSeq[i] + 1 \in Seqs /\ lastSeq[i] + 1 \in 0 .. MaxSeq /\ view[i] \in Views
  BY <1>1, NumberTypes DEF TypeOK, Seqs
<1>3. O \in SUBSET Certs
  BY <1>2, NumberTypes DEF Certs
<1> HIDE DEF O
<1>4. /\ requests' \in [Sites -> [Seqs -> RequestStates \cup {NoRequest}]]
      /\ logs' \in [Sites -> SUBSET LogEntries]
  BY <1>1, <1>2, <1>3, ProposeTypes
<1>5. ProposalMessages(i, view[i], O) \subseteq Messages
  BY <1>2, <1>3, ProposalTypes
<1>6. net' \subseteq Messages /\ lastSeq' \in [Sites -> 0 .. MaxSeq]
         /\ hasPending' \in [Sites -> BOOLEAN]
  BY <1>1, <1>2, <1>5 DEF TypeOK
<1>7. TypeOK'
  BY <1>1, <1>4, <1>6 DEF TypeOK, viewVars
<1> QED
  BY <1>3, <1>7 DEF O

LEMMA PrePrepareTypes ==
    ASSUME TypeOK, NEW i \in Sites, NEW m \in net, HandlePrePrepare(i, m)
    PROVE  /\ TypeOK'
           /\ m.seq \in Seqs /\ m.tx \in Txs /\ m \in Votes
           /\ \A j \in Sites \ {i} : requests'[j] = requests[j]
           /\ \A s \in Seqs \ {m.seq} : requests'[i][s] = requests[i][s]
           /\ requests'[i][m.seq] = Proposed(i, m.tx)
           /\ \A n \in net' \ net : n.type = "PREPARE" /\ n.dst # n.sender
<1>1. /\ m.type = "PRE_PREPARE" /\ m.view = view[i]
      /\ requests' = [requests EXCEPT ![i][m.seq] = Proposed(i, m.tx)]
      /\ logs' = [logs EXCEPT ![i] =
            @ \cup {LogEntry("PRE_PREPARE", m.seq, m.tx, m.sender),
                    LogEntry("PREPARE", m.seq, m.tx, i)}]
      /\ net' = (net \ {m}) \cup Broadcast("PREPARE", i, m.view, m.seq, m.tx)
      /\ UNCHANGED <<viewVars, lastSeq, lastExec, hasPending, executed, restarts>>
  BY DEF HandlePrePrepare, FromLeader
<1>2. m \in Votes
  BY <1>1, MessageKinds DEF TypeOK
<1>3. m.seq \in Seqs /\ m.tx \in Txs /\ m.sender \in Sites /\ m.view \in Views
  BY <1>2 DEF Votes
<1>4. Proposed(i, m.tx) \in RequestStates
  BY <1>3, ProposedTypes
<1>5. /\ Broadcast("PREPARE", i, m.view, m.seq, m.tx) \subseteq Messages
      /\ \A n \in Broadcast("PREPARE", i, m.view, m.seq, m.tx) :
            n.type = "PREPARE" /\ n.sender = i /\ n.dst # i
  BY <1>3, BroadcastTypes
<1>6. /\ LogEntry("PRE_PREPARE", m.seq, m.tx, m.sender) \in LogEntries
      /\ LogEntry("PREPARE", m.seq, m.tx, i) \in LogEntries
  BY <1>3 DEF LogEntry, LogEntries
<1>7. logs' \in [Sites -> SUBSET LogEntries]
  <2> HIDE DEF LogEntry
  <2> QED
    BY <1>1, <1>6 DEF TypeOK
<1>8. /\ requests' \in [Sites -> [Seqs -> RequestStates \cup {NoRequest}]]
      /\ \A j \in Sites \ {i} : requests'[j] = requests[j]
      /\ \A s \in Seqs \ {m.seq} : requests'[i][s] = requests[i][s]
      /\ requests'[i][m.seq] = Proposed(i, m.tx)
  BY <1>1, <1>3, <1>4 DEF TypeOK
<1>9. net' \subseteq Messages
  BY <1>1, <1>5 DEF TypeOK
<1>10. TypeOK'
  BY <1>1, <1>7, <1>8, <1>9 DEF TypeOK, viewVars
<1> QED
  BY <1>1, <1>2, <1>3, <1>5, <1>8, <1>10

LEMMA VoteTypes ==
    ASSUME TypeOK, NEW i \in Sites, NEW m \in net,
           HandlePrepare(i, m) \/ HandleCommit(i, m)
    PROVE  /\ m \in Votes /\ m.type \in {"PREPARE", "COMMIT"}
           /\ Known(i, m.seq) /\ requests[i][m.seq].tx = m.tx
           /\ \E after, commit :
                 /\ Becomes(i, m, after)
                 /\ commit \in {{}, Broadcast("COMMIT", i, view[i], m.seq, m.tx)}
                 /\ Count(i, m, after, commit)
<1> DEFINE all == Broadcast("COMMIT", i, view[i], m.seq, m.tx)
<1>1. /\ m.type \in {"PREPARE", "COMMIT"}
      /\ Known(i, m.seq) /\ requests[i][m.seq].tx = m.tx
  BY DEF HandlePrepare, HandleCommit, Matches
<1>2. m \in Votes
  BY <1>1, MessageKinds DEF TypeOK
<1>3. m.seq \in Seqs /\ m.sender \in Sites
  BY <1>2 DEF Votes
<1>4. requests[i][m.seq] \in RequestStates
  BY <1>1, <1>3 DEF TypeOK, Known
<1> HIDE DEF all
<1>5. CASE HandlePrepare(i, m)
  <2> DEFINE r == [requests[i][m.seq] EXCEPT !.prepares = @ \cup {m.sender}]
  <2>1. r \in RequestStates /\ r.tx = m.tx /\ r.commits = requests[i][m.seq].commits
           /\ r.decided = requests[i][m.seq].decided
    BY <1>1, <1>3, <1>4 DEF RequestStates
  <2>2. Count(i, m, AfterCommits(WithOwnCommit(i, r)), all) \/ Count(i, m, r, {})
    BY <1>5 DEF HandlePrepare, all
  <2> HIDE DEF r
  <2>3. Becomes(i, m, AfterCommits(WithOwnCommit(i, r)))
    BY <2>1, CountedEntry DEF Becomes
  <2>4. Becomes(i, m, r)
    BY <2>1 DEF Becomes
  <2> QED
    BY <1>1, <1>2, <2>2, <2>3, <2>4 DEF all
<1>6. CASE HandleCommit(i, m)
  <2> DEFINE r == [requests[i][m.seq] EXCEPT !.commits = @ \cup {m.sender}]
  <2>1. r \in RequestStates /\ r.tx = m.tx
           /\ r.commits = requests[i][m.seq].commits \cup {m.sender}
           /\ r.decided = requests[i][m.seq].decided
    BY <1>1, <1>3, <1>4 DEF RequestStates
  <2>2. m.type = "COMMIT" /\ Count(i, m, AfterCommits(r), {})
    BY <1>6 DEF HandleCommit
  <2> HIDE DEF r
  <2>3. Becomes(i, m, AfterCommits(r))
    BY <2>1, <2>2, CountedEntry DEF Becomes
  <2> QED
    BY <1>1, <1>2, <2>2, <2>3
<1> QED
  BY <1>5, <1>6

\* Asking for a view: nothing but the VIEW-CHANGE to its leader is new.
LEMMA AskingTypes ==
    ASSUME TypeOK, NEW i \in Sites,
           \/ CheckViewTimeout(i) \/ SetViewChangeSent(i) \/ BroadcastViewChange(i)
           \/ \E m \in net : HandleEquivocation(i, m)
    PROVE  /\ TypeOK'
           /\ UNCHANGED <<view, votingVars, restarts>>
           /\ \A n \in net' \ net : n.type = "VIEW_CHANGE" /\ n.dst = get_leader(n.view)
<1>1. ASSUME NEW v \in Views, SendViewChange(i, v)
      PROVE  /\ net' \subseteq Messages /\ asked' \subseteq [view: Views, sender: Sites]
             /\ \A n \in net' \ net : n.type = "VIEW_CHANGE" /\ n.dst = get_leader(n.view)
  <2>1. get_leader(v) \in Sites
    BY LeaderTypes DEF Views
  <2>2. PreparedCerts(i) \subseteq Certs
    BY DEF PreparedCerts
  <2>3. net' = net \cup {[type |-> "VIEW_CHANGE", sender |-> i, dst |-> d, view |-> v,
                         certs |-> PreparedCerts(i)] : d \in {get_leader(v)} \ {i}}
    BY <1>1 DEF SendViewChange
  <2>4. asked' = asked \cup {[view |-> v, sender |-> i]}
    BY <1>1 DEF SendViewChange
  <2> QED
    BY <2>1, <2>2, <2>3, <2>4 DEF Messages, TypeOK
<1>2. view[i] \in 0 .. MaxView /\ MaxView \in Nat
  BY ViewChangeAssumption DEF TypeOK, Views
<1>3. ASSUME CheckViewTimeout(i)
      PROVE  TypeOK' /\ UNCHANGED <<net, view, votingVars, restarts>>
  <2>1. /\ view[i] < MaxView
        /\ initiating' = [initiating EXCEPT ![i] = [phase |-> "read", view |-> view[i] + 1]]
        /\ UNCHANGED <<net, view, viewChangeSent, collected, asked, votingVars, restarts>>
    BY <1>3 DEF CheckViewTimeout
  <2>2. view[i] + 1 \in Views
    BY <1>2, <2>1 DEF Views
  <2> QED
    BY <2>1, <2>2 DEF TypeOK, votingVars
<1>4. ASSUME SetViewChangeSent(i)
      PROVE  TypeOK' /\ UNCHANGED <<net, view, votingVars, restarts>>
  BY <1>4 DEF SetViewChangeSent, TypeOK, votingVars
<1>5. ASSUME BroadcastViewChange(i)
      PROVE  /\ TypeOK' /\ UNCHANGED <<view, votingVars, restarts>>
             /\ \A n \in net' \ net : n.type = "VIEW_CHANGE" /\ n.dst = get_leader(n.view)
  <2>1. /\ initiating' = [initiating EXCEPT ![i] = Idle]
        /\ SendViewChange(i, initiating[i].view)
        /\ UNCHANGED <<view, viewChangeSent, collected, votingVars, restarts>>
    BY <1>5 DEF BroadcastViewChange
  <2>2. initiating[i].view \in Views
    BY DEF TypeOK
  <2>3. /\ net' \subseteq Messages /\ asked' \subseteq [view: Views, sender: Sites]
        /\ \A n \in net' \ net : n.type = "VIEW_CHANGE" /\ n.dst = get_leader(n.view)
    BY <1>1, <2>1, <2>2
  <2> QED
    BY <2>1, <2>3, NumberTypes DEF TypeOK, votingVars
<1>6. ASSUME NEW m \in net, HandleEquivocation(i, m)
      PROVE  /\ TypeOK' /\ UNCHANGED <<view, votingVars, restarts>>
             /\ \A n \in net' \ net : n.type = "VIEW_CHANGE" /\ n.dst = get_leader(n.view)
  <2>1. /\ view[i] < MaxView /\ SendViewChange(i, view[i] + 1)
        /\ viewChangeSent' = [viewChangeSent EXCEPT ![i] = TRUE]
        /\ UNCHANGED <<view, initiating, collected, votingVars, restarts>>
    BY <1>6 DEF HandleEquivocation
  <2>2. view[i] + 1 \in Views
    BY <1>2, <2>1 DEF Views
  <2>3. /\ net' \subseteq Messages /\ asked' \subseteq [view: Views, sender: Sites]
        /\ \A n \in net' \ net : n.type = "VIEW_CHANGE" /\ n.dst = get_leader(n.view)
    BY <1>1, <2>1, <2>2
  <2> QED
    BY <2>1, <2>3 DEF TypeOK, votingVars
<1> QED
  BY <1>3, <1>4, <1>5, <1>6

LEMMA EnterTypes ==
    ASSUME TypeOK, NEW i \in Sites, NEW v \in Views, EnterView(i, v)
    PROVE  /\ view' \in [Sites -> Views] /\ viewChangeSent' \in [Sites -> BOOLEAN]
           /\ collected' \in [Sites -> SUBSET [view: Views, sender: Sites, certs: SUBSET Certs]]
           /\ view'[i] = v /\ \A j \in Sites \ {i} : view'[j] = view[j]
<1>1. {c \in collected[i] : c.view > v} \in SUBSET [view: Views, sender: Sites, certs: SUBSET Certs]
  BY DEF TypeOK
<1> QED
  BY <1>1 DEF EnterView, TypeOK

\* What the leader of a new view proposes comes from certificates.
LEMMA FirstProposalTypes ==
    ASSUME TypeOK, NEW i \in Sites, NEW O \in SUBSET Certs
    PROVE  FirstProposals(i, O) \in SUBSET Certs
BY NumberTypes DEF FirstProposals, Certs

LEMMA ViewChangeTypes ==
    ASSUME TypeOK, NEW i \in Sites, NEW m \in net, HandleViewChange(i, m)
    PROVE  /\ TypeOK'
           /\ \/ /\ UNCHANGED <<view, votingVars, restarts>>
                 /\ net' \subseteq net
              \/ /\ view'[i] = m.view /\ m.view > view[i]
                 /\ \A j \in Sites \ {i} : view'[j] = view[j] /\ requests'[j] = requests[j]
                 /\ \A s \in Seqs :
                       \/ requests'[i][s] = requests[i][s]
                       \/ \E tx \in Txs : requests'[i][s] = Proposed(i, tx)
                 /\ \A j \in Sites \ {i} : lastSeq'[j] = lastSeq[j]
                 /\ UNCHANGED <<executed, restarts>>
                 /\ \A n \in net' \ net :
                       /\ n.type \in {"NEW_VIEW", "PRE_PREPARE", "PREPARE"}
                       /\ n.type # "NEW_VIEW" => n.dst # n.sender
           /\ m.type = "VIEW_CHANGE" /\ m.view \in Views /\ m.view > view[i]
<1> DEFINE votes == VotesWith(i, m)
           Collections == SUBSET [view: Views, sender: Sites, certs: SUBSET Certs]
<1>1. m.type = "VIEW_CHANGE" /\ m.view > view[i]
  BY DEF HandleViewChange
<1>2. m.view \in Views /\ m.sender \in Sites /\ m.certs \subseteq Certs
  BY <1>1, MessageKinds DEF TypeOK
<1>3. votes \in Collections
  BY <1>2 DEF VotesWith, TypeOK
<1>4. CASE ~EnoughVotes(votes)
  <2>1. /\ collected' = [collected EXCEPT ![i] = {c \in @ : c.view # m.view} \cup votes]
        /\ net' = net \ {m}
        /\ UNCHANGED <<view, viewChangeSent, initiating, asked, votingVars, restarts>>
    BY <1>4 DEF HandleViewChange
  <2>2. {c \in collected[i] : c.view # m.view} \cup votes \in Collections
    BY <1>3 DEF TypeOK
  <2>3. collected' \in [Sites -> Collections]
    <3> HIDE DEF votes, Collections
    <3>1. collected \in [Sites -> Collections]
      BY DEF TypeOK, Collections
    <3> QED
      BY <2>1, <2>2, <3>1
  <2> HIDE DEF votes
  <2> QED
    BY <1>1, <1>2, <2>1, <2>3 DEF TypeOK, votingVars
<1>5. CASE EnoughVotes(votes)
  <2>1. PICK O \in Choices(UNION {c.certs : c \in votes}) :
          /\ EnterView(i, m.view)
          /\ Propose(i, m.view, FirstProposals(i, O))
          /\ lastSeq' = [lastSeq EXCEPT ![i] =
                IF O = {} /\ lastSeq[i] < MaxSeq THEN @ + 1 ELSE @]
          /\ net' = (net \ {m})
               \cup {[type |-> "NEW_VIEW", sender |-> i, dst |-> d, view |-> m.view,
                      V |-> Senders(votes), O |-> O] : d \in Peers(i)}
               \cup ProposalMessages(i, m.view, FirstProposals(i, O))
          /\ UNCHANGED <<initiating, asked, lastExec, hasPending, executed, restarts>>
    BY <1>5 DEF HandleViewChange, SendNewView
  <2>2. O \in SUBSET Certs /\ Senders(votes) \in SUBSET Sites
    BY <1>3 DEF Choices, Senders
  <2>3. FirstProposals(i, O) \in SUBSET Certs
    BY <2>2, FirstProposalTypes
  <2>4. /\ view' \in [Sites -> Views] /\ viewChangeSent' \in [Sites -> BOOLEAN]
        /\ collected' \in [Sites -> Collections]
        /\ view'[i] = m.view /\ \A j \in Sites \ {i} : view'[j] = view[j]
    BY <1>2, <2>1, EnterTypes
  <2>5. /\ requests' \in [Sites -> [Seqs -> RequestStates \cup {NoRequest}]]
        /\ logs' \in [Sites -> SUBSET LogEntries]
        /\ \A j \in Sites \ {i} : requests'[j] = requests[j]
        /\ \A s \in Seqs :
              \/ requests'[i][s] = requests[i][s]
              \/ \E c \in FirstProposals(i, O) : c.seq = s /\ requests'[i][s] = Proposed(i, c.tx)
    BY <1>2, <2>1, <2>3, ProposeTypes
  <2>6. \A s \in Seqs :
            \/ requests'[i][s] = requests[i][s]
            \/ \E tx \in Txs : requests'[i][s] = Proposed(i, tx)
    <3>1. \A c \in FirstProposals(i, O) : c.tx \in Txs
      BY <2>3 DEF Certs
    <3> QED
      BY <2>5, <3>1
  <2>7. /\ ProposalMessages(i, m.view, FirstProposals(i, O)) \subseteq Messages
        /\ \A n \in ProposalMessages(i, m.view, FirstProposals(i, O)) :
              n.type \in {"PRE_PREPARE", "PREPARE"} /\ n.sender = i /\ n.dst # i
    BY <1>2, <2>3, ProposalTypes
  <2>8. ASSUME NEW d \in Peers(i)
        PROVE  [type |-> "NEW_VIEW", sender |-> i, dst |-> d, view |-> m.view,
                V |-> Senders(votes), O |-> O] \in Messages
    <3>1. d \in Sites
      BY DEF Peers
    <3> HIDE DEF votes
    <3> QED
      BY <1>2, <2>2, <3>1 DEF Messages
  <2>9. /\ net' \subseteq Messages
        /\ \A n \in net' \ net :
              /\ n.type \in {"NEW_VIEW", "PRE_PREPARE", "PREPARE"}
              /\ n.type # "NEW_VIEW" => n.dst # n.sender
    <3> HIDE DEF votes
    <3> QED
      BY <2>1, <2>7, <2>8 DEF TypeOK
  <2>10. /\ lastSeq' \in [Sites -> 0 .. MaxSeq]
         /\ \A j \in Sites \ {i} : lastSeq'[j] = lastSeq[j]
    <3>1. lastSeq[i] < MaxSeq => lastSeq[i] + 1 \in 0 .. MaxSeq
      BY NumberTypes DEF TypeOK
    <3> QED
      BY <2>1, <3>1 DEF TypeOK
  <2>11. TypeOK'
    BY <2>1, <2>4, <2>5, <2>9, <2>10 DEF TypeOK
  <2> QED
    BY <1>1, <1>2, <2>1, <2>4, <2>5, <2>6, <2>9, <2>10, <2>11
<1> QED
  BY <1>4, <1>5

LEMMA NewViewTypes ==
    ASSUME TypeOK, NEW i \in Sites, NEW m \in net, HandleNewView(i, m)
    PROVE  /\ TypeOK'
           /\ \A j \in Sites : view'[j] >= view[j]
           /\ UNCHANGED <<votingVars, restarts>> /\ net' \subseteq net
<1>1. /\ m.type = "NEW_VIEW" /\ m.view > view[i] /\ EnterView(i, m.view)
      /\ net' = net \ {m} /\ UNCHANGED <<initiating, asked, votingVars, restarts>>
  BY DEF HandleNewView
<1>2. m.view \in Views
  BY <1>1, MessageKinds DEF TypeOK
<1>3. /\ view' \in [Sites -> Views] /\ viewChangeSent' \in [Sites -> BOOLEAN]
      /\ collected' \in [Sites -> SUBSET [view: Views, sender: Sites, certs: SUBSET Certs]]
      /\ view'[i] = m.view /\ \A j \in Sites \ {i} : view'[j] = view[j]
  BY <1>1, <1>2, EnterTypes
<1>4. TypeOK'
  BY <1>1, <1>3 DEF TypeOK, votingVars
<1>5. \A j \in Sites : view[j] \in Int /\ view'[j] \in Int
  BY <1>3 DEF TypeOK, Views
<1> QED
  BY <1>1, <1>3, <1>4, <1>5

\* What a node finds out from its peers.
LEMMA PeerNumbers ==
    ASSUME NEW f, NEW max \in Nat, f \in [Sites -> 0 .. max], NEW i \in Sites,
           NEW n \in UpToPeers(f, i)
    PROVE  n \in 0 .. max /\ n >= f[i]
<1>1. PICK j \in Sites : n \in f[i] .. f[j]
  BY DEF UpToPeers
<1>2. f[i] \in 0 .. max /\ f[j] \in 0 .. max
  OBVIOUS
<1> QED
  BY <1>1, <1>2

LEMMA CatchUpTypes ==
    ASSUME TypeOK, NEW i \in Sites, CatchUp(i)
    PROVE  /\ TypeOK'
           /\ \A j \in Sites : view'[j] >= view[j] /\ lastSeq'[j] >= lastSeq[j]
           /\ UNCHANGED <<net, requests, executed, restarts>>
<1>1. PICK v \in UpToPeers(view, i), e \in UpToPeers(lastExec, i) :
          /\ Adopt(i, v, e)
          /\ viewChangeSent' = [viewChangeSent EXCEPT ![i] = @ /\ v = view[i]]
          /\ lastSeq' = [lastSeq EXCEPT ![i] = IF e > lastExec[i] THEN Bigger(@, e) ELSE @]
  BY DEF CatchUp
<1>2. UNCHANGED <<net, initiating, collected, asked, requests, hasPending, logs,
                  executed, restarts>>
  BY DEF CatchUp
<1>3. v \in Views /\ v >= view[i] /\ e \in 0 .. MaxSeq
  BY ViewChangeAssumption, PeerNumbers DEF TypeOK, Views
<1>4. /\ view' = [view EXCEPT ![i] = v] /\ lastExec' = [lastExec EXCEPT ![i] = e]
  BY <1>1 DEF Adopt
<1> DEFINE last == IF e > lastExec[i] THEN Bigger(lastSeq[i], e) ELSE lastSeq[i]
<1>5. last \in 0 .. MaxSeq /\ last >= lastSeq[i]
  <2>1. lastSeq[i] \in 0 .. MaxSeq
    BY DEF TypeOK
  <2> QED
    BY <1>3, <2>1 DEF Bigger
<1>6. lastSeq' = [lastSeq EXCEPT ![i] = last]
  BY <1>1
<1> HIDE DEF last
<1>7. viewChangeSent' \in [Sites -> BOOLEAN]
  <2> DEFINE b == viewChangeSent[i] /\ v = view[i]
  <2>1. b \in BOOLEAN
    OBVIOUS
  <2>2. viewChangeSent' = [viewChangeSent EXCEPT ![i] = b]
    BY <1>1
  <2> HIDE DEF b
  <2> QED
    BY <2>1, <2>2 DEF TypeOK
<1>8. TypeOK'
  BY <1>2, <1>3, <1>4, <1>5, <1>6, <1>7 DEF TypeOK
<1>9. \A j \in Sites : view[j] \in Int /\ lastSeq[j] \in Int
  BY DEF TypeOK, Views
<1>10. \A j \in Sites : view'[j] >= view[j] /\ lastSeq'[j] >= lastSeq[j]
  BY <1>3, <1>4, <1>5, <1>6, <1>9 DEF TypeOK
<1> QED
  BY <1>2, <1>8, <1>10

\* An entry made of the log of a node, and what start() makes of entries.
LEMMA ReconstructedTypes ==
    ASSUME NEW i \in Sites, NEW s \in Seqs, NEW tx \in Txs
    PROVE  Reconstructed(i, s, tx) \in RequestStates
<1>1. Voters("PREPARE", i, s, tx) \subseteq Sites /\ Voters("COMMIT", i, s, tx) \subseteq Sites
  BY DEF Voters
<1>2. ReconstructedPhase(i, s, tx) \in {"pre_prepare", "prepare", "commit", "executed"}
  BY DEF ReconstructedPhase
<1> QED
  BY <1>1, <1>2 DEF Reconstructed, RequestStates

LEMMA ResumeTypes ==
    ASSUME TypeOK, NEW i \in Sites,
           NEW found \in [Seqs -> RequestStates \cup {NoRequest}],
           NEW v \in Views, NEW e \in 0 .. MaxSeq, Resume(i, found, v, e)
    PROVE  /\ view' \in [Sites -> Views]
           /\ net' \subseteq Messages
           /\ \A n \in net' \ net : n.type = "COMMIT" /\ n.dst # n.sender
           /\ lastSeq' \in [Sites -> 0 .. MaxSeq]
           /\ requests' \in [Sites -> [Seqs -> RequestStates \cup {NoRequest}]]
           /\ lastExec' \in [Sites -> 0 .. MaxSeq]
           /\ hasPending' \in [Sites -> BOOLEAN]
           /\ logs' \in [Sites -> SUBSET LogEntries]
           /\ executed' \in [Sites -> SUBSET Certs]
<1> DEFINE pending == {s \in Seqs : found[s] # NoRequest /\ s > e}
           resent == {s \in pending : PrepareQuorum(found[s])}
           entry(s) == IF s \in resent THEN AfterCommits(WithOwnCommit(i, found[s])) ELSE found[s]
           entries == [s \in Seqs |-> entry(s)]
           executes == {s \in resent : entries[s].decided}
           waits == pending # {} /\ executes = {}
           commits == UNION {Broadcast("COMMIT", i, v, s, found[s].tx) : s \in resent}
           votes == {LogEntry("COMMIT", s, found[s].tx, i) : s \in resent}
           results == {[seq |-> s, tx |-> found[s].tx] : s \in executes}
<1>1. PICK last \in IF executes = {} THEN {e} ELSE {s \in executes : \A o \in executes : o <= s} :
          Adopt(i, v, last)
  BY DEF Resume
<1>2. /\ requests' = [requests EXCEPT ![i] = entries]
      /\ executed' = [executed EXCEPT ![i] = @ \cup results]
      /\ hasPending' = [hasPending EXCEPT ![i] = waits]
      /\ net' = net \cup commits
      /\ logs' = [logs EXCEPT ![i] = @ \cup votes]
      /\ lastSeq' = [lastSeq EXCEPT ![i] = e]
  BY DEF Resume
<1>3. \A s \in resent : s \in Seqs /\ found[s] \in RequestStates /\ found[s].tx \in Txs
  BY DEF RequestStates
<1>4. \A s \in Seqs : entry(s) \in RequestStates \cup {NoRequest}
  BY <1>3, CountedEntry
<1>5. results \subseteq Certs
  <2>1. executes \subseteq resent
    OBVIOUS
  <2> HIDE DEF executes, resent
  <2> QED
    BY <1>3, <2>1 DEF Certs
<1>6. last \in 0 .. MaxSeq
  <2>1. executes \subseteq Seqs
    OBVIOUS
  <2>2. Seqs \subseteq 0 .. MaxSeq
    BY NumberTypes DEF Seqs
  <2> HIDE DEF executes
  <2> QED
    BY <1>1, <2>1, <2>2
<1>7. votes \subseteq LogEntries
  BY <1>3 DEF LogEntry, LogEntries
<1>8. /\ commits \subseteq Messages
      /\ \A n \in commits : n.type = "COMMIT" /\ n.dst # n.sender
  <2> HIDE DEF resent
  <2> QED
    BY <1>3, BroadcastTypes
<1>9. waits \in BOOLEAN
  OBVIOUS
<1>10. entries \in [Seqs -> RequestStates \cup {NoRequest}]
  <2> HIDE DEF entry
  <2> QED
    BY <1>4
<1> HIDE DEF entries, votes, commits, waits, results
<1> QED
  BY <1>1, <1>2, <1>5, <1>6, <1>7, <1>8, <1>9, <1>10 DEF Adopt, TypeOK

LEMMA RestartTypes ==
    ASSUME TypeOK, NEW i \in Sites, Restart(i)
    PROVE  /\ TypeOK'
           /\ restarts' > 0
           /\ \A n \in net' \ net : n.type = "COMMIT" /\ n.dst # n.sender
<1> DEFINE kept == {s \in Seqs : s > lastExec[i] /\ LoggedProposals(i, s) # {}}
<1>1. PICK chosen \in [Seqs -> Txs], v \in UpToPeers(view, i), e \in UpToPeers(lastExec, i) :
          Resume(i, [s \in Seqs |-> IF s \in kept THEN Reconstructed(i, s, chosen[s])
                                    ELSE NoRequest], v, e)
  BY DEF Restart
<1>2. /\ restarts < MaxRestarts /\ restarts' = restarts + 1
      /\ viewChangeSent' = [viewChangeSent EXCEPT ![i] = FALSE]
      /\ initiating' = [initiating EXCEPT ![i] = Idle]
      /\ collected' = [collected EXCEPT ![i] = {}]
      /\ asked' = asked
  BY DEF Restart
<1> DEFINE found == [s \in Seqs |-> IF s \in kept THEN Reconstructed(i, s, chosen[s])
                                    ELSE NoRequest]
<1>3. found \in [Seqs -> RequestStates \cup {NoRequest}]
  BY ReconstructedTypes
<1>4. v \in Views /\ e \in 0 .. MaxSeq
  BY ViewChangeAssumption, PeerNumbers DEF TypeOK, Views
<1>5. Resume(i, found, v, e)
  BY <1>1
<1> HIDE DEF found
<1>6. /\ view' \in [Sites -> Views]
      /\ net' \subseteq Messages
      /\ \A n \in net' \ net : n.type = "COMMIT" /\ n.dst # n.sender
      /\ lastSeq' \in [Sites -> 0 .. MaxSeq]
      /\ requests' \in [Sites -> [Seqs -> RequestStates \cup {NoRequest}]]
      /\ lastExec' \in [Sites -> 0 .. MaxSeq]
      /\ hasPending' \in [Sites -> BOOLEAN]
      /\ logs' \in [Sites -> SUBSET LogEntries]
      /\ executed' \in [Sites -> SUBSET Certs]
  BY <1>3, <1>4, <1>5, ResumeTypes
<1>7. restarts' \in 0 .. MaxRestarts /\ restarts' > 0
  BY <1>2, ViewChangeAssumption DEF TypeOK
<1>8. TypeOK'
  BY <1>2, <1>6, <1>7, NumberTypes DEF TypeOK
<1> QED
  BY <1>6, <1>7, <1>8

LEMMA InitTypes == Init => TypeOK
BY NumberTypes, ViewChangeAssumption DEF Init, TypeOK

LEMMA StepTypes == TypeOK /\ [Next]_vars => TypeOK'
<1> SUFFICES ASSUME TypeOK, [Next]_vars
             PROVE  TypeOK'
  OBVIOUS
<1>1. CASE UNCHANGED vars
  BY <1>1 DEF vars, viewVars, votingVars, TypeOK
<1>2. ASSUME NEW i \in Sites, NEW q \in Requests, HandleClientRequest(i, q)
      PROVE  TypeOK'
  BY <1>2, RequestTypes
<1>3. ASSUME NEW i \in Sites, NEW m \in net, Handle(i, m)
      PROVE  TypeOK'
  <2>1. CASE HandlePrepare(i, m) \/ HandleCommit(i, m)
    <3>1. PICK after, commit :
             /\ Becomes(i, m, after)
             /\ commit \in {{}, Broadcast("COMMIT", i, view[i], m.seq, m.tx)}
             /\ Count(i, m, after, commit)
      BY <2>1, VoteTypes
    <3>2. after \in RequestStates /\ m.type \in {"PREPARE", "COMMIT"}
      BY <2>1, <3>1, VoteTypes DEF Becomes
    <3> QED
      BY <3>1, <3>2, CountTypes
  <2> QED
    BY <1>3, <2>1, PrePrepareTypes, AskingTypes, ViewChangeTypes, NewViewTypes DEF Handle
<1>4. ASSUME NEW i \in Sites,
             CheckViewTimeout(i) \/ SetViewChangeSent(i) \/ BroadcastViewChange(i)
      PROVE  TypeOK'
  BY <1>4, AskingTypes
<1>5. ASSUME NEW i \in Sites, CatchUp(i) \/ Restart(i)
      PROVE  TypeOK'
  BY <1>5, CatchUpTypes, RestartTypes
<1> QED
  BY <1>1, <1>2, <1>3, <1>4, <1>5 DEF Next

\* Whatever messages, timers, peers and restarts do to a node (view_change.py,
\* pbft.py), its state and its messages are of their kind.
THEOREM TypeCorrect == Spec => []TypeOK
BY InitTypes, StepTypes, PTL DEF Spec

-----------------------------------------------------------------------------
(* Agreement.  A leader of a later view may propose over an entry that it   *)
(* has voted for, so such a leader stands behind nothing it has sent.  As   *)
(* long as no more than F views have followed the first there are at most F *)
(* such nodes, and any two quorums still share a node that stands by its    *)
(* vote.                                                                    *)

LaterLeaders == {get_leader(v) : v \in 1 .. F}

Holds(i, s, tx) == Known(i, s) /\ requests[i][s].tx = tx

\* Those who may be counted for a request.
Backers(s, tx) == {i \in Sites : i \in LaterLeaders \/ Holds(i, s, tx)}

\* No node has restarted and at most F views have followed the first.
Early == restarts = 0 /\ \A i \in Sites : view[i] <= F

\* No node votes to itself, and a VIEW-CHANGE goes to the leader of its view.
Addressed ==
    \A m \in net :
        /\ m.type \in {"PRE_PREPARE", "PREPARE", "COMMIT"} => m.dst # m.sender
        /\ m.type = "VIEW_CHANGE" => m.dst = get_leader(m.view)

\* The first leader proposes at numbers it has no entry for.
FirstLeaderCounts ==
    \A i \in Sites :
        view[i] = 0 /\ get_leader(0) = i =>
            \A s \in Seqs : Known(i, s) => s <= lastSeq[i]

\* Who has sent COMMIT, and whose COMMIT is counted, still holds the request.
SteadyVotes ==
    \A i \in Sites \ LaterLeaders :
        /\ \A m \in net : m.type = "COMMIT" /\ m.sender = i => Holds(i, m.seq, m.tx)
        /\ \A j \in Sites, s \in Seqs :
              Known(j, s) /\ i \in requests[j][s].commits => Holds(i, s, requests[j][s].tx)

ExecutedBacked ==
    \A j \in Sites : \A a \in executed[j] : Cardinality(Backers(a.seq, a.tx)) >= Quorum

AgreementInv ==
    /\ TypeOK
    /\ Addressed
    /\ Early => FirstLeaderCounts /\ SteadyVotes /\ ExecutedBacked

\* The three ways a step treats entries and votes: it leaves them alone, node i
\* writes proposals into entries, or node i counts a vote.
NoNewCommits == \A n \in net' \ net : n.type # "COMMIT"

Waits == UNCHANGED <<requests, executed>> /\ NoNewCommits

Writes(i) ==
    /\ \A j \in Sites \ {i} : requests'[j] = requests[j]
    /\ \A s \in Seqs :
          \/ requests'[i][s] = requests[i][s]
          \/ /\ i \in LaterLeaders \/ ~Known(i, s)
             /\ view'[i] = 0 /\ get_leader(0) = i => s <= lastSeq'[i]
             /\ \E tx \in Txs : requests'[i][s] = Proposed(i, tx)
    /\ UNCHANGED executed /\ NoNewCommits

Counts(i) ==
    \E m \in net :
        /\ m.seq \in Seqs /\ Holds(i, m.seq, m.tx)
        /\ \A j \in Sites \ {i} : requests'[j] = requests[j] /\ executed'[j] = executed[j]
        /\ \A s \in Seqs \ {m.seq} : requests'[i][s] = requests[i][s]
        /\ requests'[i][m.seq] # NoRequest /\ requests'[i][m.seq].tx = m.tx
        /\ requests'[i][m.seq].commits \subseteq
              requests[i][m.seq].commits \cup {i} \cup {j \in {m.sender} : m.type = "COMMIT"}
        /\ \A n \in net' \ net : n.sender = i /\ n.seq = m.seq /\ n.tx = m.tx
        /\ \/ executed'[i] = executed[i]
           \/ /\ executed'[i] = executed[i] \cup {[seq |-> m.seq, tx |-> m.tx]}
              /\ Cardinality(requests'[i][m.seq].commits) >= Quorum

Forward ==
    /\ restarts' = restarts
    /\ \A j \in Sites :
          /\ view'[j] >= view[j]
          /\ view'[j] = 0 => lastSeq'[j] >= lastSeq[j]

-----------------------------------------------------------------------------
(* Quorums *)

LEMMA FewLaterLeaders ==
    IsFiniteSet(LaterLeaders) /\ Cardinality(LaterLeaders) <= F
<1>1. F \in Nat
  BY ViewChangeAssumption
<1>2. IsFiniteSet(1 .. F) /\ Cardinality(1 .. F) = F
  BY <1>1, FS_Interval
<1> DEFINE f == [v \in 1 .. F |-> get_leader(v)]
<1>3. f \in Surjection(1 .. F, LaterLeaders)
  BY DEF Surjection, LaterLeaders
<1> HIDE DEF f
<1> QED
  BY <1>2, <1>3, FS_Surjection

LEMMA QuorumsMeet ==
    ASSUME NEW A \in SUBSET Sites, NEW B \in SUBSET Sites,
           Cardinality(A) >= Quorum, Cardinality(B) >= Quorum
    PROVE  \E i \in A \cap B : i \notin LaterLeaders
<1>1. F \in Nat /\ IsFiniteSet(Sites) /\ Cardinality(Sites) = 3 * F + 1
  BY ViewChangeAssumption
<1>2. IsFiniteSet(A) /\ IsFiniteSet(B) /\ IsFiniteSet(A \cup B) /\ IsFiniteSet(A \cap B)
  BY <1>1, FS_Subset, FS_Union, FS_Intersection
<1>3. Cardinality(A \cup B) = Cardinality(A) + Cardinality(B) - Cardinality(A \cap B)
  BY <1>2, FS_Union
<1>4. Cardinality(A \cup B) <= Cardinality(Sites)
  BY <1>1, FS_Subset
<1>5. /\ Cardinality(A) \in Nat /\ Cardinality(B) \in Nat /\ Cardinality(A \cap B) \in Nat
      /\ Cardinality(A \cup B) \in Nat /\ Cardinality(LaterLeaders) \in Nat
  BY <1>2, FewLaterLeaders, FS_CardinalityType
<1>6. Cardinality(A \cap B) > F
  BY <1>1, <1>3, <1>4, <1>5 DEF Quorum
<1>7. CASE A \cap B \subseteq LaterLeaders
  <2>1. Cardinality(A \cap B) <= Cardinality(LaterLeaders)
    BY <1>7, FewLaterLeaders, FS_Subset
  <2> QED
    BY <1>1, <1>5, <1>6, <2>1, FewLaterLeaders
<1> QED
  BY <1>7

LEMMA BackersAgree ==
    ASSUME NEW s, NEW a, NEW b,
           Cardinality(Backers(s, a)) >= Quorum, Cardinality(Backers(s, b)) >= Quorum
    PROVE  a = b
<1>1. Backers(s, a) \in SUBSET Sites /\ Backers(s, b) \in SUBSET Sites
  BY DEF Backers
<1>2. PICK i \in Backers(s, a) \cap Backers(s, b) : i \notin LaterLeaders
  BY <1>1, QuorumsMeet
<1> QED
  BY <1>2 DEF Backers, Holds

LEMMA LargerQuorum ==
    ASSUME NEW A \in SUBSET Sites, NEW B \in SUBSET A, Cardinality(B) >= Quorum
    PROVE  Cardinality(A) >= Quorum
<1>1. IsFiniteSet(A) /\ IsFiniteSet(B) /\ Cardinality(B) <= Cardinality(A)
  BY ViewChangeAssumption, FS_Subset
<1>2. Cardinality(A) \in Nat /\ Cardinality(B) \in Nat /\ Quorum \in Nat
  BY <1>1, FS_CardinalityType, ViewChangeAssumption DEF Quorum
<1> QED
  BY <1>1, <1>2

-----------------------------------------------------------------------------
(* Each action is a step of one of the three kinds *)

\* Counting a vote: what the votes of the entry become, and who executes.
LEMMA VoteCounts ==
    ASSUME TypeOK, NEW i \in Sites, NEW m \in net,
           HandlePrepare(i, m) \/ HandleCommit(i, m)
    PROVE  /\ Counts(i)
           /\ UNCHANGED <<view, lastSeq, restarts>>
           /\ \A n \in net' \ net : n.type = "COMMIT" /\ n.dst # n.sender
<1>1. /\ m \in Votes /\ m.type \in {"PREPARE", "COMMIT"}
      /\ Known(i, m.seq) /\ requests[i][m.seq].tx = m.tx
  BY VoteTypes
<1>2. PICK after, commit :
         /\ Becomes(i, m, after)
         /\ commit \in {{}, Broadcast("COMMIT", i, view[i], m.seq, m.tx)}
         /\ Count(i, m, after, commit)
  BY VoteTypes
<1>3. m.seq \in Seqs
  BY <1>1 DEF Votes
<1>4. /\ after \in RequestStates /\ after.tx = m.tx
      /\ after.commits \subseteq requests[i][m.seq].commits \cup {i}
            \cup {j \in {m.sender} : m.type = "COMMIT"}
      /\ after.decided => requests[i][m.seq].decided \/ Cardinality(after.commits) >= Quorum
  BY <1>2 DEF Becomes
<1>5. CountWrites(i, m, after)
  BY ONLY TypeOK, i \in Sites, m \in net, <1>1, <1>2, <1>4, CountTypes
<1>6. UNCHANGED <<view, lastSeq, restarts>>
  BY <1>2 DEF Count, viewVars
<1>7. after # NoRequest
  BY <1>4, ViewChangeAssumption
<1>8. Counts(i)
  BY <1>1, <1>2, <1>3, <1>4, <1>5, <1>7 DEF Counts, Holds, CountWrites
<1> QED
  BY <1>5, <1>6, <1>8 DEF CountWrites

\* A client request at the leader: of the first view, and then for a number
\* without an entry, or of a later one.
LEMMA RequestWrites ==
    ASSUME TypeOK, Early, FirstLeaderCounts,
           NEW i \in Sites, NEW q \in Requests, HandleClientRequest(i, q)
    PROVE  Writes(i)
<1> DEFINE next == lastSeq[i] + 1
           O == {[seq |-> next, tx |-> q]}
<1>1. /\ get_leader(view[i]) = i /\ Propose(i, view[i], O)
      /\ net' = net \cup ProposalMessages(i, view[i], O)
      /\ lastSeq' = [lastSeq EXCEPT ![i] = @ + 1]
      /\ view' = view /\ executed' = executed
  BY DEF HandleClientRequest, IsLeader, viewVars
<1>2. O \in SUBSET Certs /\ view[i] \in Views /\ lastSeq[i] \in Nat
  BY RequestTypes DEF TypeOK
<1>3. /\ \A j \in Sites \ {i} : requests'[j] = requests[j]
      /\ \A s \in Seqs :
            \/ requests'[i][s] = requests[i][s]
            \/ \E c \in O : c.seq = s /\ requests'[i][s] = Proposed(i, c.tx)
  BY <1>1, <1>2, ProposeTypes
<1>4. \A n \in ProposalMessages(i, view[i], O) : n.type \in {"PRE_PREPARE", "PREPARE"}
  BY <1>2, ProposalTypes
<1>5. lastSeq'[i] = next /\ view'[i] = view[i]
  BY <1>1 DEF TypeOK
<1>6. i \in LaterLeaders \/ (view[i] = 0 /\ get_leader(0) = i)
  <2>1. view[i] \in Nat /\ view[i] <= F /\ F \in Nat
    BY <1>2, ViewChangeAssumption DEF Early, Views
  <2>2. view[i] = 0 \/ view[i] \in 1 .. F
    BY <2>1
  <2> QED
    BY <1>1, <2>2 DEF LaterLeaders
<1>7. i \in LaterLeaders \/ ~Known(i, next)
  <2>1. ASSUME next \in Seqs, Known(i, next), view[i] = 0, get_leader(0) = i
        PROVE  FALSE
    <3>1. next <= lastSeq[i]
      BY <2>1 DEF FirstLeaderCounts
    <3> QED
      BY <1>2, <3>1
  <2>2. next \in Seqs
    BY <1>2 DEF Certs
  <2> QED
    BY <1>6, <2>1, <2>2
<1>8. q \in Txs /\ next <= next
  BY <1>2, NumberTypes
<1>9. NoNewCommits
  BY <1>1, <1>4 DEF NoNewCommits
<1>10. \A c \in O : c.seq = next /\ c.tx = q
  OBVIOUS
<1> HIDE DEF O, next
<1> QED
  BY <1>1, <1>3, <1>5, <1>7, <1>8, <1>9, <1>10 DEF Writes

LEMMA PrePrepareWrites ==
    ASSUME TypeOK, Addressed, NEW i \in Sites, NEW m \in net, m.dst = i,
           HandlePrePrepare(i, m)
    PROVE  Writes(i)
<1>1. /\ m.type = "PRE_PREPARE" /\ m.sender = get_leader(m.view) /\ m.view = view[i]
      /\ ~Known(i, m.seq) /\ view' = view /\ executed' = executed
  BY DEF HandlePrePrepare, FromLeader, NewProposal, viewVars
<1>2. /\ m.seq \in Seqs /\ m.tx \in Txs
      /\ \A j \in Sites \ {i} : requests'[j] = requests[j]
      /\ \A s \in Seqs \ {m.seq} : requests'[i][s] = requests[i][s]
      /\ requests'[i][m.seq] = Proposed(i, m.tx)
      /\ \A n \in net' \ net : n.type = "PREPARE"
  BY PrePrepareTypes
<1>3. ~(view'[i] = 0 /\ get_leader(0) = i)
  BY <1>1 DEF Addressed
<1> QED
  BY <1>1, <1>2, <1>3 DEF Writes, NoNewCommits

LEMMA ViewChangeWrites ==
    ASSUME TypeOK, Addressed, Early', NEW i \in Sites, NEW m \in net, m.dst = i,
           HandleViewChange(i, m)
    PROVE  Waits \/ Writes(i)
<1>1. CASE UNCHANGED <<view, votingVars, restarts>> /\ net' \subseteq net
  BY <1>1 DEF Waits, NoNewCommits, votingVars
<1>2. CASE ~(UNCHANGED <<view, votingVars, restarts>> /\ net' \subseteq net)
  <2>1. /\ view'[i] = m.view /\ m.view > view[i]
        /\ \A j \in Sites \ {i} : requests'[j] = requests[j]
        /\ \A s \in Seqs :
              \/ requests'[i][s] = requests[i][s]
              \/ \E tx \in Txs : requests'[i][s] = Proposed(i, tx)
        /\ executed' = executed
        /\ \A n \in net' \ net : n.type \in {"NEW_VIEW", "PRE_PREPARE", "PREPARE"}
        /\ m.type = "VIEW_CHANGE" /\ m.view \in Views
    BY <1>2, ViewChangeTypes
  <2>2. m.view \in 1 .. F
    <3>1. m.view <= F
      BY <2>1 DEF Early
    <3>2. view[i] \in Nat /\ m.view \in Nat /\ F \in Nat
      BY <2>1, ViewChangeAssumption DEF TypeOK, Views
    <3> QED
      BY <2>1, <3>1, <3>2
  <2>3. i \in LaterLeaders /\ view'[i] # 0
    BY <2>1, <2>2 DEF Addressed, LaterLeaders
  <2>4. NoNewCommits
    BY <2>1 DEF NoNewCommits
  <2> QED
    BY <2>1, <2>3, <2>4 DEF Writes
<1> QED
  BY <1>1, <1>2

\* Views and, in the first view, the counter of numbers only grow while no node
\* restarts.
LEMMA StepForward ==
    ASSUME TypeOK, [Next]_vars
    PROVE  Forward \/ restarts' > 0
<1>1. \A j \in Sites : view[j] \in Int /\ lastSeq[j] \in Int /\ view[j] >= 0
  BY DEF TypeOK, Views
<1>2. ASSUME UNCHANGED <<view, lastSeq, restarts>>
      PROVE  Forward
  BY <1>1, <1>2 DEF Forward
<1>3. CASE UNCHANGED vars
  BY <1>2, <1>3 DEF vars, viewVars, votingVars
<1>4. ASSUME NEW i \in Sites, NEW q \in Requests, HandleClientRequest(i, q)
      PROVE  Forward
  <2>1. /\ lastSeq' = [lastSeq EXCEPT ![i] = @ + 1]
        /\ view' = view /\ restarts' = restarts
    BY <1>4 DEF HandleClientRequest, viewVars
  <2> QED
    BY <1>1, <2>1 DEF Forward, TypeOK
<1>5. ASSUME NEW i \in Sites, NEW m \in net, Handle(i, m)
      PROVE  Forward
  <2>1. CASE HandlePrePrepare(i, m)
    <3>1. UNCHANGED <<view, lastSeq, restarts>>
      BY <2>1 DEF HandlePrePrepare, viewVars
    <3> QED
      BY <1>2, <3>1
  <2>2. CASE HandlePrepare(i, m) \/ HandleCommit(i, m)
    BY <1>1, <2>2, VoteCounts DEF Forward
  <2>3. CASE HandleEquivocation(i, m)
    BY <1>1, <2>3, AskingTypes DEF Forward, votingVars
  <2>4. CASE HandleViewChange(i, m)
    <3>1. m.view \in Int /\ (view'[i] = m.view /\ m.view > view[i] => view'[i] # 0)
      BY <1>1, <2>4, ViewChangeTypes DEF Views
    <3>2. CASE UNCHANGED <<view, votingVars, restarts>>
      BY <1>1, <3>2 DEF Forward, votingVars
    <3>3. CASE ~UNCHANGED <<view, votingVars, restarts>>
      <4>1. /\ view'[i] = m.view /\ m.view > view[i]
            /\ \A j \in Sites \ {i} : view'[j] = view[j] /\ lastSeq'[j] = lastSeq[j]
            /\ restarts' = restarts
        BY <2>4, <3>3, ViewChangeTypes
      <4> QED
        BY <1>1, <3>1, <4>1 DEF Forward
    <3> QED
      BY <3>2, <3>3
  <2>5. CASE HandleNewView(i, m)
    BY <1>1, <2>5, NewViewTypes DEF Forward, votingVars
  <2> QED
    BY <1>5, <2>1, <2>2, <2>3, <2>4, <2>5 DEF Handle
<1>6. ASSUME NEW i \in Sites,
             CheckViewTimeout(i) \/ SetViewChangeSent(i) \/ BroadcastViewChange(i)
      PROVE  Forward
  BY <1>1, <1>6, AskingTypes DEF Forward, votingVars
<1>7. ASSUME NEW i \in Sites, CatchUp(i)
      PROVE  Forward
  BY <1>7, CatchUpTypes DEF Forward
<1>8. ASSUME NEW i \in Sites, Restart(i)
      PROVE  restarts' > 0
  BY <1>8, RestartTypes
<1> QED
  BY <1>3, <1>4, <1>5, <1>6, <1>7, <1>8 DEF Next

LEMMA StaysEarly ==
    ASSUME TypeOK, [Next]_vars, Early'
    PROVE  Early /\ Forward
<1>1. Forward
  BY StepForward DEF Early
<1>2. ASSUME NEW j \in Sites
      PROVE  view[j] <= F
  <2>1. view'[j] <= F /\ view'[j] >= view[j]
    BY <1>1 DEF Early, Forward
  <2>2. TypeOK /\ TypeOK'
    BY StepTypes
  <2>3. view[j] \in Int /\ view'[j] \in Int /\ F \in Int
    BY <2>2, ViewChangeAssumption DEF TypeOK, Views
  <2> QED
    BY <2>1, <2>3
<1> QED
  BY <1>1, <1>2 DEF Early, Forward

LEMMA StepKinds ==
    ASSUME AgreementInv, [Next]_vars, Early'
    PROVE  Waits \/ \E i \in Sites : Writes(i) \/ Counts(i)
<1>1. /\ TypeOK /\ Addressed /\ Early /\ FirstLeaderCounts /\ Forward
  BY StaysEarly DEF AgreementInv
<1>2. CASE UNCHANGED vars
  BY <1>2 DEF vars, votingVars, Waits, NoNewCommits
<1>3. ASSUME NEW i \in Sites, NEW q \in Requests, HandleClientRequest(i, q)
      PROVE  Writes(i)
  BY <1>1, <1>3, RequestWrites
<1>4. ASSUME NEW i \in Sites, NEW m \in net, m.dst = i, Handle(i, m)
      PROVE  Waits \/ Writes(i) \/ Counts(i)
  <2>1. CASE HandleEquivocation(i, m)
    BY <1>1, <2>1, AskingTypes DEF Waits, NoNewCommits, votingVars
  <2>2. CASE HandleNewView(i, m)
    BY <1>1, <2>2, NewViewTypes DEF Waits, NoNewCommits, votingVars
  <2> QED
    BY <1>1, <1>4, <2>1, <2>2, PrePrepareWrites, VoteCounts, ViewChangeWrites DEF Handle
<1>5. ASSUME NEW i \in Sites,
             CheckViewTimeout(i) \/ SetViewChangeSent(i) \/ BroadcastViewChange(i)
      PROVE  Waits
  BY <1>1, <1>5, AskingTypes DEF Waits, NoNewCommits, votingVars
<1>6. ASSUME NEW i \in Sites, CatchUp(i)
      PROVE  Waits
  BY <1>1, <1>6, CatchUpTypes DEF Waits, NoNewCommits
<1>7. ASSUME NEW i \in Sites, Restart(i)
      PROVE  FALSE
  BY <1>1, <1>7, RestartTypes DEF Early
<1> QED
  BY <1>2, <1>3, <1>4, <1>5, <1>6, <1>7 DEF Next

-----------------------------------------------------------------------------
(* The invariant is inductive *)

LEMMA AddressedStays ==
    ASSUME TypeOK, Addressed, [Next]_vars
    PROVE  Addressed'
<1> DEFINE Good(n) == /\ n.type \in {"PRE_PREPARE", "PREPARE", "COMMIT"} => n.dst # n.sender
                      /\ n.type = "VIEW_CHANGE" => n.dst = get_leader(n.view)
<1>1. SUFFICES ASSUME NEW n \in net' \ net
               PROVE  Good(n)
  BY DEF Addressed
<1>2. CASE UNCHANGED vars
  BY <1>2 DEF vars
<1>3. ASSUME NEW i \in Sites, NEW q \in Requests, HandleClientRequest(i, q)
      PROVE  Good(n)
  <2> DEFINE O == {[seq |-> lastSeq[i] + 1, tx |-> q]}
  <2>1. net' = net \cup ProposalMessages(i, view[i], O)
    BY <1>3 DEF HandleClientRequest
  <2>2. O \in SUBSET Certs /\ view[i] \in Views
    BY <1>3, RequestTypes DEF TypeOK
  <2> HIDE DEF O
  <2> QED
    BY <2>1, <2>2, ProposalTypes
<1>4. ASSUME NEW i \in Sites, NEW m \in net, Handle(i, m)
      PROVE  Good(n)
  <2>1. CASE HandlePrePrepare(i, m)
    BY <2>1, PrePrepareTypes
  <2>2. CASE HandlePrepare(i, m) \/ HandleCommit(i, m)
    BY <2>2, VoteCounts
  <2>3. CASE HandleEquivocation(i, m)
    BY <2>3, AskingTypes
  <2>4. CASE HandleViewChange(i, m)
    BY <2>4, ViewChangeTypes
  <2>5. CASE HandleNewView(i, m)
    BY <2>5, NewViewTypes
  <2> QED
    BY <1>4, <2>1, <2>2, <2>3, <2>4, <2>5 DEF Handle
<1>5. ASSUME NEW i \in Sites,
             CheckViewTimeout(i) \/ SetViewChangeSent(i) \/ BroadcastViewChange(i)
      PROVE  Good(n)
  BY <1>5, AskingTypes
<1>6. ASSUME NEW i \in Sites, CatchUp(i) \/ Restart(i)
      PROVE  Good(n)
  BY <1>6, CatchUpTypes, RestartTypes
<1> QED
  BY <1>2, <1>3, <1>4, <1>5, <1>6 DEF Next

\* Without a restart only a later leader proposes over its entry.
LEMMA HoldersStay ==
    ASSUME Waits \/ \E i \in Sites : Writes(i) \/ Counts(i),
           NEW j \in Sites \ LaterLeaders, NEW s \in Seqs, NEW tx, Holds(j, s, tx)
    PROVE  Holds(j, s, tx)'
<1>1. CASE Waits
  BY <1>1 DEF Waits, Holds, Known
<1>2. ASSUME NEW i \in Sites, Writes(i)
      PROVE  Holds(j, s, tx)'
  BY <1>2 DEF Writes, Holds, Known
<1>3. ASSUME NEW i \in Sites, Counts(i)
      PROVE  Holds(j, s, tx)'
  BY <1>3 DEF Counts, Holds, Known
<1> QED
  BY <1>1, <1>2, <1>3

LEMMA FirstLeaderStays ==
    ASSUME TypeOK, TypeOK', Forward, FirstLeaderCounts,
           Waits \/ \E i \in Sites : Writes(i) \/ Counts(i)
    PROVE  FirstLeaderCounts'
<1>1. SUFFICES ASSUME NEW j \in Sites, view'[j] = 0, get_leader(0) = j,
                      NEW s \in Seqs, Known(j, s)'
               PROVE  s <= lastSeq'[j]
  BY DEF FirstLeaderCounts, get_leader
<1>2. /\ view[j] \in Int /\ view[j] >= 0 /\ lastSeq[j] \in Int /\ lastSeq'[j] \in Int
      /\ s \in Int
  BY DEF TypeOK, Views, Seqs
<1>3. view'[j] >= view[j] /\ lastSeq'[j] >= lastSeq[j]
  BY <1>1 DEF Forward
<1>4. view[j] = 0
  BY <1>1, <1>2, <1>3
<1>5. CASE Known(j, s)
  <2>1. s <= lastSeq[j]
    BY <1>1, <1>4, <1>5 DEF FirstLeaderCounts
  <2> QED
    BY <1>2, <1>3, <2>1
<1>6. CASE ~Known(j, s)
  <2>1. ASSUME NEW i \in Sites, Writes(i)
        PROVE  s <= lastSeq'[j]
    BY <1>1, <1>6, <2>1 DEF Writes, Known
  <2>2. ~Waits /\ ~ \E i \in Sites : Counts(i)
    BY <1>1, <1>6 DEF Waits, Counts, Holds, Known
  <2> QED
    BY <2>1, <2>2
<1> QED
  BY <1>5, <1>6

LEMMA SteadyVotesStay ==
    ASSUME TypeOK, SteadyVotes, Waits \/ \E i \in Sites : Writes(i) \/ Counts(i)
    PROVE  SteadyVotes'
<1>1. SUFFICES ASSUME NEW h \in Sites \ LaterLeaders
               PROVE  /\ \A m \in net' : m.type = "COMMIT" /\ m.sender = h =>
                            Holds(h, m.seq, m.tx)'
                      /\ \A j \in Sites, s \in Seqs :
                            Known(j, s)' /\ h \in requests'[j][s].commits =>
                                Holds(h, s, requests[j][s].tx)'
  BY DEF SteadyVotes, LaterLeaders, get_leader
<1>2. ASSUME NEW m \in net', m.type = "COMMIT", m.sender = h
      PROVE  Holds(h, m.seq, m.tx)'
  <2>1. CASE m \in net
    <3>1. m.seq \in Seqs /\ Holds(h, m.seq, m.tx)
      BY <1>2, <2>1, MessageKinds DEF SteadyVotes, TypeOK, Votes
    <3> QED
      BY <3>1, HoldersStay
  <2>2. CASE m \notin net
    <3>1. PICK i \in Sites : Counts(i)
      BY <1>2, <2>2 DEF Waits, Writes, NoNewCommits
    <3> QED
      BY <1>2, <2>2, <3>1 DEF Counts, Holds, Known
  <2> QED
    BY <2>1, <2>2
<1>3. ASSUME NEW j \in Sites, NEW s \in Seqs, Known(j, s)', h \in requests'[j][s].commits
      PROVE  Holds(h, s, requests[j][s].tx)'
  <2>1. ASSUME requests'[j][s] = requests[j][s]
        PROVE  Holds(h, s, requests[j][s].tx)'
    <3>1. Holds(h, s, requests[j][s].tx)
      BY <1>3, <2>1 DEF SteadyVotes, Known
    <3>2. PICK tx : tx = requests[j][s].tx
      OBVIOUS
    <3>3. Holds(h, s, tx) /\ Holds(h, s, tx)'
      BY <3>1, <3>2, HoldersStay
    <3> QED
      BY <2>1, <3>2, <3>3 DEF Holds, Known
  <2>2. CASE Waits
    BY <2>1, <2>2 DEF Waits
  <2>3. ASSUME NEW i \in Sites, Writes(i)
        PROVE  Holds(h, s, requests[j][s].tx)'
    <3>1. \A tx \in Txs : requests'[j][s] # Proposed(i, tx)
      BY <1>3, ProposedTypes
    <3> QED
      BY <2>1, <2>3, <3>1 DEF Writes
  <2>4. ASSUME NEW i \in Sites, Counts(i)
        PROVE  Holds(h, s, requests[j][s].tx)'
    <3>1. PICK m \in net :
            /\ m.seq \in Seqs /\ Holds(i, m.seq, m.tx)
            /\ \A o \in Sites \ {i} : requests'[o] = requests[o]
            /\ \A t \in Seqs \ {m.seq} : requests'[i][t] = requests[i][t]
            /\ requests'[i][m.seq] # NoRequest /\ requests'[i][m.seq].tx = m.tx
            /\ requests'[i][m.seq].commits \subseteq
                  requests[i][m.seq].commits \cup {i} \cup {o \in {m.sender} : m.type = "COMMIT"}
      BY <2>4 DEF Counts
    <3>2. CASE j # i \/ s # m.seq
      BY <2>1, <3>1, <3>2
    <3>3. CASE j = i /\ s = m.seq
      <4>1. Holds(h, s, m.tx) \/ h = i
        BY <1>3, <3>1, <3>3 DEF SteadyVotes, Holds
      <4>2. Holds(h, s, m.tx)'
        BY <3>1, <3>3, <4>1, HoldersStay DEF Holds, Known
      <4> QED
        BY <3>1, <3>3, <4>2
    <3> QED
      BY <3>2, <3>3
  <2> QED
    BY <2>2, <2>3, <2>4
<1> QED
  BY <1>2, <1>3

LEMMA ExecutedBackedStays ==
    ASSUME TypeOK, SteadyVotes', ExecutedBacked, TypeOK',
           Waits \/ \E i \in Sites : Writes(i) \/ Counts(i)
    PROVE  ExecutedBacked'
<1>1. SUFFICES ASSUME NEW j \in Sites, NEW a \in executed'[j]
               PROVE  Cardinality(Backers(a.seq, a.tx)') >= Quorum
  BY DEF ExecutedBacked, Quorum
<1>2. a.seq \in Seqs /\ Backers(a.seq, a.tx)' \in SUBSET Sites
  BY DEF TypeOK, Certs, Backers
<1>3. CASE a \in executed[j]
  <2>1. Backers(a.seq, a.tx) \subseteq Backers(a.seq, a.tx)'
    BY <1>2, HoldersStay DEF Backers, LaterLeaders, get_leader
  <2>2. Cardinality(Backers(a.seq, a.tx)) >= Quorum
    BY <1>3 DEF ExecutedBacked
  <2> QED
    BY <1>2, <2>1, <2>2, LargerQuorum
<1>4. CASE a \notin executed[j]
  <2>1. PICK i \in Sites : Counts(i)
    BY <1>4 DEF Waits, Writes
  <2>2. PICK m \in net :
          /\ m.seq \in Seqs
          /\ \A o \in Sites \ {i} : executed'[o] = executed[o]
          /\ requests'[i][m.seq] # NoRequest /\ requests'[i][m.seq].tx = m.tx
          /\ \/ executed'[i] = executed[i]
             \/ /\ executed'[i] = executed[i] \cup {[seq |-> m.seq, tx |-> m.tx]}
                /\ Cardinality(requests'[i][m.seq].commits) >= Quorum
    BY <2>1 DEF Counts
  <2>3. /\ j = i /\ a = [seq |-> m.seq, tx |-> m.tx]
        /\ Cardinality(requests'[i][m.seq].commits) >= Quorum
    BY <1>1, <1>4, <2>2
  <2>4. requests'[i][m.seq].commits \subseteq Sites
    <3>1. requests'[i][m.seq] \in RequestStates
      BY <2>2 DEF TypeOK
    <3> QED
      BY <3>1 DEF RequestStates
  <2>5. requests'[i][m.seq].commits \subseteq Backers(m.seq, m.tx)'
    BY <2>2, <2>4 DEF SteadyVotes, Backers, Known
  <2>6. a.seq = m.seq /\ a.tx = m.tx
    BY <2>3
  <2> QED
    BY <1>2, <2>3, <2>5, <2>6, LargerQuorum
<1> QED
  BY <1>3, <1>4

LEMMA InitAgreement == Init => AgreementInv
<1> SUFFICES ASSUME Init
             PROVE  AgreementInv
  OBVIOUS
<1>1. TypeOK
  BY InitTypes
<1>2. /\ net = {} /\ executed = [i \in Sites |-> {}]
      /\ requests = [i \in Sites |-> [s \in Seqs |-> NoRequest]]
  BY DEF Init
<1>3. Addressed
  BY <1>2 DEF Addressed
<1>4. \A i \in Sites, s \in Seqs : ~Known(i, s)
  BY <1>2 DEF Known
<1> QED
  BY <1>1, <1>2, <1>3, <1>4
  DEF AgreementInv, FirstLeaderCounts, SteadyVotes, ExecutedBacked

LEMMA StepAgreement == AgreementInv /\ [Next]_vars => AgreementInv'
<1> SUFFICES ASSUME AgreementInv, [Next]_vars
             PROVE  AgreementInv'
  OBVIOUS
<1>1. TypeOK /\ TypeOK' /\ Addressed /\ Addressed'
  BY StepTypes, AddressedStays DEF AgreementInv
<1>2. ASSUME Early'
      PROVE  FirstLeaderCounts' /\ SteadyVotes' /\ ExecutedBacked'
  <2>1. Forward /\ FirstLeaderCounts /\ SteadyVotes /\ ExecutedBacked
    BY <1>1, <1>2, StaysEarly DEF AgreementInv
  <2>2. Waits \/ \E i \in Sites : Writes(i) \/ Counts(i)
    BY <1>2, StepKinds
  <2>3. FirstLeaderCounts' /\ SteadyVotes'
    BY <1>1, <2>1, <2>2, FirstLeaderStays, SteadyVotesStay
  <2> QED
    BY <1>1, <2>1, <2>2, <2>3, ExecutedBackedStays
<1> QED
  BY <1>1, <1>2 DEF AgreementInv

LEMMA InvAgrees == AgreementInv /\ Early => Agreement
<1> SUFFICES ASSUME AgreementInv, Early, NEW i \in Sites, NEW j \in Sites,
                    NEW a \in executed[i], NEW b \in executed[j], a.seq = b.seq
             PROVE  a.tx = b.tx
  BY DEF Agreement
<1>1. /\ Cardinality(Backers(a.seq, a.tx)) >= Quorum
      /\ Cardinality(Backers(a.seq, b.tx)) >= Quorum
  BY DEF AgreementInv, ExecutedBacked
<1> QED
  BY <1>1, BackersAgree

\* Safety across views (README.md, "Safety"; view_change.py _send_new_view,
\* pbft.py _check_commit_quorum): while no node has restarted and no node is
\* past view F, no two nodes execute different requests at one number.
THEOREM AgreementHolds == Spec => [](Early => Agreement)
<1>1. Spec => []AgreementInv
  BY InitAgreement, StepAgreement, PTL DEF Spec
<1> QED
  BY <1>1, InvAgrees, PTL

\* The same for a service whose nodes do not restart and that changes its view
\* at most F times.
THEOREM AgreementWithoutRestarts ==
    ASSUME MaxRestarts = 0, MaxView <= F
    PROVE  Spec => []Agreement
<1>1. TypeOK => Early
  <2>1. ASSUME TypeOK
        PROVE  restarts = 0
    BY <2>1 DEF TypeOK
  <2>2. ASSUME TypeOK, NEW i \in Sites
        PROVE  view[i] <= F
    <3>1. view[i] \in Int /\ view[i] <= MaxView /\ MaxView \in Int /\ F \in Int
      BY <2>2, ViewChangeAssumption DEF TypeOK, Views
    <3> QED
      BY <3>1
  <2> QED
    BY <2>1, <2>2 DEF Early
<1> QED
  BY <1>1, TypeCorrect, AgreementHolds, PTL
=============================================================================
