---------------------------- MODULE DecisionProofs ----------------------------
(***************************************************************************)
(* Proofs about Recovery, continued: what the WAL records as decided gets  *)
(* into the ledger, wherever the process dies between the two writes.      *)
(***************************************************************************)
EXTENDS RecoveryProofs

\* start() has not been through the WAL yet.
WillReplay == status = "down" \/ \E x \in Range(todo) : x.op = "replay"

\* The ledger holds s or will when the steps to come are taken.
Carried(s) == s \in ledger \/ \E x \in Range(todo) : Moves(x) /\ x.tx = s

DecisionInv ==
    /\ Paired(Range(todo))
    /\ \A w \in wal : w.state = "COMMIT" /\ w.n > checkpoint.seq => Carried(w.tx) \/ WillReplay

-----------------------------------------------------------------------------
(* One step of a handler or of start() *)

\* The head is taken and the steps P are put in its place.
LEMMA StepCarries ==
    ASSUME TypeOK, StepsInv, PhaseInv, DecisionInv, todo # <<>>, Head(todo).op # "replay",
           NEW P, Range(todo') = P \cup Rest, Paired(P),
           ledger \subseteq ledger', checkpoint'.seq \in Int, checkpoint'.seq >= checkpoint.seq,
           \A w \in wal' : w.n \in Int /\ (w.state = "COMMIT" =>
                               w \in wal \/ (Decides(Head(todo)) /\ w.tx = Head(todo).tx)),
           Head(todo).op = "transfer" => \E x \in P : x.op = "ledger" /\ x.tx = Head(todo).tx,
           Head(todo).op = "ledger" => Head(todo).tx \in ledger'
    PROVE  DecisionInv'
<1> DEFINE h == Head(todo)
<1>1. /\ Range(todo) = {h} \cup Rest
      /\ \A y \in Rest : Before(h, y)
  BY HeadAndTail, OrderedTail DEF StepsInv, Rest
<1>2. status # "down"
  BY DEF PhaseInv
<1> HIDE DEF h
<1>3. ASSUME NEW x \in Range(todo'), Decides(x)
      PROVE  \E y \in Range(todo') : y.op = "transfer" /\ y.tx = x.tx
  <2>1. CASE x \in P
    BY <1>3, <2>1 DEF Paired
  <2>2. CASE x \in Rest
    <3>1. PICK y \in Range(todo) : y.op = "transfer" /\ y.tx = x.tx
      BY <1>1, <1>3, <2>2 DEF DecisionInv, Paired
    <3>2. y # h
      BY <1>1, <1>3, <2>2, <3>1 DEF Before, Moves
    <3> QED
      BY <1>1, <3>1, <3>2
  <2> QED
    BY <1>3, <2>1, <2>2
<1>4. ASSUME NEW s, Carried(s)
      PROVE  Carried(s)'
  <2>1. CASE s \in ledger
    BY <2>1 DEF Carried
  <2>2. ASSUME NEW x \in Range(todo), Moves(x), x.tx = s
        PROVE  Carried(s)'
    <3>1. CASE x = h
      BY <2>2, <3>1 DEF Carried, Moves, h
    <3>2. CASE x # h
      BY <1>1, <2>2, <3>2 DEF Carried
    <3> QED
      BY <3>1, <3>2
  <2> QED
    BY <1>4, <2>1, <2>2 DEF Carried
<1>5. ASSUME NEW w \in wal', w.state = "COMMIT", w.n > checkpoint'.seq
      PROVE  Carried(w.tx)' \/ WillReplay'
  <2>1. CASE w \in wal
    <3>1. w.n > checkpoint.seq
      BY <1>5, Numbers
    <3>2. Carried(w.tx) \/ \E x \in Range(todo) : x.op = "replay"
      BY <1>2, <1>5, <2>1, <3>1 DEF DecisionInv, WillReplay
    <3> QED
      BY <1>1, <1>4, <3>2 DEF WillReplay, h
  <2>2. CASE Decides(h) /\ w.tx = h.tx
    <3>1. PICK y \in Range(todo) : y.op = "transfer" /\ y.tx = w.tx
      BY <1>1, <2>2 DEF DecisionInv, Paired
    <3>2. y \in Rest
      BY <1>1, <2>2, <3>1 DEF Decides
    <3> QED
      BY <3>1, <3>2 DEF Carried, Moves
  <2> QED
    BY <1>5, <2>1, <2>2 DEF h
<1>6. Paired(Range(todo'))
  BY <1>3 DEF Paired
<1> QED
  BY <1>5, <1>6 DEF DecisionInv, Paired

\* A step that is taken and leaves no other behind.
LEMMA PopCarries ==
    ASSUME TypeOK, StepsInv, PhaseInv, DecisionInv, todo # <<>>, todo' = Tail(todo),
           Head(todo).op \notin {"replay", "transfer"},
           ledger \subseteq ledger', checkpoint'.seq \in Int, checkpoint'.seq >= checkpoint.seq,
           \A w \in wal' : w.n \in Int /\ (w.state = "COMMIT" =>
                               w \in wal \/ (Decides(Head(todo)) /\ w.tx = Head(todo).tx)),
           Head(todo).op = "ledger" => Head(todo).tx \in ledger'
    PROVE  DecisionInv'
<1>1. Range(todo') = {} \cup Rest
  BY DEF Rest
<1>2. Paired({})
  BY DEF Paired
<1> QED
  BY <1>1, <1>2, StepCarries

\* A step that is replaced by the steps pre and writes nothing.
LEMMA PushCarries ==
    ASSUME TypeOK, StepsInv, PhaseInv, DecisionInv, todo # <<>>,
           NEW pre \in Seq(Steps), todo' = pre \o Tail(todo), Paired(Range(pre)),
           UNCHANGED <<wal, ledger, checkpoint>>, Head(todo).op \notin {"replay", "ledger"},
           Head(todo).op = "transfer" =>
               \E x \in Range(pre) : x.op = "ledger" /\ x.tx = Head(todo).tx
    PROVE  DecisionInv'
<1>1. Range(todo') = Range(pre) \cup Rest
  <2>1. Tail(todo) \in Seq(Steps)
    BY HeadAndTail DEF StepsInv
  <2> DEFINE q == Tail(todo)
  <2>2. q \in Seq(Steps) /\ pre \in Seq(Steps)
    BY <2>1
  <2> HIDE DEF q
  <2>3. Range(pre \o q) = Range(pre) \cup Range(q)
    BY ONLY <2>2, ConcatRange
  <2> QED
    BY <2>3 DEF Rest, q
<1>2. \A w \in wal' : w.n \in Int /\ (w.state = "COMMIT" => w \in wal)
  BY DEF TypeOK, WalEntries
<1>3. checkpoint'.seq \in Int /\ checkpoint'.seq >= checkpoint.seq /\ ledger \subseteq ledger'
  BY Numbers
<1> DEFINE P == Range(pre)
<1>4. Paired(P) /\ (Head(todo).op = "transfer" =>
                       \E x \in P : x.op = "ledger" /\ x.tx = Head(todo).tx)
  OBVIOUS
<1> HIDE DEF P
<1>5. Range(todo') = P \cup Rest
  BY <1>1 DEF P
<1> QED
  BY <1>2, <1>3, <1>4, <1>5, StepCarries

LEMMA HandlerStepCarries ==
    ASSUME TypeOK, StepsInv, PhaseInv, CheckpointInv, DecisionInv, Payable, HandlerStep
    PROVE  DecisionInv'
<1> DEFINE h == Head(todo)
<1>1. \A w \in wal : w.n \in Int
  BY DEF TypeOK, WalEntries
<1>2. CASE PutPbftLog \/ Broadcast \/ WriteState \/ WriteLastSeq \/ PruneLogs
  <2>1. /\ todo # <<>> /\ todo' = Tail(todo) /\ UNCHANGED <<wal, ledger, checkpoint>>
        /\ h.op \in {"log", "send", "state", "last_seq", "old_logs"}
    BY <1>2 DEF PutPbftLog, Broadcast, WriteState, WriteLastSeq, PruneLogs, At, store
  <2> QED
    BY <1>1, <2>1, Numbers, PopCarries
<1>3. CASE PutWal
  <2> DEFINE new == [n |-> walSeq + 1, state |-> h.state, tx |-> h.tx]
  <2>1. /\ todo # <<>> /\ h.op = "wal" /\ todo' = Tail(todo)
        /\ wal' = wal \cup {new} /\ UNCHANGED <<ledger, checkpoint>>
    BY <1>3 DEF PutWal, At
  <2>2. new.n \in Int /\ (new.state = "COMMIT" => Decides(h) /\ new.tx = h.tx)
    BY <2>1 DEF TypeOK, Decides
  <2> HIDE DEF new
  <2> QED
    BY <1>1, <2>1, <2>2, Numbers, PopCarries
<1>4. CASE RunTransfer
  <2>1. PICK pre \in Seq(Steps) :
            /\ todo' = pre \o Tail(todo)
            /\ \A x \in Range(pre) : x.op = "state" \/ (x.op = "ledger" /\ x.tx = h.tx)
            /\ \E x \in Range(pre) : x.op = "ledger" /\ x.tx = h.tx
    BY <1>4, TransferSteps
  <2>2. todo # <<>> /\ h.op = "transfer" /\ UNCHANGED <<wal, ledger, checkpoint>>
    BY <1>4 DEF RunTransfer, At, store
  <2>3. Paired(Range(pre))
    BY <2>1 DEF Paired, Decides
  <2> QED
    BY <2>1, <2>2, <2>3, PushCarries
<1>5. CASE WriteLedger
  <2>1. /\ todo # <<>> /\ todo' = Tail(todo) /\ h.op = "ledger"
        /\ ledger' = ledger \cup {h.tx} /\ UNCHANGED <<wal, checkpoint>>
    BY <1>5 DEF WriteLedger, At
  <2> QED
    BY <1>1, <2>1, Numbers, PopCarries
<1>6. CASE VoteCheckpoint
  <2>1. PICK pre \in Seq(Steps) :
            /\ todo' = pre \o Tail(todo)
            /\ \A x \in Range(pre) : x.op \in {"checkpoint", "old_wal", "old_logs"}
    BY <1>6, VoteCheckpointSteps
  <2>2. todo # <<>> /\ h.op = "trigger" /\ UNCHANGED <<wal, ledger, checkpoint>>
    BY <1>6 DEF VoteCheckpoint, At, store
  <2>3. Paired(Range(pre))
    BY <2>1 DEF Paired, Decides
  <2> QED
    BY <2>1, <2>2, <2>3, PushCarries
<1>7. CASE WriteCheckpoint
  <2>1. /\ todo # <<>> /\ todo' = Tail(todo) /\ h.op = "checkpoint"
        /\ checkpoint'.seq = h.seq /\ UNCHANGED <<wal, ledger>>
    BY <1>7 DEF WriteCheckpoint, At
  <2>2. h \in Range(todo) /\ h \in Steps
    BY <2>1, HeadAndTail DEF StepsInv
  <2>3. h.seq \in Seqs /\ h.seq > checkpoint.seq
    BY <2>1, <2>2, StepFields DEF CheckpointInv
  <2>4. checkpoint'.seq \in Int /\ checkpoint'.seq >= checkpoint.seq
    BY <2>1, <2>3, Numbers
  <2> QED
    BY <1>1, <2>1, <2>4, PopCarries
<1>8. CASE PruneWal
  <2>1. /\ todo # <<>> /\ todo' = Tail(todo) /\ h.op = "old_wal"
        /\ wal' \subseteq wal /\ UNCHANGED <<ledger, checkpoint>>
    BY <1>8 DEF PruneWal, At
  <2> QED
    BY <1>1, <2>1, Numbers, PopCarries
<1> QED
  BY <1>2, <1>3, <1>4, <1>5, <1>6, <1>7, <1>8 DEF HandlerStep

LEMMA StartStepCarries ==
    ASSUME TypeOK, StepsInv, PhaseInv, OnceInv, IsFiniteSet(wal), DecisionInv, StartStep
    PROVE  DecisionInv'
<1> DEFINE h == Head(todo)
<1>1. \A w \in wal : w.n \in Int
  BY DEF TypeOK, WalEntries
<1>2. CASE ReplayWal
  \* Every entry the ledger lacks becomes a transfer.
  <2>1. PICK pre \in Seq(Steps) :
            /\ todo' = pre \o Tail(todo)
            /\ \A x \in Range(pre) : x.op = "transfer"
            /\ \A w \in ReplayEntries(checkpoint.seq) :
                  \E x \in Range(pre) : x.op = "transfer" /\ x.tx = w.tx
    BY <1>2, ReplaySteps
  <2>2. todo # <<>> /\ h.op = "replay" /\ UNCHANGED <<wal, ledger, checkpoint, status>>
    BY <1>2 DEF ReplayWal, At, store
  <2>3. Range(todo) = {h} \cup Rest /\ Range(todo') = Range(pre) \cup Rest
    <3>1. Tail(todo) \in Seq(Steps) /\ Range(todo) = {h} \cup Rest
      BY <2>2, HeadAndTail DEF StepsInv, Rest
    <3>2. PICK tail \in Seq(Steps) : tail = Tail(todo)
      BY <3>1
    <3>3. Range(pre \o tail) = Range(pre) \cup Range(tail)
      BY ConcatRange
    <3> QED
      BY <2>1, <3>1, <3>2, <3>3 DEF Rest
  <2>4. Paired(Range(todo'))
    <3>1. ASSUME NEW x \in Range(todo'), Decides(x)
          PROVE  \E y \in Range(todo') : y.op = "transfer" /\ y.tx = x.tx
      <4>1. x \in Range(todo)
        BY <2>1, <2>3, <3>1 DEF Decides
      <4>2. PICK y \in Range(todo) : y.op = "transfer" /\ y.tx = x.tx
        BY <3>1, <4>1 DEF DecisionInv, Paired
      <4> QED
        BY <2>2, <2>3, <4>2
    <3> QED
      BY <3>1 DEF Paired
  <2>5. ASSUME NEW w \in wal', w.state = "COMMIT", w.n > checkpoint'.seq
        PROVE  Carried(w.tx)'
    <3>1. w.tx \in ledger \/ w \in ReplayEntries(checkpoint.seq)
      BY <2>2, <2>5 DEF ReplayEntries
    <3>2. w.tx \in ledger' \/ \E x \in Range(todo') : x.op = "transfer" /\ x.tx = w.tx
      BY <2>1, <2>2, <2>3, <3>1
    <3> QED
      BY <3>2 DEF Carried, Moves
  <2> QED
    BY <2>4, <2>5 DEF DecisionInv, Paired
<1>3. CASE LoadLedger \/ SyncWithPeers
  <2>1. PICK pre \in Seq(Steps) :
            todo' = pre \o Tail(todo) /\ \A x \in Range(pre) : x.op = "last_seq"
    BY <1>3, LoadingSteps
  <2>2. /\ todo # <<>> /\ h.op \in {"load_ledger", "sync"}
        /\ UNCHANGED <<wal, ledger, checkpoint>>
    BY <1>3 DEF LoadLedger, SyncWithPeers, At, store
  <2>3. Paired(Range(pre))
    BY <2>1 DEF Paired, Decides
  <2> QED
    BY <2>1, <2>2, <2>3, PushCarries
<1>4. CASE ReconstructRequests
  <2>1. /\ todo # <<>> /\ todo' = Tail(todo) /\ h.op = "reconstruct"
        /\ UNCHANGED <<wal, ledger, checkpoint>>
    BY <1>4 DEF ReconstructRequests, At, store
  <2> QED
    BY <1>1, <2>1, Numbers, PopCarries
<1>5. CASE Reprocess
  <2>1. PICK pre \in Seq(Steps) :
            todo' = pre \o Tail(todo) /\ \A x \in Range(pre) : x.op = "resend"
    BY <1>5, ReprocessSteps
  <2>2. todo # <<>> /\ h.op = "reprocess" /\ UNCHANGED <<wal, ledger, checkpoint>>
    BY <1>5 DEF Reprocess, At, store
  <2>3. Paired(Range(pre))
    BY <2>1 DEF Paired, Decides
  <2> QED
    BY <2>1, <2>2, <2>3, PushCarries
<1>6. CASE ResendCommit
  <2>1. todo # <<>> /\ h.op = "resend" /\ UNCHANGED <<wal, ledger, checkpoint>>
    BY <1>6 DEF ResendCommit, At, store
  <2>2. h.seq \in Seqs
    BY <2>1, HeadAndTail, StepFields DEF StepsInv
  <2>3. CASE Resends(h.seq)
    <3>1. PICK r : todo' = SendCommitSteps(h.seq, r) \o Tail(todo)
      BY <1>6, <2>3 DEF ResendCommit
    <3>2. SendCommitSteps(h.seq, r) \in Seq(Steps) /\ Paired(Range(SendCommitSteps(h.seq, r)))
      BY <2>2, SendCommitShape
    <3> QED
      BY <2>1, <3>1, <3>2, PushCarries
  <2>4. CASE ~Resends(h.seq)
    <3>1. todo' = Tail(todo)
      BY <1>6, <2>4 DEF ResendCommit
    <3> QED
      BY <1>1, <2>1, <3>1, Numbers, PopCarries
  <2> QED
    BY <2>3, <2>4
<1> QED
  BY <1>2, <1>3, <1>4, <1>5, <1>6 DEF StartStep

-----------------------------------------------------------------------------
(* A handler begins; the process dies and starts again *)

\* The thread is idle, so what the WAL decides is in the ledger already.
LEMMA BeginCarries ==
    ASSUME Idle, DecisionInv, Paired(Range(todo')), UNCHANGED <<wal, ledger, checkpoint>>
    PROVE  DecisionInv'
<1>1. Range(todo) = {} /\ ~WillReplay
  BY Empty DEF Idle, WillReplay
<1>2. \A w \in wal : w.state = "COMMIT" /\ w.n > checkpoint.seq => w.tx \in ledger
  BY <1>1 DEF DecisionInv, Carried
<1> QED
  BY <1>2 DEF DecisionInv, Carried, Paired

\* The steps of the handlers.
LEMMA HandlerShapes ==
    ASSUME NEW s \in Seqs, NEW j \in Sites, NEW r
    PROVE  /\ Paired(Range(<<LogVote("COMMIT", s, j)>> \o CommitVoteSteps(s, r)))
           /\ Paired(Range(<<LogVote("PREPARE", s, j)>> \o SendCommitSteps(s, r)))
           /\ Paired(Range(<<LogVote("PREPARE", s, j)>>))
           /\ Paired(Range(<<LogProposal(s), LogWal("READY", s), LogVote("PREPARE", s, Self),
                              Send("PREPARE", s)>>))
<1>1. ASSUME NEW a \in Steps, ~Decides(a), NEW q \in Seq(Steps), Paired(Range(q))
      PROVE  Paired(Range(<<a>> \o q)) /\ Paired(Range(<<a>>))
  <2> DEFINE p == <<a>>
  <2>1. p \in Seq(Steps) /\ Range(p) = {a}
    BY One
  <2> HIDE DEF p
  <2>2. Range(p \o q) = {a} \cup Range(q)
    BY <2>1, ConcatRange
  <2>3. Paired(Range(p)) /\ Paired(Range(p \o q))
    BY <1>1, <2>1, <2>2 DEF Paired
  <2> QED
    BY <2>3 DEF p
<1>2. /\ LogVote("COMMIT", s, j) \in Steps /\ ~Decides(LogVote("COMMIT", s, j))
      /\ LogVote("PREPARE", s, j) \in Steps /\ ~Decides(LogVote("PREPARE", s, j))
  BY NewSteps DEF LogVote, Decides
<1>3. /\ Paired(Range(<<LogVote("COMMIT", s, j)>> \o CommitVoteSteps(s, r)))
      /\ Paired(Range(<<LogVote("PREPARE", s, j)>> \o SendCommitSteps(s, r)))
      /\ Paired(Range(<<LogVote("PREPARE", s, j)>>))
  BY <1>1, <1>2, CommitVoteShape, SendCommitShape
<1>4. Paired(Range(<<LogProposal(s), LogWal("READY", s), LogVote("PREPARE", s, Self),
                     Send("PREPARE", s)>>))
  <2> DEFINE a == LogProposal(s)
             b == LogWal("READY", s)
             c == LogVote("PREPARE", s, Self)
             d == Send("PREPARE", s)
  <2>1. a \in Steps /\ b \in Steps /\ c \in Steps /\ d \in Steps
    BY NewSteps DEF Sites
  <2>2. ~Decides(a) /\ ~Decides(b) /\ ~Decides(c) /\ ~Decides(d)
    BY DEF Decides, LogProposal, LogWal, LogVote, Send
  <2> HIDE DEF a, b, c, d
  <2>3. DOMAIN <<a, b, c, d>> = {1, 2, 3, 4}
    BY <2>1
  <2>4. Range(<<a, b, c, d>>) = {a, b, c, d}
    BY <2>3 DEF Range
  <2>5. Paired(Range(<<a, b, c, d>>))
    BY <2>2, <2>4 DEF Paired
  <2> QED
    BY <2>5 DEF a, b, c, d
<1> QED
  BY <1>3, <1>4

LEMMA MessageCarries ==
    ASSUME DecisionInv, HandleMessage
    PROVE  DecisionInv'
<1>1. Idle /\ UNCHANGED <<wal, ledger, checkpoint>>
  <2>1. ASSUME NEW s \in Seqs, HandlePrePrepare(s)
        PROVE  Idle /\ UNCHANGED <<wal, ledger, checkpoint>>
    BY <2>1 DEF HandlePrePrepare, Handle, Take, store
  <2>2. ASSUME NEW s \in Seqs, NEW j \in Peers, HandlePrepare(s, j)
        PROVE  Idle /\ UNCHANGED <<wal, ledger, checkpoint>>
    <3>1. Idle /\ \E r, steps : Handle(s, r, steps)
      BY <2>2 DEF HandlePrepare, Take
    <3> QED
      BY <3>1 DEF Handle, store
  <2>3. ASSUME NEW s \in Seqs, NEW j \in Peers, HandleCommit(s, j)
        PROVE  Idle /\ UNCHANGED <<wal, ledger, checkpoint>>
    <3>1. Idle /\ \E r, steps : Handle(s, r, steps)
      BY <2>3 DEF HandleCommit, Take
    <3> QED
      BY <3>1 DEF Handle, store
  <2>4. ASSUME NEW s \in Seqs, NEW j \in Peers, HandleCheckpoint(s, j)
        PROVE  Idle /\ UNCHANGED <<wal, ledger, checkpoint>>
    BY <2>4 DEF HandleCheckpoint, Take, store
  <2> QED
    BY <2>1, <2>2, <2>3, <2>4 DEF HandleMessage
<1>2. Paired(Range(todo'))
  <2>1. ASSUME NEW s \in Seqs, HandlePrePrepare(s)
        PROVE  Paired(Range(todo'))
    <3>1. Self \in Sites
      BY DEF Sites
    <3> QED
      BY <2>1, <3>1, HandlerShapes DEF HandlePrePrepare, Handle
  <2>2. ASSUME NEW s \in Seqs, NEW j \in Peers, HandlePrepare(s, j)
        PROVE  Paired(Range(todo'))
    <3>1. \E r : \/ todo' = <<LogVote("PREPARE", s, j)>> \o SendCommitSteps(s, r)
                 \/ todo' = <<LogVote("PREPARE", s, j)>>
      BY <2>2 DEF HandlePrepare, Handle, PreparedSteps
    <3>2. j \in Sites
      BY DEF Sites
    <3> QED
      BY <3>1, <3>2, HandlerShapes
  <2>3. ASSUME NEW s \in Seqs, NEW j \in Peers, HandleCommit(s, j)
        PROVE  Paired(Range(todo'))
    <3>1. \E r : todo' = <<LogVote("COMMIT", s, j)>> \o CommitVoteSteps(s, r)
      BY <2>3 DEF HandleCommit, Handle
    <3>2. j \in Sites
      BY DEF Sites
    <3> QED
      BY <3>1, <3>2, HandlerShapes
  <2>4. ASSUME NEW s \in Seqs, NEW j \in Peers, HandleCheckpoint(s, j)
        PROVE  Paired(Range(todo'))
    <3>1. PICK pre : /\ todo' = pre \o <<>>
                     /\ \/ pre = <<>>
                        \/ pre = <<SaveCheckpoint(s), DeleteOldWal(s), DeleteOldLogs(s)>>
      BY <2>4 DEF HandleCheckpoint, CountCheckpointVote
    <3>2. CASE pre = <<>>
      <4>1. todo' = <<>>
        BY <3>1, <3>2, Empty, ConcatEmptySeq
      <4> QED
        BY <4>1, Empty DEF Paired
    <3>3. CASE pre = <<SaveCheckpoint(s), DeleteOldWal(s), DeleteOldLogs(s)>>
      <4> DEFINE a == SaveCheckpoint(s)
                 b == DeleteOldWal(s)
                 c == DeleteOldLogs(s)
      <4>1. a \in Steps /\ b \in Steps /\ c \in Steps
        BY NewSteps DEF Sites
      <4>2. a.op = "checkpoint" /\ b.op = "old_wal" /\ c.op = "old_logs"
        BY DEF SaveCheckpoint, DeleteOldWal, DeleteOldLogs
      <4> HIDE DEF a, b, c
      <4>3. pre = <<a, b, c>>
        BY <3>3 DEF a, b, c
      <4>4. Before(a, b) /\ Before(a, c) /\ Before(b, c)
        BY <4>2 DEF Before, Moves, Decides
      <4>5. pre \in Seq(Steps) /\ Range(pre) = {a, b, c}
        BY <4>1, <4>3, <4>4, Three
      <4>6. todo' = pre
        BY <3>1, <4>5, ConcatEmptySeq
      <4> QED
        BY <4>2, <4>5, <4>6 DEF Paired, Decides
    <3> QED
      BY <3>1, <3>2, <3>3
  <2> QED
    BY <2>1, <2>2, <2>3, <2>4 DEF HandleMessage
<1> QED
  BY <1>1, <1>2, BeginCarries

LEMMA CrashCarries ==
    ASSUME TypeOK, DecisionInv, Crash \/ Restart
    PROVE  DecisionInv'
<1>1. CASE Crash
  <2>1. status' = "down" /\ Range(todo') = {}
    BY <1>1, Empty DEF Crash
  <2> QED
    BY <2>1 DEF DecisionInv, Paired, WillReplay
<1>2. CASE Restart
  <2>1. /\ \A x \in Range(todo') : x.op \in StartOps \cup {"state"}
        /\ \E x \in Range(todo') : x.op = "replay"
    BY <1>2, RestartSteps
  <2>2. Paired(Range(todo'))
    BY <2>1 DEF Paired, Decides, StartOps
  <2> QED
    BY <2>1, <2>2 DEF DecisionInv, Paired, WillReplay
<1> QED
  BY <1>1, <1>2

-----------------------------------------------------------------------------
LEMMA InitCarries == Init => DecisionInv
<1> SUFFICES ASSUME Init
             PROVE  DecisionInv
  OBVIOUS
<1>1. wal = {} /\ Range(todo) = {}
  BY Empty DEF Init
<1> QED
  BY <1>1 DEF DecisionInv, Paired

LEMMA DecisionCarries ==
    ASSUME RecoveryInv, IsFiniteSet(wal), DecisionInv, Payable, [Next]_vars
    PROVE  DecisionInv'
<1>1. TypeOK /\ StepsInv /\ PhaseInv /\ CheckpointInv /\ OnceInv
  BY DEF RecoveryInv
<1>2. CASE UNCHANGED vars
  BY <1>2 DEF vars, store, DecisionInv, Paired, Carried, WillReplay
<1> QED
  BY <1>1, <1>2, HandlerStepCarries, StartStepCarries, MessageCarries, CrashCarries DEF Next

\* If no transfer is refused, a decision the WAL holds above the checkpoint is in
\* the ledger whenever the node is idle: a process that died after the put of
\* the COMMIT and before the put of the ledger replays it.
THEOREM DecisionSurvivesHolds == Spec /\ []Payable => []DecisionSurvives
<1>1. Init => DecisionInv
  BY InitCarries
<1>2. RecoveryInv /\ IsFiniteSet(wal) /\ DecisionInv /\ Payable /\ [Next]_vars => DecisionInv'
  BY DecisionCarries
<1>3. DecisionInv => DecisionSurvives
  <2> SUFFICES ASSUME DecisionInv, Idle, NEW w \in wal, w.state = "COMMIT",
                      w.n > checkpoint.seq
               PROVE  w.tx \in ledger
    BY DEF DecisionSurvives
  <2>1. Range(todo) = {} /\ ~WillReplay
    BY Empty DEF Idle, WillReplay
  <2> QED
    BY <2>1 DEF DecisionInv, Carried
<1> QED
  BY <1>1, <1>2, <1>3, InvariantHolds, PTL DEF Spec
===============================================================================
