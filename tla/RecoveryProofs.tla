---------------------------- MODULE RecoveryProofs ----------------------------
(***************************************************************************)
(* Proofs about Recovery, for any numbers of peers, transactions and       *)
(* crashes: its types, that a transaction in the ledger is not carried out *)
(* again, and that a certificate behind a COMMIT survives a crash.         *)
(***************************************************************************)
EXTENDS Recovery, SequenceTheorems, FiniteSetTheorems, TLAPS

-----------------------------------------------------------------------------
(* The steps a handler has still to take *)

Moves(x)   == x.op \in {"transfer", "ledger"}
Decides(x) == x.op = "wal" /\ x.state = "COMMIT"

StartOps == {"replay", "load_ledger", "reconstruct", "sync", "reprocess"}
DiskOps  == {"state", "transfer", "ledger", "last_seq"}

Steps ==
    [op: {"log"}, entry: LogEntries]
    \cup [op: {"wal"}, state: {"READY", "COMMIT"}, tx: Seqs]
    \cup [op: {"send"}, type: {"PREPARE", "COMMIT"}, seq: Seqs]
    \cup [op: {"transfer"}, tx: Seqs, replay: BOOLEAN]
    \cup [op: {"state"}, account: Accounts, balance: Int]
    \cup [op: {"ledger"}, tx: Seqs]
    \cup [op: {"last_seq"}, seq: 0 .. MaxSeq]
    \cup [op: {"trigger", "checkpoint", "old_wal", "old_logs", "resend"}, seq: Seqs]
    \cup [op: StartOps]

\* What may come before what: the log is written before the COMMIT leaves, the
\* decision is in the WAL before the transfer, no transaction is in two steps, a
\* checkpoint comes first and "reprocess" last.
Before(x, y) ==
    /\ y.op = "log" => x.op = "log" \/ (x.op = "wal" /\ x.state = "READY")
    /\ Moves(x) /\ (Moves(y) \/ Decides(y)) => x.tx # y.tx
    /\ Decides(x) /\ Decides(y) => x.tx # y.tx
    /\ x.op # "reprocess" /\ y.op # "checkpoint"
    /\ x.op = "replay" => ~Moves(y)

Ordered(q) == \A k, l \in DOMAIN q : k < l => Before(q[k], q[l])

StepsInv == todo \in Seq(Steps) /\ Ordered(todo)

PhaseInv ==
    /\ status = "down" => todo = <<>> /\ \A s \in Seqs : ~Known(s)
    /\ status # "down" => lastExec >= savedSeq
    /\ status = "starting" => /\ lastExec >= checkpoint.seq
                              /\ \A x \in Range(todo) : x.op \in StartOps \cup DiskOps
    /\ status = "running" => \A x \in Range(todo) : x.op \notin StartOps

-----------------------------------------------------------------------------
(* What the node knows is on disk, or is about to be *)

Proposal(s)   == [type |-> "PRE_PREPARE", seq |-> s]
Vote(t, s, j) == [type |-> t, seq |-> s, sender |-> j]

Taken(s)  == Proposal(s) \in delivered
Logged(e) == e \in logs \/ \E x \in Range(todo) : x.op = "log" /\ x.entry = e

LogInv ==
    \A s \in Seqs :
        /\ Known(s) \/ Logged(Proposal(s)) => Taken(s)
        /\ Known(s) => \/ s < checkpoint.seq
                       \/ /\ Logged(Proposal(s))
                          /\ \A j \in requests[s].prepares : Logged(Vote("PREPARE", s, j))
                          /\ \A j \in requests[s].commits : Logged(Vote("COMMIT", s, j))

\* A checkpoint is written before the log is cut.
CheckpointInv ==
    \A x \in Range(todo) :
        /\ x.op = "checkpoint" => x.seq > checkpoint.seq
        /\ x.op = "old_logs" =>
              \/ x.seq <= checkpoint.seq
              \/ \E y \in Range(todo) : y.op = "checkpoint" /\ y.seq = x.seq

-----------------------------------------------------------------------------
(* Decisions *)

InWal(s) == \E w \in wal : w.state = "COMMIT" /\ w.tx = s

\* A restart finds the COMMIT quorum of s, or does not look for it.
DiskDecided(s) == s < checkpoint.seq \/ Cardinality(Voters("COMMIT", s)) >= Quorum

OnceInv ==
    /\ \A s \in Seqs :
          s \in ledger \/ InWal(s)
             \/ (\E x \in Range(todo) : (Moves(x) \/ Decides(x)) /\ x.tx = s)
          => Taken(s) /\ (Known(s) => requests[s].decided)
    /\ \A v, w \in wal : v.state = "COMMIT" /\ w.state = "COMMIT" /\ v.tx = w.tx => v = w
    /\ \A x \in Range(todo) :
          /\ Decides(x) => /\ Known(x.tx) /\ ~InWal(x.tx)
                           /\ Cardinality(requests[x.tx].commits) >= Quorum
          /\ x.op = "transfer" => x.tx \notin ledger
          /\ Moves(x) => DiskDecided(x.tx) \/ \E y \in Range(todo) : Decides(y) /\ y.tx = x.tx
    /\ \A s \in Seqs : s \in ledger \/ InWal(s) => DiskDecided(s)

\* Each decision among the steps N has its transfer among them.
Paired(N) ==
    \A x \in N : Decides(x) => \E y \in N : y.op = "transfer" /\ y.tx = x.tx

\* The payer of an operation that is executed, not replayed, has the amount.
Payable ==
    At("transfer") /\ ~Head(todo).replay =>
        balance[Op[Head(todo).tx].src] >= Op[Head(todo).tx].amount

-----------------------------------------------------------------------------
(* Certificates *)

Committed(s) == [type |-> "COMMIT", seq |-> s] \in sent

Prepared(s) == Known(s) /\ Cardinality(requests[s].prepares) >= Quorum

PreparedOnDisk(s) ==
    Proposal(s) \in logs /\ Cardinality(Voters("PREPARE", s)) >= Quorum

\* start() has been through the log.
Rebuilt ==
    \/ status = "running"
    \/ status = "starting" /\ ~ \E x \in Range(todo) : x.op = "reconstruct"

CertificateInv ==
    /\ \A x \in Range(todo) : x.op = "send" /\ x.type = "COMMIT" => Prepared(x.seq)
    /\ \A s \in Seqs : Committed(s) =>
          /\ s <= savedSeq \/ s < checkpoint.seq \/ PreparedOnDisk(s)
          /\ Rebuilt /\ s > lastExec => Prepared(s)

RecoveryInv ==
    /\ TypeOK /\ StepsInv /\ PhaseInv
    /\ LogInv /\ CheckpointInv /\ OnceInv /\ CertificateInv

-----------------------------------------------------------------------------
(* Sequences of steps *)

LEMMA HeadAndTail ==
    ASSUME NEW S, NEW q \in Seq(S), q # <<>>
    PROVE  /\ Head(q) \in S /\ Tail(q) \in Seq(S)
           /\ Range(q) = {Head(q)} \cup Range(Tail(q))
           /\ Range(Tail(q)) \subseteq S
<1>1. /\ Head(q) \in S /\ Tail(q) \in Seq(S) /\ Len(Tail(q)) = Len(q) - 1
      /\ \A k \in 1 .. Len(Tail(q)) : Tail(q)[k] = q[k + 1]
  BY HeadTailProperties
<1>2. Len(q) \in Nat /\ Len(q) > 0 /\ Head(q) = q[1]
  BY EmptySeq
<1>3. DOMAIN q = 1 .. Len(q) /\ DOMAIN Tail(q) = 1 .. (Len(q) - 1)
  BY <1>1, LenProperties
<1>4. Range(Tail(q)) \subseteq S
  BY <1>1, ElementOfSeq, LenProperties DEF Range
<1>5. ASSUME NEW x \in Range(q)
      PROVE  x \in {Head(q)} \cup Range(Tail(q))
  <2>1. PICK k \in 1 .. Len(q) : x = q[k]
    BY <1>3 DEF Range
  <2>2. CASE k = 1
    BY <1>2, <2>1, <2>2
  <2>3. CASE k # 1
    <3>1. k - 1 \in 1 .. (Len(q) - 1) /\ (k - 1) + 1 = k
      BY <1>2, <2>3
    <3>2. Tail(q)[k - 1] = x
      BY <1>1, <2>1, <3>1
    <3> QED
      BY <1>3, <3>1, <3>2 DEF Range
  <2> QED
    BY <2>2, <2>3
<1>6. ASSUME NEW x \in {Head(q)} \cup Range(Tail(q))
      PROVE  x \in Range(q)
  <2>1. CASE x = Head(q)
    BY <1>2, <1>3, <2>1 DEF Range
  <2>2. CASE x \in Range(Tail(q))
    <3>1. PICK k \in 1 .. (Len(q) - 1) : x = Tail(q)[k]
      BY <1>3, <2>2 DEF Range
    <3>2. k + 1 \in 1 .. Len(q) /\ x = q[k + 1]
      BY <1>1, <1>2, <3>1
    <3> QED
      BY <1>3, <3>2 DEF Range
  <2> QED
    BY <2>1, <2>2
<1> QED
  BY <1>1, <1>4, <1>5, <1>6

LEMMA ConcatRange ==
    ASSUME NEW S, NEW p \in Seq(S), NEW q \in Seq(S)
    PROVE  /\ p \o q \in Seq(S)
           /\ Range(p \o q) = Range(p) \cup Range(q)
           /\ \A n \in 1 .. (Len(p) + Len(q)) :
                 (p \o q)[n] = IF n <= Len(p) THEN p[n] ELSE q[n - Len(p)]
<1>1. /\ p \o q \in Seq(S) /\ Len(p \o q) = Len(p) + Len(q)
      /\ \A n \in 1 .. (Len(p) + Len(q)) :
            (p \o q)[n] = IF n <= Len(p) THEN p[n] ELSE q[n - Len(p)]
  BY ConcatProperties
<1>2. /\ DOMAIN p = 1 .. Len(p) /\ DOMAIN q = 1 .. Len(q)
      /\ DOMAIN (p \o q) = 1 .. (Len(p) + Len(q))
      /\ Len(p) \in Nat /\ Len(q) \in Nat
  BY <1>1, LenProperties
<1>3. ASSUME NEW x \in Range(p \o q)
      PROVE  x \in Range(p) \cup Range(q)
  <2>1. PICK n \in 1 .. (Len(p) + Len(q)) : x = (p \o q)[n]
    BY <1>2 DEF Range
  <2>2. CASE n <= Len(p)
    BY <1>1, <1>2, <2>1, <2>2 DEF Range
  <2>3. CASE n > Len(p)
    <3>1. n - Len(p) \in 1 .. Len(q) /\ x = q[n - Len(p)]
      BY <1>1, <1>2, <2>1, <2>3
    <3> QED
      BY <1>2, <3>1 DEF Range
  <2> QED
    BY <1>2, <2>1, <2>2, <2>3
<1>4. ASSUME NEW x \in Range(p)
      PROVE  x \in Range(p \o q)
  <2>1. PICK n \in 1 .. Len(p) : x = p[n]
    BY <1>2 DEF Range
  <2>2. n \in 1 .. (Len(p) + Len(q)) /\ x = (p \o q)[n]
    BY <1>1, <1>2, <2>1
  <2> QED
    BY <1>2, <2>2 DEF Range
<1>5. ASSUME NEW x \in Range(q)
      PROVE  x \in Range(p \o q)
  <2>1. PICK n \in 1 .. Len(q) : x = q[n]
    BY <1>2 DEF Range
  <2>2. n + Len(p) \in 1 .. (Len(p) + Len(q)) /\ (n + Len(p)) - Len(p) = n /\ ~(n + Len(p) <= Len(p))
    BY <1>2, <2>1
  <2>3. x = (p \o q)[n + Len(p)]
    BY <1>1, <2>1, <2>2
  <2> QED
    BY <1>2, <2>2, <2>3 DEF Range
<1> QED
  BY <1>1, <1>3, <1>4, <1>5

LEMMA OrderedTail ==
    ASSUME NEW S, NEW q \in Seq(S), q # <<>>, Ordered(q)
    PROVE  Ordered(Tail(q)) /\ \A y \in Range(Tail(q)) : Before(Head(q), y)
<1>1. /\ Tail(q) \in Seq(S) /\ Len(Tail(q)) = Len(q) - 1
      /\ \A k \in 1 .. Len(Tail(q)) : Tail(q)[k] = q[k + 1]
  BY HeadTailProperties
<1>2. Len(q) \in Nat /\ Len(q) > 0 /\ Head(q) = q[1]
  BY EmptySeq
<1>3. DOMAIN q = 1 .. Len(q) /\ DOMAIN Tail(q) = 1 .. (Len(q) - 1)
  BY <1>1, LenProperties
<1>4. ASSUME NEW k \in 1 .. (Len(q) - 1)
      PROVE  k + 1 \in 1 .. Len(q) /\ 1 \in 1 .. Len(q) /\ 1 < k + 1 /\ Tail(q)[k] = q[k + 1]
  BY <1>1, <1>2
<1>5. ASSUME NEW k \in DOMAIN Tail(q), NEW l \in DOMAIN Tail(q), k < l
      PROVE  Before(Tail(q)[k], Tail(q)[l])
  <2>1. k + 1 < l + 1
    BY <1>3, <1>5
  <2> QED
    BY <1>3, <1>4, <2>1 DEF Ordered
<1>6. \A y \in Range(Tail(q)) : Before(Head(q), y)
  BY <1>2, <1>3, <1>4 DEF Range, Ordered
<1> QED
  BY <1>5, <1>6 DEF Ordered

LEMMA OrderedConcat ==
    ASSUME NEW S, NEW p \in Seq(S), NEW q \in Seq(S), Ordered(p), Ordered(q),
           \A x \in Range(p), y \in Range(q) : Before(x, y)
    PROVE  Ordered(p \o q)
<1>1. /\ DOMAIN p = 1 .. Len(p) /\ DOMAIN q = 1 .. Len(q)
      /\ DOMAIN (p \o q) = 1 .. (Len(p) + Len(q))
      /\ Len(p) \in Nat /\ Len(q) \in Nat
  BY ConcatProperties, LenProperties
<1>2. SUFFICES ASSUME NEW k \in 1 .. (Len(p) + Len(q)), NEW l \in 1 .. (Len(p) + Len(q)), k < l
               PROVE  Before((p \o q)[k], (p \o q)[l])
  BY <1>1 DEF Ordered
<1>3. \A n \in 1 .. (Len(p) + Len(q)) :
          \/ n \in 1 .. Len(p) /\ (p \o q)[n] = p[n]
          \/ n > Len(p) /\ n - Len(p) \in 1 .. Len(q) /\ (p \o q)[n] = q[n - Len(p)]
  BY <1>1, ConcatProperties
<1>4. CASE k > Len(p)
  <2>1. l > Len(p) /\ k - Len(p) < l - Len(p)
    BY <1>1, <1>2, <1>4
  <2>2. /\ k - Len(p) \in 1 .. Len(q) /\ (p \o q)[k] = q[k - Len(p)]
        /\ l - Len(p) \in 1 .. Len(q) /\ (p \o q)[l] = q[l - Len(p)]
    BY <1>1, <1>3, <1>4, <2>1
  <2> QED
    BY <1>1, <2>1, <2>2 DEF Ordered
<1>5. CASE k \in 1 .. Len(p) /\ l \in 1 .. Len(p)
  BY <1>1, <1>2, <1>3, <1>5 DEF Ordered
<1>6. CASE k \in 1 .. Len(p) /\ l > Len(p)
  <2>1. (p \o q)[k] \in Range(p) /\ (p \o q)[l] \in Range(q)
    BY <1>1, <1>3, <1>6 DEF Range
  <2> QED
    BY <2>1
<1> QED
  BY <1>1, <1>4, <1>5, <1>6

\* What short sequences of steps hold.
LEMMA Empty == <<>> \in Seq(Steps) /\ Range(<<>>) = {} /\ Ordered(<<>>)
BY EmptySeq DEF Range, Ordered

LEMMA One ==
    ASSUME NEW a \in Steps
    PROVE  <<a>> \in Seq(Steps) /\ Range(<<a>>) = {a} /\ Ordered(<<a>>)
<1>1. <<a>> \in Seq(Steps) /\ Len(<<a>>) = 1
  OBVIOUS
<1>2. DOMAIN <<a>> = {1}
  BY <1>1
<1> QED
  BY <1>1, <1>2 DEF Range, Ordered

LEMMA Two ==
    ASSUME NEW a \in Steps, NEW b \in Steps, Before(a, b)
    PROVE  <<a, b>> \in Seq(Steps) /\ Range(<<a, b>>) = {a, b} /\ Ordered(<<a, b>>)
<1>1. <<a, b>> \in Seq(Steps) /\ DOMAIN <<a, b>> = {1, 2}
  OBVIOUS
<1>2. Range(<<a, b>>) = {a, b}
  BY <1>1 DEF Range
<1> QED
  BY <1>1, <1>2 DEF Ordered

LEMMA Three ==
    ASSUME NEW a \in Steps, NEW b \in Steps, NEW c \in Steps,
           Before(a, b), Before(a, c), Before(b, c)
    PROVE  <<a, b, c>> \in Seq(Steps) /\ Range(<<a, b, c>>) = {a, b, c} /\ Ordered(<<a, b, c>>)
<1>1. <<a, b, c>> \in Seq(Steps) /\ DOMAIN <<a, b, c>> = {1, 2, 3}
  OBVIOUS
<1>2. Range(<<a, b, c>>) = {a, b, c}
  BY <1>1 DEF Range
<1> QED
  BY <1>1, <1>2 DEF Ordered

-----------------------------------------------------------------------------
(* Taking a step off the list, and putting others in its place *)

LEMMA StepFields ==
    ASSUME NEW x \in Steps
    PROVE  /\ x.op = "log" => x.entry \in LogEntries
           /\ x.op = "wal" => x.state \in {"READY", "COMMIT"} /\ x.tx \in Seqs
           /\ x.op = "send" => x.type \in {"PREPARE", "COMMIT"} /\ x.seq \in Seqs
           /\ Moves(x) \/ Decides(x) => x.tx \in Seqs
           /\ x.op = "state" => x.account \in Accounts /\ x.balance \in Int
           /\ x.op = "last_seq" => x.seq \in 0 .. MaxSeq
           /\ x.op \in {"trigger", "checkpoint", "old_wal", "old_logs", "resend"} => x.seq \in Seqs
           /\ x.op = "transfer" => x.replay \in BOOLEAN
BY DEF Steps, Moves, Decides, StartOps

LEMMA NewSteps ==
    ASSUME NEW s \in Seqs, NEW j \in Sites
    PROVE  /\ LogProposal(s) \in Steps
           /\ LogVote("PREPARE", s, j) \in Steps /\ LogVote("COMMIT", s, j) \in Steps
           /\ LogWal("READY", s) \in Steps /\ LogWal("COMMIT", s) \in Steps
           /\ Send("PREPARE", s) \in Steps /\ Send("COMMIT", s) \in Steps
           /\ Transfer(s, FALSE) \in Steps /\ Transfer(s, TRUE) \in Steps
           /\ PutLedger(s) \in Steps /\ SaveLastSeq(s) \in Steps
           /\ TriggerCheckpoint(s) \in Steps /\ SaveCheckpoint(s) \in Steps
           /\ DeleteOldWal(s) \in Steps /\ DeleteOldLogs(s) \in Steps
           /\ Resend(s) \in Steps
<1>1. s \in 0 .. MaxSeq
  BY DEF Seqs
<1>2. Send("PREPARE", s) \in Steps /\ Send("COMMIT", s) \in Steps
  BY DEF Steps, Send
<1>3. LogWal("READY", s) \in Steps /\ LogWal("COMMIT", s) \in Steps
  BY DEF Steps, LogWal
<1>4. /\ LogProposal(s) \in Steps
      /\ LogVote("PREPARE", s, j) \in Steps /\ LogVote("COMMIT", s, j) \in Steps
  BY DEF Steps, LogProposal, LogVote, LogEntries
<1>5. /\ Transfer(s, FALSE) \in Steps /\ Transfer(s, TRUE) \in Steps
      /\ PutLedger(s) \in Steps /\ SaveLastSeq(s) \in Steps
  BY <1>1 DEF Steps, Transfer, PutLedger, SaveLastSeq
<1>6. /\ TriggerCheckpoint(s) \in Steps /\ SaveCheckpoint(s) \in Steps
      /\ DeleteOldWal(s) \in Steps /\ DeleteOldLogs(s) \in Steps
      /\ Resend(s) \in Steps
  BY DEF Steps, TriggerCheckpoint, SaveCheckpoint, DeleteOldWal, DeleteOldLogs, Resend
<1> QED
  BY <1>2, <1>3, <1>4, <1>5, <1>6

\* The steps to come after the head.
Rest == Range(Tail(todo))

LEMMA Goes ==
    ASSUME StepsInv, todo # <<>>, NEW pre \in Seq(Steps), todo' = pre \o Tail(todo),
           Ordered(pre), \A x \in Range(pre), y \in Rest : Before(Head(todo), y) => Before(x, y)
    PROVE  /\ StepsInv'
           /\ Head(todo) \in Steps /\ Rest \subseteq Steps
           /\ Range(todo) = {Head(todo)} \cup Rest
           /\ Range(todo') = Range(pre) \cup Rest
           /\ \A y \in Rest : Before(Head(todo), y)
<1>1. todo \in Seq(Steps) /\ Ordered(todo)
  BY DEF StepsInv
<1>2. /\ Head(todo) \in Steps /\ Tail(todo) \in Seq(Steps) /\ Rest \subseteq Steps
      /\ Range(todo) = {Head(todo)} \cup Rest
  BY <1>1, HeadAndTail DEF Rest
<1>3. Ordered(Tail(todo)) /\ \A y \in Rest : Before(Head(todo), y)
  BY <1>1, OrderedTail DEF Rest
<1>4. /\ pre \o Tail(todo) \in Seq(Steps) /\ Range(pre \o Tail(todo)) = Range(pre) \cup Rest
  <2>1. PICK rest \in Seq(Steps) : rest = Tail(todo)
    BY <1>2
  <2>2. /\ pre \o rest \in Seq(Steps)
        /\ Range(pre \o rest) = Range(pre) \cup Range(rest)
    BY ConcatRange
  <2> QED
    BY <2>1, <2>2 DEF Rest
<1>5. Ordered(pre \o Tail(todo))
  BY <1>2, <1>3, OrderedConcat DEF Rest
<1> QED
  BY <1>2, <1>3, <1>4, <1>5 DEF StepsInv

LEMMA Pops ==
    ASSUME StepsInv, todo # <<>>, todo' = Tail(todo)
    PROVE  /\ StepsInv'
           /\ Head(todo) \in Steps /\ Rest \subseteq Steps
           /\ Range(todo) = {Head(todo)} \cup Rest
           /\ Range(todo') = Rest
           /\ \A y \in Rest : Before(Head(todo), y)
<1>1. Tail(todo) \in Seq(Steps)
  BY HeadAndTail DEF StepsInv
<1>2. todo' = <<>> \o Tail(todo)
  BY <1>1, ConcatEmptySeq
<1> QED
  BY <1>2, Empty, Goes

-----------------------------------------------------------------------------
(* What each part of the invariant rests on *)

LEMMA LogKeeps ==
    ASSUME LogInv, UNCHANGED requests, delivered \subseteq delivered',
           checkpoint.seq \in Int, checkpoint'.seq \in Int, checkpoint'.seq >= checkpoint.seq,
           \A e : Logged(e)' <=> Logged(e)
    PROVE  LogInv'
<1>1. \A e : Logged(e)' <=> Logged(e)
  OBVIOUS
<1>2. \A s \in Seqs : (Known(s)' <=> Known(s)) /\ (Taken(s) => Taken(s)') /\ s \in Int
  BY DEF Known, Taken, Proposal, Seqs
<1>3. \A s \in Seqs : s < checkpoint.seq => s < checkpoint'.seq
  BY <1>2
<1>4. requests' = requests
  OBVIOUS
<1> QED
  BY <1>1, <1>2, <1>3, <1>4 DEF LogInv, Proposal, Vote

LEMMA CheckpointKeeps ==
    ASSUME CheckpointInv, checkpoint' = checkpoint,
           \A x \in Range(todo') : x.op \in {"checkpoint", "old_logs"} => x \in Range(todo),
           \A x \in Range(todo) : x.op = "checkpoint" => x \in Range(todo')
    PROVE  CheckpointInv'
BY DEF CheckpointInv

LEMMA OnceKeeps ==
    ASSUME OnceInv, UNCHANGED <<ledger, requests>>,
           \A w \in wal' : w.state = "COMMIT" => w \in wal,
           delivered \subseteq delivered', \A s \in Seqs : DiskDecided(s) => DiskDecided(s)',
           Range(todo) \subseteq Steps, Range(todo') \subseteq Steps,
           \A x : Moves(x) \/ Decides(x) => (x \in Range(todo') <=> x \in Range(todo))
    PROVE  OnceInv'
<1>1. \A s \in Seqs : (Known(s)' <=> Known(s)) /\ (Taken(s) => Taken(s)')
  BY DEF Known, Taken, Proposal
<1>2. \A s : InWal(s)' => InWal(s)
  BY DEF InWal
<1>3. \A x \in Range(todo) : Moves(x) \/ Decides(x) => x.tx \in Seqs
  BY StepFields
<1>4. \A x \in Range(todo') : x.op = "transfer" => Moves(x)
  BY DEF Moves
<1>5. ASSUME NEW s \in Seqs,
             s \in ledger' \/ InWal(s)' \/ (\E x \in Range(todo') : (Moves(x) \/ Decides(x)) /\ x.tx = s)
      PROVE  Taken(s)' /\ (Known(s)' => requests'[s].decided)
  BY <1>1, <1>2, <1>5 DEF OnceInv
<1>6. \A v, w \in wal' : v.state = "COMMIT" /\ w.state = "COMMIT" /\ v.tx = w.tx => v = w
  BY DEF OnceInv
<1>7. ASSUME NEW x \in Range(todo')
      PROVE  /\ Decides(x) => /\ Known(x.tx)' /\ ~InWal(x.tx)'
                              /\ Cardinality(requests'[x.tx].commits) >= Quorum
             /\ x.op = "transfer" => x.tx \notin ledger'
             /\ Moves(x) => DiskDecided(x.tx)' \/ \E y \in Range(todo') : Decides(y) /\ y.tx = x.tx
  BY <1>1, <1>2, <1>3, <1>4, <1>7 DEF OnceInv
<1>8. \A s \in Seqs : s \in ledger' \/ InWal(s)' => DiskDecided(s)'
  BY <1>2 DEF OnceInv
<1> QED
  BY <1>5, <1>6, <1>7, <1>8 DEF OnceInv, InWal, Known, Taken, Quorum

LEMMA CertificateKeeps ==
    ASSUME CertificateInv, UNCHANGED <<requests, sent>>,
           lastExec \in Int, lastExec' \in Int, lastExec' >= lastExec,
           savedSeq \in Int, savedSeq' \in Int, savedSeq' >= savedSeq,
           checkpoint.seq \in Int, checkpoint'.seq \in Int, checkpoint'.seq >= checkpoint.seq,
           \A s \in Seqs : PreparedOnDisk(s) => s < checkpoint'.seq \/ PreparedOnDisk(s)',
           Rebuilt' => Rebuilt,
           \A x \in Range(todo') : x.op = "send" => x \in Range(todo)
    PROVE  CertificateInv'
<1>1. \A s : (Prepared(s)' <=> Prepared(s)) /\ (Committed(s)' <=> Committed(s))
  BY DEF Prepared, Committed, Known, Quorum
<1>2. \A s \in Seqs : s \in Int
  BY DEF Seqs
<1>3. ASSUME NEW s \in Seqs, Committed(s)'
      PROVE  /\ s <= savedSeq' \/ s < checkpoint'.seq \/ PreparedOnDisk(s)'
             /\ Rebuilt' /\ s > lastExec' => Prepared(s)'
  <2>1. /\ s <= savedSeq \/ s < checkpoint.seq \/ PreparedOnDisk(s)
        /\ Rebuilt /\ s > lastExec => Prepared(s)
    BY <1>1, <1>3 DEF CertificateInv
  <2>2. s <= savedSeq' \/ s < checkpoint'.seq \/ PreparedOnDisk(s)'
    BY <1>2, <2>1
  <2> QED
    BY <1>1, <1>2, <2>1, <2>2
<1>4. \A x \in Range(todo') : x.op = "send" /\ x.type = "COMMIT" => Prepared(x.seq)'
  BY <1>1 DEF CertificateInv
<1> QED
  BY <1>3, <1>4 DEF CertificateInv, Committed, Prepared, Known, PreparedOnDisk, Rebuilt, Proposal, Quorum, Voters

LEMMA PhaseKeeps ==
    ASSUME PhaseInv, status' = status, todo # <<>>, checkpoint.seq \in Int,
           lastExec \in Int, lastExec' \in Int, savedSeq' \in Int,
           lastExec' >= lastExec, lastExec' >= savedSeq',
           status = "starting" => checkpoint' = checkpoint,
           \A x \in Range(todo') :
              \/ x \in Range(todo)
              \/ x.op \notin StartOps /\ (status = "starting" => x.op \in DiskOps)
    PROVE  PhaseInv'
<1>1. status # "down"
  BY DEF PhaseInv
<1>2. CASE status = "starting"
  <2>1. lastExec' >= checkpoint'.seq
    BY <1>2 DEF PhaseInv
  <2> QED
    BY <1>1, <1>2, <2>1 DEF PhaseInv
<1>3. CASE status # "starting"
  BY <1>1, <1>3 DEF PhaseInv
<1> QED
  BY <1>2, <1>3

LEMMA LargerQuorum ==
    ASSUME NEW A \in SUBSET Sites, NEW B \in SUBSET A, Cardinality(B) >= Quorum
    PROVE  Cardinality(A) >= Quorum
<1>1. IsFiniteSet(Sites)
  BY RecoveryAssumption, FS_AddElement DEF Sites
<1>2. IsFiniteSet(A) /\ IsFiniteSet(B) /\ Cardinality(B) <= Cardinality(A)
  BY <1>1, FS_Subset
<1>3. Cardinality(A) \in Nat /\ Cardinality(B) \in Nat /\ Quorum \in Nat
  BY <1>2, FS_CardinalityType, RecoveryAssumption DEF Quorum
<1> QED
  BY <1>2, <1>3

\* The log and the checkpoint may grow.
LEMMA DiskGrows ==
    ASSUME logs \subseteq logs', NEW s \in Seqs,
           checkpoint.seq \in Int, checkpoint'.seq \in Int, checkpoint'.seq >= checkpoint.seq
    PROVE  /\ DiskDecided(s) => DiskDecided(s)'
           /\ PreparedOnDisk(s) => PreparedOnDisk(s)'
<1>1. \A t : Voters(t, s) \subseteq Voters(t, s)' /\ Voters(t, s)' \subseteq Sites
  BY DEF Voters, Sites
<1>2. s \in Int
  BY DEF Seqs
<1>3. \A t : Cardinality(Voters(t, s)) >= Quorum => Cardinality(Voters(t, s)') >= Quorum
  BY <1>1, LargerQuorum
<1>4. s < checkpoint.seq => s < checkpoint'.seq
  BY <1>2
<1> QED
  BY <1>3, <1>4 DEF DiskDecided, PreparedOnDisk, Proposal, Quorum

-----------------------------------------------------------------------------
(* Types *)

LEMMA Numbers ==
    ASSUME TypeOK
    PROVE  /\ lastExec \in Int /\ savedSeq \in Int /\ checkpoint.seq \in Int /\ low \in Int
           /\ 0 \in 0 .. MaxSeq /\ MaxSeq \in Nat
           /\ \A s \in Seqs : s \in 0 .. MaxSeq /\ s \in Int
BY RecoveryAssumption DEF TypeOK, Seqs

LEMMA EntryTypes ==
    ASSUME NEW r \in RequestStates
    PROVE  /\ AfterCommitVote(r) \in RequestStates /\ WithOwnCommit(r) \in RequestStates
           /\ AfterCommitVote(r).prepares = r.prepares
           /\ AfterCommitVote(r).commits = r.commits
           /\ AfterCommitVote(r).decided <=> r.decided \/ CommitQuorum(r)
           /\ WithOwnCommit(r).prepares = r.prepares
           /\ WithOwnCommit(r).commits = r.commits \cup {Self}
           /\ WithOwnCommit(r).decided = r.decided
BY DEF AfterCommitVote, WithOwnCommit, RequestStates, Sites, CommitQuorum

LEMMA LargestOfNumbers ==
    ASSUME NEW max \in Nat, NEW S \in SUBSET (0 .. max), NEW n \in LargestOf(S)
    PROVE  n \in 0 .. max
BY DEF LargestOf

LEMMA HandlerTypes ==
    ASSUME TypeOK, StepsInv, HandlerStep
    PROVE  TypeOK'
<1>1. todo # <<>>
  BY DEF HandlerStep, PutPbftLog, PutWal, Broadcast, RunTransfer, WriteState, WriteLedger,
         WriteLastSeq, VoteCheckpoint, WriteCheckpoint, PruneWal, PruneLogs, At
<1>2. Head(todo) \in Steps
  BY <1>1, HeadAndTail DEF StepsInv
<1> DEFINE h == Head(todo)
<1>3. /\ h.op = "log" => h.entry \in LogEntries
      /\ h.op = "wal" => h.state \in {"READY", "COMMIT"} /\ h.tx \in Seqs
      /\ h.op = "send" => h.type \in {"PREPARE", "COMMIT"} /\ h.seq \in Seqs
      /\ h.op = "ledger" => h.tx \in Seqs
      /\ h.op = "state" => h.account \in Accounts /\ h.balance \in Int
      /\ h.op = "last_seq" => h.seq \in 0 .. MaxSeq
      /\ h.op = "checkpoint" => h.seq \in 0 .. MaxSeq
  BY <1>2, StepFields, RecoveryAssumption DEF Moves, Seqs
<1> HIDE DEF h
<1> USE DEF TypeOK, store, memory
<1>4. CASE PutPbftLog
  BY <1>3, <1>4 DEF PutPbftLog, At, h
<1>5. CASE PutWal
  <2>1. [n |-> walSeq + 1, state |-> h.state, tx |-> h.tx] \in WalEntries /\ walSeq + 1 \in Nat
    BY <1>3, <1>5 DEF PutWal, At, h, WalEntries
  <2> QED
    BY <1>5, <2>1 DEF PutWal, h
<1>6. CASE Broadcast
  BY <1>3, <1>6 DEF Broadcast, At, h
<1>7. CASE RunTransfer
  BY <1>7 DEF RunTransfer
<1>8. CASE WriteState
  <2>1. balance' = [balance EXCEPT ![h.account] = h.balance] /\ h.balance \in Int
    BY <1>3, <1>8 DEF WriteState, At, h
  <2>2. balance' \in Balances
    BY <2>1 DEF Balances
  <2> QED
    BY <1>8, <2>2 DEF WriteState
<1>9. CASE WriteLedger
  BY <1>3, <1>9 DEF WriteLedger, At, h
<1>10. CASE WriteLastSeq
  <2>1. lastExec' \in 0 .. MaxSeq
    BY <1>3, <1>10 DEF WriteLastSeq, At, h, Bigger
  <2> QED
    BY <1>10, <2>1 DEF WriteLastSeq
<1>11. CASE VoteCheckpoint
  BY <1>11 DEF VoteCheckpoint
<1>12. CASE WriteCheckpoint
  <2>1. low' \in 0 .. MaxSeq /\ checkpoint' \in [seq: 0 .. MaxSeq, balances: Balances]
    BY <1>3, <1>12 DEF WriteCheckpoint, At, h, Bigger
  <2> QED
    BY <1>12, <2>1 DEF WriteCheckpoint
<1>13. CASE PruneWal
  BY <1>13 DEF PruneWal
<1>14. CASE PruneLogs
  BY <1>14 DEF PruneLogs
<1> QED
  BY <1>4, <1>5, <1>6, <1>7, <1>8, <1>9, <1>10, <1>11, <1>12, <1>13, <1>14 DEF HandlerStep

LEMMA StartTypes ==
    ASSUME TypeOK, StepsInv, StartStep
    PROVE  TypeOK'
<1> USE DEF TypeOK, store, memory
<1>1. CASE ReplayWal \/ LoadLedger \/ SyncWithPeers \/ Reprocess
  BY <1>1 DEF ReplayWal, LoadLedger, SyncWithPeers, Reprocess
<1>2. CASE ReconstructRequests
  <2>1. \A s \in Seqs : Reconstructed(s) \in RequestStates \cup {NoRequest}
    BY DEF Reconstructed, RequestStates, ReconstructedPhase, Voters
  <2> QED
    BY <1>2, <2>1 DEF ReconstructRequests
<1>3. CASE ResendCommit
  <2> DEFINE s == Head(todo).seq
  <2>1. CASE Resends(s)
    <3>1. s \in Seqs
      BY <1>3, HeadAndTail, StepFields DEF ResendCommit, At, StepsInv
    <3>2. requests[s] \in RequestStates
      BY <2>1, <3>1 DEF Resends, Known
    <3>3. AfterCommitVote(WithOwnCommit(requests[s])) \in RequestStates
      BY <3>2, EntryTypes
    <3>4. requests' = [requests EXCEPT ![s] = AfterCommitVote(WithOwnCommit(requests[s]))]
      BY <1>3, <2>1 DEF ResendCommit
    <3> HIDE DEF s
    <3>5. requests' \in [Seqs -> RequestStates \cup {NoRequest}]
      BY <3>1, <3>3, <3>4
    <3> QED
      BY <1>3, <3>5 DEF ResendCommit
  <2>2. CASE ~Resends(s)
    BY <1>3, <2>2 DEF ResendCommit
  <2> QED
    BY <2>1, <2>2
<1> QED
  BY <1>1, <1>2, <1>3 DEF StartStep

\* A request of which a vote is counted.
LEMMA CountedTypes ==
    ASSUME TypeOK, NEW s \in Seqs, Known(s), NEW j \in Peers
    PROVE  /\ requests[s] \in RequestStates
           /\ [requests[s] EXCEPT !.prepares = @ \cup {j}] \in RequestStates
           /\ [requests[s] EXCEPT !.commits = @ \cup {j}] \in RequestStates
<1>1. requests[s] \in RequestStates
  BY DEF TypeOK, Known
<1> QED
  BY <1>1 DEF RequestStates, Sites

LEMMA MessageTypes ==
    ASSUME TypeOK, HandleMessage
    PROVE  TypeOK'
<1>1. ASSUME NEW s \in Seqs, NEW r \in RequestStates, NEW steps, Handle(s, r, steps)
      PROVE  TypeOK'
  <2>1. requests' = [requests EXCEPT ![s] = r]
    BY <1>1 DEF Handle
  <2>2. requests' \in [Seqs -> RequestStates \cup {NoRequest}]
    BY <2>1 DEF TypeOK
  <2> QED
    BY <1>1, <2>2 DEF Handle, store, TypeOK
<1>2. ASSUME NEW s \in Seqs, HandlePrePrepare(s)
      PROVE  TypeOK'
  <2> DEFINE r == [prepares |-> {Self}, commits |-> {}, decided |-> FALSE, phase |-> "prepare"]
  <2>1. r \in RequestStates
    BY DEF RequestStates, Sites
  <2>2. \E steps : Handle(s, r, steps)
    BY <1>2 DEF HandlePrePrepare
  <2> QED
    BY <1>1, <2>1, <2>2
<1>3. ASSUME NEW s \in Seqs, NEW j \in Peers, HandlePrepare(s, j)
      PROVE  TypeOK'
  <2> DEFINE r == [requests[s] EXCEPT !.prepares = @ \cup {j}]
  <2>1. r \in RequestStates
    BY <1>3, CountedTypes DEF HandlePrepare
  <2>2. AfterCommitVote(WithOwnCommit(r)) \in RequestStates
    BY <2>1, EntryTypes
  <2>3. \E steps : Handle(s, r, steps) \/ Handle(s, AfterCommitVote(WithOwnCommit(r)), steps)
    BY <1>3 DEF HandlePrepare
  <2> QED
    BY <1>1, <2>1, <2>2, <2>3
<1>4. ASSUME NEW s \in Seqs, NEW j \in Peers, HandleCommit(s, j)
      PROVE  TypeOK'
  <2> DEFINE r == [requests[s] EXCEPT !.commits = @ \cup {j}]
  <2>1. r \in RequestStates
    BY <1>4, CountedTypes DEF HandleCommit
  <2>2. AfterCommitVote(r) \in RequestStates
    BY <2>1, EntryTypes
  <2>3. \E steps : Handle(s, AfterCommitVote(r), steps)
    BY <1>4 DEF HandleCommit
  <2> QED
    BY <1>1, <2>2, <2>3
<1>5. ASSUME NEW s \in Seqs, NEW j \in Peers, HandleCheckpoint(s, j)
      PROVE  TypeOK'
  BY <1>5 DEF HandleCheckpoint, store, TypeOK
<1> QED
  BY <1>2, <1>3, <1>4, <1>5 DEF HandleMessage

LEMMA CrashTypes ==
    ASSUME TypeOK, Crash \/ Restart
    PROVE  TypeOK'
<1>1. CASE Crash
  <2>1. crashes' \in 0 .. MaxCrashes + 1
    BY <1>1, RecoveryAssumption DEF Crash, TypeOK
  <2> QED
    BY <1>1, <2>1, Numbers DEF Crash, store, TypeOK
<1>2. CASE Restart
  <2>1. walSeq' \in Nat
    <3>1. walSeq' \in LargestOf({w.n : w \in wal})
      BY <1>2 DEF Restart
    <3>2. \A w \in wal : w.n \in Nat
      BY DEF TypeOK, WalEntries
    <3> QED
      BY <3>1, <3>2 DEF LargestOf
  <2>2. lastExec' \in 0 .. MaxSeq
    BY <1>2 DEF Restart, Bigger, TypeOK
  <2> QED
    BY <1>2, <2>1, <2>2 DEF Restart, store, TypeOK
<1> QED
  BY <1>1, <1>2

LEMMA InitTypes == Init => TypeOK
BY RecoveryAssumption, Numbers DEF Init, TypeOK, Balances

LEMMA StepTypes ==
    ASSUME TypeOK, StepsInv, [Next]_vars
    PROVE  TypeOK'
<1>1. CASE UNCHANGED vars
  BY <1>1 DEF vars, store, memory, TypeOK
<1> QED
  BY <1>1, HandlerTypes, StartTypes, MessageTypes, CrashTypes DEF Next

-----------------------------------------------------------------------------
(* The steps of a handler.  Parts is the invariant but for the types.      *)

Parts == StepsInv /\ PhaseInv /\ LogInv /\ CheckpointInv /\ OnceInv /\ CertificateInv

\* While start() runs the only puts are to the state and the ledger.
LEMMA NotStarting ==
    ASSUME TypeOK, PhaseInv, todo # <<>>, StepsInv, Head(todo).op \notin StartOps \cup DiskOps
    PROVE  status = "running"
<1>1. Head(todo) \in Range(todo)
  BY HeadAndTail DEF StepsInv
<1> QED
  BY <1>1 DEF PhaseInv, TypeOK

LEMMA PutPbftLogKeeps ==
    ASSUME TypeOK, TypeOK', Parts, PutPbftLog
    PROVE  Parts'
<1>1. /\ todo # <<>> /\ Head(todo).op = "log" /\ todo' = Tail(todo)
      /\ logs' = logs \cup {Head(todo).entry}
      /\ UNCHANGED <<wal, ledger, checkpoint, savedSeq, status, requests, lastExec, delivered, sent>>
  BY DEF PutPbftLog, At, memory
<1>2. /\ StepsInv' /\ Head(todo) \in Steps /\ Rest \subseteq Steps
      /\ Range(todo) = {Head(todo)} \cup Rest /\ Range(todo') = Rest
  BY <1>1, Pops DEF Parts
<1>3. \A x : x.op # "log" => (x \in Range(todo) <=> x \in Range(todo'))
  BY <1>1, <1>2
<1>4. \A e : Logged(e)' <=> Logged(e)
  BY <1>1, <1>2 DEF Logged
<1>5. PhaseInv'
  BY <1>1, <1>2, Numbers, PhaseKeeps DEF Parts, PhaseInv
<1>6. LogInv'
  BY <1>1, <1>4, Numbers, LogKeeps DEF Parts
<1>7. CheckpointInv'
  BY <1>1, <1>3, CheckpointKeeps DEF Parts
<1>8. \A s \in Seqs : /\ DiskDecided(s) => DiskDecided(s)'
                      /\ PreparedOnDisk(s) => PreparedOnDisk(s)'
  BY <1>1, Numbers, DiskGrows
<1>9. OnceInv'
  BY <1>1, <1>2, <1>3, <1>8, OnceKeeps DEF Parts, Moves, Decides
<1>10. CertificateInv'
  BY <1>1, <1>2, <1>3, <1>8, Numbers, CertificateKeeps DEF Parts, Rebuilt
<1> QED
  BY <1>2, <1>5, <1>6, <1>7, <1>9, <1>10 DEF Parts

\* A step that writes nothing of the log, the ledger, the checkpoint and the
\* decisions.
LEMMA QuietKeeps ==
    ASSUME TypeOK, TypeOK', Parts, todo # <<>>, todo' = Tail(todo),
           Head(todo).op \notin {"log", "transfer", "ledger", "checkpoint", "reconstruct"},
           ~Decides(Head(todo)),
           UNCHANGED <<logs, ledger, checkpoint, status, requests, delivered>>,
           \A w \in wal' : w.state = "COMMIT" => w \in wal,
           lastExec' >= lastExec, lastExec' >= savedSeq', savedSeq' >= savedSeq
    PROVE  /\ StepsInv' /\ PhaseInv' /\ LogInv' /\ CheckpointInv' /\ OnceInv'
           /\ sent' = sent => CertificateInv'
<1>1. /\ StepsInv' /\ Head(todo) \in Steps /\ Rest \subseteq Steps
      /\ Range(todo) = {Head(todo)} \cup Rest /\ Range(todo') = Rest
  BY Pops DEF Parts
<1>2. /\ lastExec' \in Int /\ savedSeq' \in Int /\ checkpoint'.seq \in Int
      /\ lastExec \in Int /\ savedSeq \in Int /\ checkpoint.seq \in Int
      /\ checkpoint'.seq >= checkpoint.seq
  BY Numbers DEF TypeOK
<1>3. \A x : x # Head(todo) => (x \in Range(todo) <=> x \in Range(todo'))
  BY <1>1
<1>4. \A e : Logged(e)' <=> Logged(e)
  BY <1>1 DEF Logged
<1>5. PhaseInv'
  BY <1>1, <1>2, PhaseKeeps DEF Parts
<1>6. LogInv'
  BY <1>2, <1>4, LogKeeps DEF Parts
<1>7. CheckpointInv'
  BY <1>1, <1>3, CheckpointKeeps DEF Parts
<1>8. \A s \in Seqs : /\ DiskDecided(s) => DiskDecided(s)'
                      /\ PreparedOnDisk(s) => PreparedOnDisk(s)'
  BY <1>2, DiskGrows
<1>9. OnceInv'
  <2>1. \A x : Moves(x) \/ Decides(x) => (x \in Range(todo) <=> x \in Range(todo'))
    BY <1>3 DEF Moves
  <2>2. Range(todo) \subseteq Steps /\ Range(todo') \subseteq Steps
    BY <1>1
  <2> QED
    BY <1>8, <2>1, <2>2, OnceKeeps DEF Parts
<1>10. ASSUME sent' = sent
       PROVE  CertificateInv'
  <2>1. Rebuilt' => Rebuilt
    BY <1>3 DEF Rebuilt
  <2>2. \A x \in Range(todo') : x.op = "send" => x \in Range(todo)
    BY <1>1
  <2> QED
    BY <1>2, <1>8, <1>10, <2>1, <2>2, CertificateKeeps DEF Parts
<1> QED
  BY <1>1, <1>5, <1>6, <1>7, <1>9, <1>10

LEMMA WritesKeep ==
    ASSUME TypeOK, TypeOK', Parts, WriteState \/ WriteLastSeq \/ PruneWal
    PROVE  Parts'
<1>1. /\ todo # <<>> /\ todo' = Tail(todo)
      /\ Head(todo).op \in {"state", "last_seq", "old_wal"}
      /\ UNCHANGED <<logs, ledger, checkpoint, status, requests, delivered, sent>>
      /\ wal' \subseteq wal
  BY DEF WriteState, WriteLastSeq, PruneWal, At, memory
<1>2. ~Decides(Head(todo))
  BY <1>1 DEF Decides
<1>3. lastExec >= savedSeq
  BY <1>1 DEF Parts, PhaseInv
<1>4. lastExec' >= lastExec /\ lastExec' >= savedSeq' /\ savedSeq' >= savedSeq
  <2>1. CASE WriteState \/ PruneWal
    BY <1>3, <2>1, Numbers DEF WriteState, PruneWal, memory
  <2>2. CASE WriteLastSeq
    <3>1. /\ lastExec' = Bigger(lastExec, Head(todo).seq) /\ savedSeq' = lastExec'
          /\ lastExec' \in Int
      BY <2>2, RecoveryAssumption DEF WriteLastSeq, TypeOK
    <3>2. Head(todo).seq \in 0 .. MaxSeq
      BY <2>2, HeadAndTail, StepFields DEF WriteLastSeq, At, Parts, StepsInv
    <3> QED
      BY <1>3, <3>1, <3>2, Numbers DEF Bigger
  <2> QED
    BY <2>1, <2>2
<1> QED
  BY <1>1, <1>2, <1>4, QuietKeeps DEF Parts

LEMMA PutWalKeeps ==
    ASSUME TypeOK, TypeOK', Parts, PutWal
    PROVE  Parts'
<1> DEFINE h == Head(todo)
           new == [n |-> walSeq + 1, state |-> h.state, tx |-> h.tx]
<1>1. /\ todo # <<>> /\ h.op = "wal" /\ todo' = Tail(todo)
      /\ wal' = wal \cup {new}
      /\ UNCHANGED <<logs, ledger, checkpoint, savedSeq, status, requests, lastExec, delivered, sent>>
  BY DEF PutWal, At
<1>2. /\ StepsInv' /\ h \in Steps /\ Rest \subseteq Steps
      /\ Range(todo) = {h} \cup Rest /\ Range(todo') = Rest
      /\ \A y \in Rest : Before(h, y)
  BY <1>1, Pops DEF Parts
<1>3. new.state = h.state /\ new.tx = h.tx /\ h.tx \in Seqs
  BY <1>1, <1>2, StepFields
<1>4. CASE ~Decides(h)
  <2>1. \A w \in wal' : w.state = "COMMIT" => w \in wal
    BY <1>1, <1>3, <1>4 DEF Decides
  <2>2. lastExec >= savedSeq
    BY <1>1 DEF Parts, PhaseInv
  <2> HIDE DEF new
  <2> QED
    BY <1>1, <1>4, <2>1, <2>2, Numbers, QuietKeeps DEF Parts
<1>5. CASE Decides(h)
  <2> HIDE DEF new, h
  <2> DEFINE s == h.tx
  <2>1. h.state = "COMMIT"
    BY <1>5 DEF Decides
  <2>2. \A x : x # h => (x \in Range(todo) <=> x \in Range(todo'))
    BY <1>2
  <2>3. \A e : Logged(e)' <=> Logged(e)
    BY <1>1, <1>2, <2>2 DEF Logged
  <2>4. PhaseInv' /\ LogInv' /\ CheckpointInv'
    <3>1. PhaseInv'
      BY <1>1, <1>2, Numbers, PhaseKeeps DEF Parts, PhaseInv
    <3>2. LogInv'
      BY <1>1, <2>3, Numbers, LogKeeps DEF Parts
    <3>3. CheckpointInv'
      BY <1>1, <1>2, <2>2, CheckpointKeeps DEF Parts
    <3> QED
      BY <3>1, <3>2, <3>3
  <2>5. \A t \in Seqs : /\ DiskDecided(t) => DiskDecided(t)'
                        /\ PreparedOnDisk(t) => PreparedOnDisk(t)'
    BY <1>1, Numbers, DiskGrows
  <2>6. CertificateInv'
    <3>1. Rebuilt' => Rebuilt
      BY <1>1, <2>2 DEF Rebuilt
    <3> QED
      BY <1>1, <1>2, <2>5, <3>1, Numbers, CertificateKeeps DEF Parts
  <2>7. Known(s) /\ ~InWal(s) /\ Cardinality(requests[s].commits) >= Quorum
    BY <1>2, <1>5 DEF Parts, OnceInv
  <2>8. Taken(s) /\ requests[s].decided
    BY <1>2, <1>3, <1>5, <2>7 DEF Parts, OnceInv
  <2>9. DiskDecided(s)
    \* No put to the log is left, so every COMMIT counted is in it.
    <3>1. \A x \in Range(todo) : x.op # "log"
      BY <1>1, <1>2, <2>1 DEF Before
    <3>2. s < checkpoint.seq \/ \A j \in requests[s].commits : Vote("COMMIT", s, j) \in logs
      BY <1>3, <2>7, <3>1 DEF Parts, LogInv, Logged
    <3>3. requests[s].commits \subseteq Sites
      <4>1. requests[s] \in RequestStates
        BY <1>3, <2>7 DEF TypeOK, Known
      <4> QED
        BY <4>1 DEF RequestStates
    <3>4. CASE \A j \in requests[s].commits : Vote("COMMIT", s, j) \in logs
      <4>1. requests[s].commits \subseteq Voters("COMMIT", s) /\ Voters("COMMIT", s) \subseteq Sites
        BY <3>3, <3>4 DEF Voters, Vote
      <4> QED
        BY <2>7, <4>1, LargerQuorum DEF DiskDecided
    <3> QED
      BY <3>2, <3>4 DEF DiskDecided
  <2>10. \A t : InWal(t)' <=> InWal(t) \/ t = s
    BY <1>1, <1>3, <2>1 DEF InWal
  <2>11. ASSUME NEW t \in Seqs,
                t \in ledger' \/ InWal(t)' \/ (\E x \in Range(todo') : (Moves(x) \/ Decides(x)) /\ x.tx = t)
         PROVE  Taken(t)' /\ (Known(t)' => requests'[t].decided)
    BY <1>1, <1>2, <2>8, <2>10, <2>11 DEF Parts, OnceInv, Taken, Known
  <2>12. ASSUME NEW v \in wal', NEW w \in wal', v.state = "COMMIT", w.state = "COMMIT", v.tx = w.tx
         PROVE  v = w
    BY <1>1, <1>3, <2>7, <2>12 DEF Parts, OnceInv, InWal
  <2>13. ASSUME NEW x \in Range(todo')
         PROVE  /\ Decides(x) => /\ Known(x.tx)' /\ ~InWal(x.tx)'
                                 /\ Cardinality(requests'[x.tx].commits) >= Quorum
                /\ x.op = "transfer" => x.tx \notin ledger'
                /\ Moves(x) => DiskDecided(x.tx)' \/ \E y \in Range(todo') : Decides(y) /\ y.tx = x.tx
    <3>1. x \in Range(todo) /\ Before(h, x)
      BY <1>2, <2>13
    <3>2. Decides(x) => x.tx # s
      BY <1>5, <3>1 DEF Before
    <3>3. Moves(x) => DiskDecided(x.tx)' \/ \E y \in Range(todo') : Decides(y) /\ y.tx = x.tx
      <4>1. SUFFICES ASSUME Moves(x)
                     PROVE  DiskDecided(x.tx)' \/ \E y \in Range(todo') : Decides(y) /\ y.tx = x.tx
        OBVIOUS
      <4>2. x.tx \in Seqs
        BY <1>2, <2>13, <4>1, StepFields
      <4>3. DiskDecided(x.tx) \/ \E y \in Range(todo) : Decides(y) /\ y.tx = x.tx
        BY <3>1, <4>1 DEF Parts, OnceInv
      <4> QED
        BY <1>3, <2>2, <2>5, <2>9, <4>2, <4>3
    <3> QED
      BY <1>1, <2>10, <3>1, <3>2, <3>3 DEF Parts, OnceInv, Known
  <2>14. ASSUME NEW t \in Seqs, t \in ledger' \/ InWal(t)'
         PROVE  DiskDecided(t)'
    BY <1>1, <2>5, <2>9, <2>10, <2>14 DEF Parts, OnceInv
  <2>15. OnceInv'
    BY <2>11, <2>12, <2>13, <2>14 DEF OnceInv, Quorum, Known, InWal, Taken
  <2> QED
    BY <1>2, <2>4, <2>6, <2>15 DEF Parts
<1> QED
  BY <1>4, <1>5

LEMMA BroadcastKeeps ==
    ASSUME TypeOK, TypeOK', Parts, Broadcast
    PROVE  Parts'
<1> DEFINE h == Head(todo)
<1>1. /\ todo # <<>> /\ h.op = "send" /\ todo' = Tail(todo)
      /\ sent' = sent \cup {[type |-> h.type, seq |-> h.seq]}
      /\ UNCHANGED <<wal, logs, ledger, checkpoint, savedSeq, status, requests, lastExec, delivered>>
  BY DEF Broadcast, At, store, memory
<1>2. /\ h \in Steps /\ Range(todo) = {h} \cup Rest /\ Range(todo') = Rest
      /\ \A y \in Rest : Before(h, y)
  BY <1>1, Pops DEF Parts
<1>3. StepsInv' /\ PhaseInv' /\ LogInv' /\ CheckpointInv' /\ OnceInv'
  <2>1. ~Decides(h)
    BY <1>1 DEF Decides
  <2>2. lastExec >= savedSeq
    BY <1>1 DEF Parts, PhaseInv
  <2> QED
    BY <1>1, <2>1, <2>2, Numbers, QuietKeeps
<1>4. status = "running" /\ h.seq \in Seqs
  BY <1>1, <1>2, NotStarting, StepFields DEF Parts, StartOps, DiskOps
<1>5. ASSUME h.type = "COMMIT"
      PROVE  Prepared(h.seq) /\ (h.seq < checkpoint.seq \/ PreparedOnDisk(h.seq))
  <2>1. Prepared(h.seq)
    BY <1>1, <1>2, <1>5 DEF Parts, CertificateInv
  <2>2. \A x \in Range(todo) : x.op # "log"
    BY <1>1, <1>2 DEF Before
  <2>3. \/ h.seq < checkpoint.seq
        \/ /\ Proposal(h.seq) \in logs
           /\ \A j \in requests[h.seq].prepares : Vote("PREPARE", h.seq, j) \in logs
    BY <1>4, <2>1, <2>2 DEF Parts, LogInv, Logged, Prepared
  <2>4. requests[h.seq].prepares \subseteq Sites
    <3>1. requests[h.seq] \in RequestStates
      BY <1>4, <2>1 DEF TypeOK, Prepared, Known
    <3> QED
      BY <3>1 DEF RequestStates
  <2>5. ASSUME Proposal(h.seq) \in logs,
               \A j \in requests[h.seq].prepares : Vote("PREPARE", h.seq, j) \in logs
        PROVE  PreparedOnDisk(h.seq)
    <3>1. /\ requests[h.seq].prepares \subseteq Voters("PREPARE", h.seq)
          /\ Voters("PREPARE", h.seq) \subseteq Sites
      BY <2>4, <2>5 DEF Voters, Vote
    <3> QED
      BY <2>1, <2>5, <3>1, LargerQuorum DEF PreparedOnDisk, Prepared
  <2> QED
    BY <2>1, <2>3, <2>5
<1>6. CertificateInv'
  <2> HIDE DEF h
  <2>1. \A s : /\ Committed(s)' => Committed(s) \/ (s = h.seq /\ h.type = "COMMIT")
               /\ Prepared(s)' <=> Prepared(s)
               /\ PreparedOnDisk(s)' <=> PreparedOnDisk(s)
    BY <1>1 DEF Committed, Prepared, PreparedOnDisk, Known, Voters, Proposal, Quorum
  <2>2. Rebuilt
    BY <1>4 DEF Rebuilt
  <2>3. ASSUME NEW s \in Seqs, Committed(s)'
        PROVE  /\ s <= savedSeq' \/ s < checkpoint'.seq \/ PreparedOnDisk(s)'
               /\ Rebuilt' /\ s > lastExec' => Prepared(s)'
    BY <1>1, <1>5, <2>1, <2>2, <2>3 DEF Parts, CertificateInv
  <2>4. \A x \in Range(todo') : x.op = "send" /\ x.type = "COMMIT" => Prepared(x.seq)'
    BY <1>2, <2>1 DEF Parts, CertificateInv
  <2> QED
    BY <2>3, <2>4 DEF CertificateInv, Committed, Prepared, PreparedOnDisk, Rebuilt, Known, Voters, Proposal, Quorum
<1> QED
  BY <1>3, <1>6 DEF Parts

LEMMA WriteLedgerKeeps ==
    ASSUME TypeOK, TypeOK', Parts, WriteLedger
    PROVE  Parts'
<1> DEFINE h == Head(todo)
<1>1. /\ todo # <<>> /\ h.op = "ledger" /\ todo' = Tail(todo)
      /\ ledger' = ledger \cup {h.tx}
      /\ UNCHANGED <<wal, logs, checkpoint, savedSeq, status, requests, lastExec, delivered, sent>>
  BY DEF WriteLedger, At, memory
<1>2. /\ StepsInv' /\ h \in Steps /\ Rest \subseteq Steps
      /\ Range(todo) = {h} \cup Rest /\ Range(todo') = Rest
      /\ \A y \in Rest : Before(h, y)
  BY <1>1, Pops DEF Parts
<1>3. Moves(h) /\ h.tx \in Seqs
  BY <1>1, <1>2, StepFields DEF Moves
<1> HIDE DEF h
<1>4. \A x : x # h => (x \in Range(todo) <=> x \in Range(todo'))
  BY <1>2
<1>5. \A e : Logged(e)' <=> Logged(e)
  BY <1>1, <1>2, <1>4 DEF Logged
<1>6. PhaseInv' /\ LogInv' /\ CheckpointInv'
  <2>1. PhaseInv'
    BY <1>1, <1>2, Numbers, PhaseKeeps DEF Parts, PhaseInv
  <2>2. LogInv'
    BY <1>1, <1>5, Numbers, LogKeeps DEF Parts
  <2>3. CheckpointInv'
    BY <1>1, <1>2, <1>4, CheckpointKeeps DEF Parts
  <2> QED
    BY <2>1, <2>2, <2>3
<1>7. \A t \in Seqs : /\ DiskDecided(t) => DiskDecided(t)'
                      /\ PreparedOnDisk(t) => PreparedOnDisk(t)'
  BY <1>1, Numbers, DiskGrows
<1>8. CertificateInv'
  <2>1. Rebuilt' => Rebuilt
    BY <1>1, <1>4 DEF Rebuilt
  <2> QED
    BY <1>1, <1>2, <1>7, <2>1, Numbers, CertificateKeeps DEF Parts
<1>9. Taken(h.tx) /\ (Known(h.tx) => requests[h.tx].decided)
  BY <1>2, <1>3 DEF Parts, OnceInv
<1>10. DiskDecided(h.tx)
  \* A decision still to be put into the WAL would come before the ledger.
  <2>1. ~ \E y \in Range(todo) : Decides(y) /\ y.tx = h.tx
    <3>1. ~Decides(h)
      BY <1>1 DEF Decides
    <3> QED
      BY <1>2, <1>3, <3>1 DEF Before
  <2> QED
    BY <1>2, <1>3, <2>1 DEF Parts, OnceInv
<1>11. \A t : InWal(t)' <=> InWal(t)
  BY <1>1 DEF InWal
<1>12. ASSUME NEW t \in Seqs,
              t \in ledger' \/ InWal(t)' \/ (\E x \in Range(todo') : (Moves(x) \/ Decides(x)) /\ x.tx = t)
       PROVE  Taken(t)' /\ (Known(t)' => requests'[t].decided)
  BY <1>1, <1>2, <1>9, <1>11, <1>12 DEF Parts, OnceInv, Taken, Known
<1>13. ASSUME NEW x \in Range(todo')
       PROVE  /\ Decides(x) => /\ Known(x.tx)' /\ ~InWal(x.tx)'
                               /\ Cardinality(requests'[x.tx].commits) >= Quorum
              /\ x.op = "transfer" => x.tx \notin ledger'
              /\ Moves(x) => DiskDecided(x.tx)' \/ \E y \in Range(todo') : Decides(y) /\ y.tx = x.tx
  <2>1. x \in Range(todo) /\ x \in Steps /\ Before(h, x)
    BY <1>2, <1>13
  <2>2. x.op = "transfer" => x.tx \notin ledger'
    BY <1>1, <1>3, <2>1 DEF Parts, OnceInv, Before, Moves
  <2>3. ASSUME Moves(x)
        PROVE  DiskDecided(x.tx)' \/ \E y \in Range(todo') : Decides(y) /\ y.tx = x.tx
    <3>1. x.tx \in Seqs
      BY <2>1, <2>3, StepFields
    <3>2. DiskDecided(x.tx) \/ \E y \in Range(todo) : Decides(y) /\ y.tx = x.tx
      BY <2>1, <2>3 DEF Parts, OnceInv
    <3>3. ~Decides(h)
      BY <1>1 DEF Decides
    <3> QED
      BY <1>4, <1>7, <3>1, <3>2, <3>3
  <2>4. Decides(x) => Known(x.tx)' /\ ~InWal(x.tx)' /\ Cardinality(requests'[x.tx].commits) >= Quorum
    BY <1>1, <1>11, <2>1 DEF Parts, OnceInv, Known
  <2> QED
    BY <2>2, <2>3, <2>4
<1>14. ASSUME NEW t \in Seqs, t \in ledger' \/ InWal(t)'
       PROVE  DiskDecided(t)'
  BY <1>1, <1>7, <1>10, <1>11, <1>14 DEF Parts, OnceInv
<1>15. \A v, w \in wal' : v.state = "COMMIT" /\ w.state = "COMMIT" /\ v.tx = w.tx => v = w
  BY <1>1 DEF Parts, OnceInv
<1>16. OnceInv'
  BY <1>12, <1>13, <1>14, <1>15 DEF OnceInv, Quorum, Known, InWal, Taken
<1> QED
  BY <1>2, <1>6, <1>8, <1>16 DEF Parts

LEMMA WriteCheckpointKeeps ==
    ASSUME TypeOK, TypeOK', Parts, WriteCheckpoint
    PROVE  Parts'
<1> DEFINE h == Head(todo)
<1>1. /\ todo # <<>> /\ h.op = "checkpoint" /\ todo' = Tail(todo)
      /\ checkpoint'.seq = h.seq
      /\ UNCHANGED <<wal, logs, ledger, savedSeq, status, requests, lastExec, delivered, sent>>
  BY DEF WriteCheckpoint, At
<1>2. /\ StepsInv' /\ h \in Steps /\ Rest \subseteq Steps
      /\ Range(todo) = {h} \cup Rest /\ Range(todo') = Rest
      /\ \A y \in Rest : Before(h, y)
  BY <1>1, Pops DEF Parts
<1>3. status = "running" /\ h.seq \in Seqs /\ h.seq > checkpoint.seq
  BY <1>1, <1>2, NotStarting, StepFields DEF Parts, StartOps, DiskOps, CheckpointInv
<1> HIDE DEF h
<1>4. \A x : x # h => (x \in Range(todo) <=> x \in Range(todo'))
  BY <1>2
<1>5. checkpoint.seq \in Int /\ checkpoint'.seq \in Int /\ checkpoint'.seq >= checkpoint.seq
  BY <1>1, <1>3, Numbers
<1>6. PhaseInv' /\ LogInv'
  <2>1. PhaseInv'
    BY <1>1, <1>2, <1>3, Numbers, PhaseKeeps DEF Parts, PhaseInv
  <2>2. \A e : Logged(e)' <=> Logged(e)
    BY <1>1, <1>2, <1>4 DEF Logged
  <2>3. LogInv'
    BY <1>1, <1>5, <2>2, LogKeeps DEF Parts
  <2> QED
    BY <2>1, <2>3
<1>7. CheckpointInv'
  <2> SUFFICES ASSUME NEW x \in Rest
               PROVE  /\ x.op # "checkpoint"
                      /\ x.op = "old_logs" => x.seq <= checkpoint'.seq
    BY <1>2 DEF CheckpointInv
  <2>1. \A y \in Rest : y.op # "checkpoint"
    BY <1>2 DEF Before
  <2>2. ASSUME x.op = "old_logs"
        PROVE  x.seq <= checkpoint'.seq
    <3>1. x.seq \in Int
      BY <1>2, <2>2, StepFields DEF Seqs
    <3>2. x.seq <= checkpoint.seq \/ x.seq = h.seq
      BY <1>2, <2>1, <2>2 DEF Parts, CheckpointInv
    <3> QED
      BY <1>1, <1>5, <3>1, <3>2
  <2> QED
    BY <2>1, <2>2
<1>8. \A t \in Seqs : /\ DiskDecided(t) => DiskDecided(t)'
                      /\ PreparedOnDisk(t) => PreparedOnDisk(t)'
  BY <1>1, <1>5, DiskGrows
<1>9. OnceInv'
  <2>1. \A x : Moves(x) \/ Decides(x) => (x \in Range(todo) <=> x \in Range(todo'))
    BY <1>1, <1>4 DEF Moves, Decides
  <2>2. Range(todo) \subseteq Steps /\ Range(todo') \subseteq Steps
    BY <1>2
  <2> QED
    BY <1>1, <1>8, <2>1, <2>2, OnceKeeps DEF Parts
<1>10. CertificateInv'
  <2>1. Rebuilt' => Rebuilt
    BY <1>1, <1>4 DEF Rebuilt
  <2> QED
    BY <1>1, <1>2, <1>5, <1>8, <2>1, Numbers, CertificateKeeps DEF Parts
<1> QED
  BY <1>2, <1>6, <1>7, <1>9, <1>10 DEF Parts

LEMMA PruneLogsKeeps ==
    ASSUME TypeOK, TypeOK', Parts, PruneLogs
    PROVE  Parts'
<1> DEFINE h == Head(todo)
<1>1. /\ todo # <<>> /\ h.op = "old_logs" /\ todo' = Tail(todo)
      /\ logs' = {e \in logs : e.seq >= h.seq}
      /\ UNCHANGED <<wal, ledger, checkpoint, savedSeq, status, requests, lastExec, delivered, sent>>
  BY DEF PruneLogs, At, memory
<1>2. /\ StepsInv' /\ h \in Steps /\ Rest \subseteq Steps
      /\ Range(todo) = {h} \cup Rest /\ Range(todo') = Rest
      /\ \A y \in Rest : Before(h, y)
  BY <1>1, Pops DEF Parts
<1>3. h.seq \in Int /\ h.seq <= checkpoint.seq
  \* The checkpoint has been written: nothing but the first step writes one.
  <2>1. \A y \in Range(todo) : y.op # "checkpoint"
    BY <1>1, <1>2 DEF Before
  <2> QED
    BY <1>1, <1>2, <2>1, StepFields DEF Parts, CheckpointInv, Seqs
<1> HIDE DEF h
<1>4. \A x : x # h => (x \in Range(todo) <=> x \in Range(todo'))
  BY <1>2
<1>5. \A s \in Seqs : s \in Int /\ (s >= checkpoint.seq => s >= h.seq)
  BY <1>3, Numbers
<1>6. \A e : Logged(e)' <=> e \in logs' \/ \E x \in Range(todo) : x.op = "log" /\ x.entry = e
  BY <1>1, <1>4 DEF Logged
<1>7. ASSUME NEW s \in Seqs, s >= checkpoint.seq
      PROVE  /\ Proposal(s) \in logs => Proposal(s) \in logs'
             /\ \A t, j : Vote(t, s, j) \in logs => Vote(t, s, j) \in logs'
  BY <1>1, <1>5, <1>7 DEF Proposal, Vote
<1>8. PhaseInv'
  BY <1>1, <1>2, Numbers, PhaseKeeps DEF Parts, PhaseInv
<1>9. LogInv'
  <2> SUFFICES ASSUME NEW s \in Seqs
               PROVE  /\ Known(s) \/ Logged(Proposal(s))' => Taken(s)
                      /\ Known(s) => \/ s < checkpoint.seq
                                     \/ /\ Logged(Proposal(s))'
                                        /\ \A j \in requests[s].prepares : Logged(Vote("PREPARE", s, j))'
                                        /\ \A j \in requests[s].commits : Logged(Vote("COMMIT", s, j))'
    BY <1>1 DEF LogInv, Known, Taken, Proposal, Vote
  <2>1. Logged(Proposal(s))' => Logged(Proposal(s))
    BY <1>1, <1>6 DEF Logged
  <2>2. CASE s < checkpoint.seq
    BY <2>1, <2>2 DEF Parts, LogInv
  <2>3. CASE ~(s < checkpoint.seq)
    <3>1. s >= checkpoint.seq
      BY <2>3, Numbers
    <3> QED
      BY <1>6, <1>7, <2>1, <2>3, <3>1 DEF Parts, LogInv, Logged
  <2> QED
    BY <2>2, <2>3
<1>10. CheckpointInv'
  BY <1>1, <1>2, <1>4, CheckpointKeeps DEF Parts
<1>11. \A s \in Seqs : /\ DiskDecided(s) => DiskDecided(s)'
                       /\ PreparedOnDisk(s) => s < checkpoint'.seq \/ PreparedOnDisk(s)'
  <2> SUFFICES ASSUME NEW s \in Seqs, ~(s < checkpoint.seq)
               PROVE  /\ DiskDecided(s) => DiskDecided(s)'
                      /\ PreparedOnDisk(s) => PreparedOnDisk(s)'
    BY <1>1 DEF DiskDecided
  <2>1. s >= checkpoint.seq
    BY Numbers
  <2>2. \A t : Voters(t, s) \subseteq Voters(t, s)' /\ Voters(t, s)' \subseteq Sites
    BY <1>7, <2>1 DEF Voters, Vote, Sites
  <2>3. \A t : Cardinality(Voters(t, s)) >= Quorum => Cardinality(Voters(t, s)') >= Quorum
    BY <2>2, LargerQuorum
  <2> QED
    BY <1>7, <2>1, <2>3 DEF DiskDecided, PreparedOnDisk, Proposal, Quorum
<1>12. OnceInv'
  <2>1. \A x : Moves(x) \/ Decides(x) => (x \in Range(todo) <=> x \in Range(todo'))
    BY <1>1, <1>4 DEF Moves, Decides
  <2>2. Range(todo) \subseteq Steps /\ Range(todo') \subseteq Steps
    BY <1>2
  <2> QED
    BY <1>1, <1>11, <2>1, <2>2, OnceKeeps DEF Parts
<1>13. CertificateInv'
  <2>1. Rebuilt' => Rebuilt
    BY <1>1, <1>4 DEF Rebuilt
  <2> QED
    BY <1>1, <1>2, <1>11, <2>1, Numbers, CertificateKeeps DEF Parts
<1> QED
  BY <1>2, <1>8, <1>9, <1>10, <1>12, <1>13 DEF Parts

\* What start() makes of the log is no more and no less than what it can need:
\* certificates above the last executed number, and decisions as decisions.
LEMMA ReconstructKeeps ==
    ASSUME TypeOK, TypeOK', Parts, ReconstructRequests
    PROVE  Parts'
<1> DEFINE h == Head(todo)
<1>1. /\ todo # <<>> /\ h.op = "reconstruct" /\ todo' = Tail(todo)
      /\ requests' = [s \in Seqs |-> Reconstructed(s)]
      /\ UNCHANGED <<wal, logs, ledger, checkpoint, savedSeq, status, lastExec, delivered, sent>>
  BY DEF ReconstructRequests, At, store
<1>2. /\ StepsInv' /\ h \in Steps /\ Rest \subseteq Steps
      /\ Range(todo) = {h} \cup Rest /\ Range(todo') = Rest
  BY <1>1, Pops DEF Parts
<1>3. /\ status = "starting" /\ lastExec >= checkpoint.seq /\ lastExec >= savedSeq
      /\ \A x \in Range(todo) : x.op \in StartOps \cup DiskOps
  BY <1>1, <1>2 DEF Parts, PhaseInv, TypeOK, StartOps
<1>4. \A x \in Range(todo) : x.op \notin {"log", "send", "checkpoint", "old_logs"} /\ ~Decides(x)
  BY <1>3 DEF StartOps, DiskOps, Decides
<1> HIDE DEF h
<1>5. \A e : (Logged(e)' <=> e \in logs) /\ (Logged(e) <=> e \in logs)
  BY <1>1, <1>2, <1>4 DEF Logged
<1>6. ASSUME NEW s \in Seqs
      PROVE  /\ Known(s)' <=> s > lastExec /\ Proposal(s) \in logs
             /\ Known(s)' => /\ requests'[s].prepares = Voters("PREPARE", s)
                             /\ requests'[s].commits = Voters("COMMIT", s)
                             /\ requests'[s].decided <=> Cardinality(Voters("COMMIT", s)) >= Quorum
  <2> DEFINE r == [prepares |-> Voters("PREPARE", s), commits |-> Voters("COMMIT", s),
                   decided |-> ReconstructedPhase(s) = "executed",
                   phase |-> ReconstructedPhase(s)]
  <2>1. r \in RequestStates
    BY DEF RequestStates, ReconstructedPhase, Voters
  <2>2. r # NoRequest
    BY <2>1, RecoveryAssumption
  <2>3. requests'[s] = IF s > lastExec /\ Proposal(s) \in logs THEN r ELSE NoRequest
    BY <1>1 DEF Reconstructed, Proposal
  <2>4. ReconstructedPhase(s) = "executed" <=> Cardinality(Voters("COMMIT", s)) >= Quorum
    BY DEF ReconstructedPhase
  <2>5. /\ r.prepares = Voters("PREPARE", s) /\ r.commits = Voters("COMMIT", s)
        /\ r.decided <=> Cardinality(Voters("COMMIT", s)) >= Quorum
    BY <2>4
  <2> HIDE DEF r
  <2>6. Known(s)' <=> requests'[s] # NoRequest
    BY DEF Known
  <2> QED
    BY <2>2, <2>3, <2>5, <2>6
<1>7. PhaseInv'
  BY <1>1, <1>2, Numbers, PhaseKeeps DEF Parts, PhaseInv
<1>8. LogInv'
  <2> SUFFICES ASSUME NEW s \in Seqs
               PROVE  /\ Known(s)' \/ Proposal(s) \in logs => Taken(s)
                      /\ Known(s)' => /\ Proposal(s) \in logs
                                      /\ \A j \in requests'[s].prepares : Vote("PREPARE", s, j) \in logs
                                      /\ \A j \in requests'[s].commits : Vote("COMMIT", s, j) \in logs
    BY <1>1, <1>5 DEF LogInv, Taken, Proposal, Vote, Known
  <2>1. Proposal(s) \in logs => Taken(s)
    BY <1>5 DEF Parts, LogInv
  <2> QED
    BY <1>6, <2>1 DEF Voters, Vote
<1>9. CheckpointInv'
  BY <1>2, <1>4 DEF CheckpointInv
<1>10. OnceInv'
  <2>1. \A s : (DiskDecided(s)' <=> DiskDecided(s)) /\ (InWal(s)' <=> InWal(s))
    BY <1>1 DEF DiskDecided, Voters, InWal, Quorum
  <2>2. ASSUME NEW s \in Seqs,
               s \in ledger \/ InWal(s) \/ (\E x \in Range(todo) : Moves(x) /\ x.tx = s)
        PROVE  Taken(s) /\ DiskDecided(s)
    BY <1>4, <2>2 DEF Parts, OnceInv
  <2>3. ASSUME NEW s \in Seqs, DiskDecided(s), Known(s)'
        PROVE  requests'[s].decided
    <3>1. s > lastExec
      BY <1>6, <2>3
    <3>2. ~(s < checkpoint.seq)
      BY <1>3, <3>1, Numbers
    <3> QED
      BY <1>6, <2>3, <3>2 DEF DiskDecided
  <2>4. ASSUME NEW s \in Seqs,
               s \in ledger' \/ InWal(s)' \/ (\E x \in Range(todo') : (Moves(x) \/ Decides(x)) /\ x.tx = s)
        PROVE  Taken(s)' /\ (Known(s)' => requests'[s].decided)
    BY <1>1, <1>2, <1>4, <2>1, <2>2, <2>3, <2>4 DEF Taken
  <2>5. ASSUME NEW x \in Range(todo')
        PROVE  /\ ~Decides(x) /\ (x.op = "transfer" => x.tx \notin ledger')
               /\ Moves(x) => DiskDecided(x.tx)'
    BY <1>1, <1>2, <1>4, <2>1 DEF Parts, OnceInv
  <2>6. \A v, w \in wal' : v.state = "COMMIT" /\ w.state = "COMMIT" /\ v.tx = w.tx => v = w
    BY <1>1 DEF Parts, OnceInv
  <2>7. \A s \in Seqs : s \in ledger' \/ InWal(s)' => DiskDecided(s)'
    BY <1>1, <2>1 DEF Parts, OnceInv
  <2> QED
    BY <2>4, <2>5, <2>6, <2>7 DEF OnceInv, Quorum, Known, InWal, Taken
<1>11. CertificateInv'
  <2>1. \A s : (Committed(s)' <=> Committed(s)) /\ (PreparedOnDisk(s)' <=> PreparedOnDisk(s))
    BY <1>1 DEF Committed, PreparedOnDisk, Voters, Proposal, Quorum
  <2>2. ASSUME NEW s \in Seqs, Committed(s)
        PROVE  /\ s <= savedSeq \/ s < checkpoint.seq \/ PreparedOnDisk(s)
               /\ s > lastExec => Prepared(s)'
    <3>1. s <= savedSeq \/ s < checkpoint.seq \/ PreparedOnDisk(s)
      BY <2>2 DEF Parts, CertificateInv
    <3>2. s > lastExec => ~(s <= savedSeq) /\ ~(s < checkpoint.seq)
      BY <1>3, Numbers
    <3>3. s > lastExec => Prepared(s)'
      BY <1>6, <3>1, <3>2 DEF PreparedOnDisk, Prepared, Known, Quorum
    <3> QED
      BY <3>1, <3>3
  <2>3. \A x \in Range(todo') : x.op # "send"
    BY <1>2, <1>4
  <2> QED
    BY <1>1, <2>1, <2>2, <2>3
    DEF CertificateInv, Committed, Prepared, PreparedOnDisk, Rebuilt, Known, Voters, Proposal, Quorum
<1> QED
  BY <1>2, <1>7, <1>8, <1>9, <1>10, <1>11 DEF Parts

-----------------------------------------------------------------------------
(* Steps that put others in their place *)

LEMMA PushKeeps ==
    ASSUME TypeOK, Parts, todo # <<>>, NEW pre \in Seq(Steps), todo' = pre \o Tail(todo),
           Ordered(pre), \A x \in Range(pre), y \in Rest : Before(Head(todo), y) => Before(x, y),
           Head(todo).op \notin {"log", "checkpoint", "reconstruct"}, ~Decides(Head(todo)),
           UNCHANGED <<store, status, requests, lastExec, delivered, sent>>,
           \A x \in Range(pre) :
              /\ x.op \notin StartOps \cup {"log", "send", "wal"}
              /\ status = "starting" => x.op \in DiskOps
    PROVE  /\ StepsInv' /\ PhaseInv' /\ LogInv' /\ CertificateInv'
           /\ (\A x \in Range(pre) : x.op \notin {"checkpoint", "old_logs"}) => CheckpointInv'
           /\ (\A x \in Range(pre) \cup {Head(todo)} : ~Moves(x)) => OnceInv'
<1>1. /\ StepsInv' /\ Head(todo) \in Steps /\ Rest \subseteq Steps
      /\ Range(todo) = {Head(todo)} \cup Rest /\ Range(todo') = Range(pre) \cup Rest
  BY Goes DEF Parts
<1>2. /\ UNCHANGED <<wal, logs, ledger, checkpoint, savedSeq>>
      /\ lastExec \in Int /\ savedSeq \in Int /\ checkpoint.seq \in Int
      /\ lastExec >= savedSeq
  BY Numbers DEF store, Parts, PhaseInv
<1>3. PhaseInv'
  BY <1>1, <1>2, PhaseKeeps DEF Parts
<1>4. LogInv'
  <2>1. \A e : Logged(e)' <=> Logged(e)
    BY <1>1, <1>2 DEF Logged
  <2> QED
    BY <1>2, <2>1, LogKeeps DEF Parts
<1>5. \A s \in Seqs : /\ DiskDecided(s) => DiskDecided(s)'
                      /\ PreparedOnDisk(s) => PreparedOnDisk(s)'
  BY <1>2, DiskGrows
<1>6. CertificateInv'
  <2>1. Rebuilt' => Rebuilt
    BY <1>1 DEF Rebuilt
  <2> QED
    BY <1>1, <1>2, <1>5, <2>1, CertificateKeeps DEF Parts
<1>7. ASSUME \A x \in Range(pre) : x.op \notin {"checkpoint", "old_logs"}
      PROVE  CheckpointInv'
  BY <1>1, <1>2, <1>7, CheckpointKeeps DEF Parts
<1>8. ASSUME \A x \in Range(pre) \cup {Head(todo)} : ~Moves(x)
      PROVE  OnceInv'
  <2>1. \A x : Moves(x) \/ Decides(x) => (x \in Range(todo) <=> x \in Range(todo'))
    BY <1>1, <1>8 DEF Decides
  <2>2. Range(todo) \subseteq Steps /\ Range(todo') \subseteq Steps
    <3>1. Range(pre) \subseteq Steps
      BY LenProperties, ElementOfSeq DEF Range
    <3> QED
      BY <1>1, <3>1
  <2> QED
    BY <1>2, <1>5, <2>1, <2>2, OnceKeeps DEF Parts
<1> QED
  BY <1>1, <1>3, <1>4, <1>6, <1>7, <1>8

LEMMA LoadingSteps ==
    ASSUME TypeOK, LoadLedger \/ SyncWithPeers
    PROVE  /\ todo # <<>> /\ Head(todo).op \in {"load_ledger", "sync"}
           /\ \E pre \in Seq(Steps) :
                 /\ todo' = pre \o Tail(todo) /\ Ordered(pre)
                 /\ \A x \in Range(pre) : x.op = "last_seq"
<1>1. PICK pre : /\ todo # <<>> /\ todo' = pre \o Tail(todo)
                 /\ pre = <<>> \/ \E p \in 0 .. MaxSeq : pre = <<SaveLastSeq(p)>>
  <2>1. CASE LoadLedger
    <3>1. PICK s \in LargestOf(ledger) : todo' = <<SaveLastSeq(s)>> \o Tail(todo)
      BY <2>1 DEF LoadLedger
    <3>2. s \in 0 .. MaxSeq
      <4>1. ledger \subseteq 0 .. MaxSeq
        BY Numbers DEF TypeOK
      <4> QED
        BY <4>1, Numbers, LargestOfNumbers
    <3> QED
      BY <2>1, <3>1, <3>2 DEF LoadLedger, At
  <2>2. CASE SyncWithPeers
    BY <2>2 DEF SyncWithPeers, At
  <2> QED
    BY <2>1, <2>2
<1>2. Head(todo).op \in {"load_ledger", "sync"}
  BY DEF LoadLedger, SyncWithPeers, At
<1>3. pre \in Seq(Steps) /\ Ordered(pre) /\ \A x \in Range(pre) : x.op = "last_seq"
  <2>1. CASE pre = <<>>
    BY <2>1, Empty
  <2>2. ASSUME NEW p \in 0 .. MaxSeq, pre = <<SaveLastSeq(p)>>
        PROVE  pre \in Seq(Steps) /\ Ordered(pre) /\ \A x \in Range(pre) : x.op = "last_seq"
    <3>1. SaveLastSeq(p) \in Steps /\ SaveLastSeq(p).op = "last_seq"
      BY DEF Steps, SaveLastSeq
    <3> QED
      BY <2>2, <3>1, One
  <2> QED
    BY <1>1, <2>1, <2>2
<1> QED
  BY <1>1, <1>2, <1>3

LEMMA LoadingKeeps ==
    ASSUME TypeOK, Parts, LoadLedger \/ SyncWithPeers
    PROVE  Parts'
<1>1. PICK pre \in Seq(Steps) : /\ todo' = pre \o Tail(todo) /\ Ordered(pre)
                                /\ \A x \in Range(pre) : x.op = "last_seq"
  BY LoadingSteps
<1>2. /\ todo # <<>> /\ Head(todo).op \in {"load_ledger", "sync"}
      /\ UNCHANGED <<store, status, requests, lastExec, delivered, sent>>
  BY LoadingSteps DEF LoadLedger, SyncWithPeers, memory
<1>3. \A x \in Range(pre), y \in Rest : Before(Head(todo), y) => Before(x, y)
  BY <1>1, <1>2 DEF Before, Moves, Decides
<1>4. /\ \A x \in Range(pre) \cup {Head(todo)} : ~Moves(x)
      /\ ~Decides(Head(todo))
  BY <1>1, <1>2 DEF Moves, Decides
<1> QED
  BY <1>1, <1>2, <1>3, <1>4, PushKeeps DEF Parts, StartOps, DiskOps

LEMMA CheckpointSteps ==
    ASSUME NEW s \in Seqs, NEW pre,
           \/ pre = <<>>
           \/ /\ pre = <<SaveCheckpoint(s), DeleteOldWal(s), DeleteOldLogs(s)>>
              /\ s > checkpoint.seq
    PROVE  /\ pre \in Seq(Steps) /\ Ordered(pre)
           /\ \A x \in Range(pre) :
                 /\ x.op \in {"checkpoint", "old_wal", "old_logs"} /\ x.seq = s
                 /\ s > checkpoint.seq /\ \E y \in Range(pre) : y.op = "checkpoint" /\ y.seq = s
<1>1. CASE pre = <<>>
  BY <1>1, Empty
<1>2. CASE pre = <<SaveCheckpoint(s), DeleteOldWal(s), DeleteOldLogs(s)>> /\ s > checkpoint.seq
  <2>1. SaveCheckpoint(s) \in Steps /\ DeleteOldWal(s) \in Steps /\ DeleteOldLogs(s) \in Steps
    BY DEF Steps, SaveCheckpoint, DeleteOldWal, DeleteOldLogs
  <2>2. /\ Before(SaveCheckpoint(s), DeleteOldWal(s))
        /\ Before(SaveCheckpoint(s), DeleteOldLogs(s))
        /\ Before(DeleteOldWal(s), DeleteOldLogs(s))
    BY DEF Before, Moves, Decides, SaveCheckpoint, DeleteOldWal, DeleteOldLogs
  <2>3. /\ SaveCheckpoint(s).op = "checkpoint" /\ SaveCheckpoint(s).seq = s
        /\ DeleteOldWal(s).op = "old_wal" /\ DeleteOldWal(s).seq = s
        /\ DeleteOldLogs(s).op = "old_logs" /\ DeleteOldLogs(s).seq = s
    BY DEF SaveCheckpoint, DeleteOldWal, DeleteOldLogs
  <2>4. /\ pre \in Seq(Steps) /\ Ordered(pre)
        /\ Range(pre) = {SaveCheckpoint(s), DeleteOldWal(s), DeleteOldLogs(s)}
    BY <1>2, <2>1, <2>2, Three
  <2> QED
    BY <1>2, <2>3, <2>4
<1> QED
  BY <1>1, <1>2

LEMMA VoteCheckpointSteps ==
    ASSUME TypeOK, StepsInv, PhaseInv, VoteCheckpoint
    PROVE  /\ todo # <<>> /\ Head(todo).op = "trigger" /\ status = "running"
           /\ \E pre \in Seq(Steps) :
                 /\ todo' = pre \o Tail(todo) /\ Ordered(pre)
                 /\ \A x \in Range(pre) :
                       /\ x.op \in {"checkpoint", "old_wal", "old_logs"} /\ x.seq > checkpoint.seq
                       /\ \E y \in Range(pre) : y.op = "checkpoint" /\ y.seq = x.seq
<1> DEFINE h == Head(todo)
           s == h.seq
<1>1. PICK pre : /\ todo # <<>> /\ todo' = pre \o Tail(todo)
                 /\ \/ pre = <<>>
                    \/ /\ pre = <<SaveCheckpoint(s), DeleteOldWal(s), DeleteOldLogs(s)>>
                       /\ s > checkpoint.seq
  BY DEF VoteCheckpoint, CountCheckpointVote, At
<1>2. h.op = "trigger"
  BY DEF VoteCheckpoint, At
<1>3. h \in Steps /\ status = "running"
  BY <1>1, <1>2, HeadAndTail, NotStarting DEF StepsInv, StartOps, DiskOps
<1>4. s \in Seqs
  BY <1>2, <1>3, StepFields
<1> HIDE DEF s
<1>5. /\ pre \in Seq(Steps) /\ Ordered(pre)
      /\ \A x \in Range(pre) :
            /\ x.op \in {"checkpoint", "old_wal", "old_logs"} /\ x.seq = s
            /\ s > checkpoint.seq /\ \E y \in Range(pre) : y.op = "checkpoint" /\ y.seq = s
  BY <1>1, <1>4, CheckpointSteps
<1> QED
  BY <1>1, <1>2, <1>3, <1>5

LEMMA VoteCheckpointKeeps ==
    ASSUME TypeOK, Parts, VoteCheckpoint
    PROVE  Parts'
<1> DEFINE h == Head(todo)
<1>1. PICK pre \in Seq(Steps) :
          /\ todo' = pre \o Tail(todo) /\ Ordered(pre)
          /\ \A x \in Range(pre) :
                /\ x.op \in {"checkpoint", "old_wal", "old_logs"} /\ x.seq > checkpoint.seq
                /\ \E y \in Range(pre) : y.op = "checkpoint" /\ y.seq = x.seq
  BY VoteCheckpointSteps DEF Parts
<1>2. /\ todo # <<>> /\ h.op = "trigger" /\ status = "running"
      /\ UNCHANGED <<store, status, requests, lastExec, delivered, sent>>
  BY VoteCheckpointSteps DEF Parts, VoteCheckpoint
<1> HIDE DEF h
<1>3. \A x \in Range(pre), y \in Rest : Before(h, y) => Before(x, y)
  BY <1>1, <1>2 DEF Before, Moves, Decides
<1>4. /\ \A x \in Range(pre) \cup {h} : ~Moves(x)
      /\ ~Decides(h)
  BY <1>1, <1>2 DEF Moves, Decides
<1>5. /\ \A x \in Range(pre) : /\ x.op \notin StartOps \cup {"log", "send", "wal"}
                               /\ status = "starting" => x.op \in DiskOps
      /\ h.op \notin {"log", "checkpoint", "reconstruct"}
  BY <1>1, <1>2 DEF StartOps
<1>6. StepsInv' /\ PhaseInv' /\ LogInv' /\ CertificateInv' /\ OnceInv'
  BY <1>1, <1>2, <1>3, <1>4, <1>5, PushKeeps DEF h
<1>7. CheckpointInv'
  <2>1. /\ Range(todo) = {h} \cup Rest /\ Range(todo') = Range(pre) \cup Rest
        /\ \A y \in Rest : y.op # "checkpoint"
    BY <1>1, <1>2, <1>3, Goes DEF Parts, Before, h
  <2>2. ASSUME NEW x \in Rest, x.op = "old_logs"
        PROVE  x.seq <= checkpoint.seq
    BY <1>2, <2>1, <2>2 DEF Parts, CheckpointInv
  <2>3. checkpoint' = checkpoint
    BY <1>2 DEF store
  <2> QED
    BY <1>1, <2>1, <2>2, <2>3 DEF CheckpointInv
<1> QED
  BY <1>6, <1>7 DEF Parts

LEMMA ReprocessSteps ==
    ASSUME TypeOK, Reprocess
    PROVE  /\ todo # <<>> /\ Head(todo).op = "reprocess"
           /\ \E pre \in Seq(Steps) :
                 /\ todo' = pre \o Tail(todo) /\ Ordered(pre)
                 /\ \A x \in Range(pre) : x.op = "resend"
<1> DEFINE pre == [s \in Seqs |-> Resend(s)]
<1>1. /\ todo # <<>> /\ Head(todo).op = "reprocess" /\ todo' = pre \o Tail(todo)
  BY DEF Reprocess, At
<1>2. /\ pre \in Seq(Steps) /\ DOMAIN pre = Seqs
      /\ \A x \in Range(pre) : x.op = "resend"
  <2>1. pre \in [1 .. MaxSeq -> Steps] /\ MaxSeq \in Nat /\ \A k \in Seqs : pre[k].op = "resend"
    BY Numbers DEF Resend, Steps, Seqs
  <2> HIDE DEF pre
  <2> QED
    BY <2>1 DEF Range, Seqs
<1> HIDE DEF pre
<1>3. Ordered(pre)
  <2>1. \A k, l \in DOMAIN pre : pre[k].op = "resend" /\ pre[l].op = "resend"
    BY <1>2 DEF Range
  <2> QED
    BY <2>1 DEF Ordered, Before, Moves, Decides
<1> QED
  BY <1>1, <1>2, <1>3

LEMMA ReprocessKeeps ==
    ASSUME TypeOK, TypeOK', Parts, Reprocess
    PROVE  Parts'
<1> DEFINE h == Head(todo)
<1>1. /\ todo # <<>> /\ h.op = "reprocess" /\ status' = "running"
      /\ UNCHANGED <<wal, logs, ledger, checkpoint, savedSeq, requests, lastExec, delivered, sent>>
  BY DEF Reprocess, At, store, memory
<1>2. PICK pre \in Seq(Steps) : /\ todo' = pre \o Tail(todo) /\ Ordered(pre)
                                /\ \A x \in Range(pre) : x.op = "resend"
  BY ReprocessSteps
<1>4. /\ StepsInv' /\ h \in Steps /\ Rest \subseteq Steps
      /\ Range(todo) = {h} \cup Rest /\ Range(todo') = Range(pre) \cup Rest
      /\ \A y \in Rest : Before(h, y)
  <2>1. \A x \in Range(pre), y \in Rest : Before(h, y) => Before(x, y)
    BY <1>1, <1>2 DEF Before, Moves, Decides
  <2> QED
    BY <1>1, <1>2, <2>1, Goes DEF Parts
<1>5. Rest = {}
  BY <1>1, <1>4 DEF Before
<1>6. /\ status = "starting" /\ lastExec >= savedSeq
  BY <1>1, <1>4 DEF Parts, PhaseInv, TypeOK, StartOps
<1>7. /\ \A x \in Range(todo') : x.op = "resend"
      /\ \A x \in Range(todo) : x.op = "reprocess"
  BY <1>1, <1>2, <1>4, <1>5
<1> HIDE DEF h
<1>8. PhaseInv'
  BY <1>1, <1>6, <1>7 DEF PhaseInv, StartOps
<1>9. LogInv'
  <2>1. \A e : Logged(e)' <=> Logged(e)
    BY <1>1, <1>7 DEF Logged
  <2> QED
    BY <1>1, <2>1, Numbers, LogKeeps DEF Parts
<1>10. CheckpointInv'
  BY <1>7 DEF CheckpointInv
<1>11. \A s \in Seqs : /\ DiskDecided(s) => DiskDecided(s)'
                       /\ PreparedOnDisk(s) => PreparedOnDisk(s)'
  BY <1>1, Numbers, DiskGrows
<1>12. OnceInv'
  <2>1. \A x : Moves(x) \/ Decides(x) => (x \in Range(todo) <=> x \in Range(todo'))
    BY <1>7 DEF Moves, Decides
  <2>2. Range(todo) \subseteq Steps /\ Range(todo') \subseteq Steps
    <3>1. Range(pre) \subseteq Steps
      BY <1>2, LenProperties, ElementOfSeq DEF Range
    <3> QED
      BY <1>4, <3>1
  <2> QED
    BY <1>1, <1>11, <2>1, <2>2, OnceKeeps DEF Parts
<1>13. CertificateInv'
  <2>1. Rebuilt
    BY <1>6, <1>7 DEF Rebuilt
  <2>2. \A x \in Range(todo') : x.op = "send" => x \in Range(todo)
    BY <1>7
  <2> QED
    BY <1>1, <1>11, <2>1, <2>2, Numbers, CertificateKeeps DEF Parts
<1> QED
  BY <1>4, <1>8, <1>9, <1>10, <1>12, <1>13 DEF Parts

\* The balances first and then the ledger, all of one transaction.
LEMMA TransferSteps ==
    ASSUME TypeOK, StepsInv, RunTransfer
    PROVE  /\ todo # <<>> /\ Head(todo).op = "transfer" /\ Head(todo).tx \in Seqs
           /\ \E pre \in Seq(Steps) :
                 /\ todo' = pre \o Tail(todo) /\ Ordered(pre)
                 /\ \A x \in Range(pre) :
                       x.op = "state" \/ (x.op = "ledger" /\ x.tx = Head(todo).tx)
                 /\ Payable => \E x \in Range(pre) : x.op = "ledger" /\ x.tx = Head(todo).tx
<1> DEFINE h == Head(todo)
           op == Op[h.tx]
           succeeds == balance[op.src] >= op.amount
           a == PutState(op.src, balance[op.src] - op.amount)
           b == PutState(op.dst, balance[op.dst] + op.amount)
           puts == IF succeeds THEN <<a, b>> ELSE <<>>
           last == IF succeeds \/ h.replay THEN <<PutLedger(h.tx)>> ELSE <<>>
           pre == puts \o last
<1>1. /\ todo # <<>> /\ h.op = "transfer"
      /\ todo' = puts \o last \o Tail(todo)
  BY DEF RunTransfer, At
<1>2. h \in Steps /\ Tail(todo) \in Seq(Steps) /\ h.tx \in Seqs
  BY <1>1, HeadAndTail, StepFields DEF StepsInv, Moves
<1>3. a \in Steps /\ b \in Steps /\ a.op = "state" /\ b.op = "state"
  <2>1. op \in Transfers
    BY <1>2, RecoveryAssumption
  <2>2. op.src \in Accounts /\ op.dst \in Accounts /\ op.amount \in Int
    BY <2>1 DEF Transfers
  <2>3. balance[op.src] - op.amount \in Int /\ balance[op.dst] + op.amount \in Int
    BY <2>2 DEF TypeOK, Balances
  <2> QED
    BY <2>2, <2>3 DEF Steps, PutState
<1>4. PutLedger(h.tx) \in Steps /\ PutLedger(h.tx).op = "ledger" /\ PutLedger(h.tx).tx = h.tx
  BY <1>2 DEF Steps, PutLedger
<1>5. Payable => succeeds \/ h.replay
  BY <1>1 DEF Payable, At
<1> HIDE DEF a, b, op, succeeds, h
<1>6. puts \in Seq(Steps) /\ Ordered(puts) /\ \A x \in Range(puts) : x.op = "state"
  <2>1. Before(a, b)
    BY <1>3 DEF Before, Moves, Decides
  <2>2. <<a, b>> \in Seq(Steps) /\ Range(<<a, b>>) = {a, b} /\ Ordered(<<a, b>>)
    BY <1>3, <2>1, Two
  <2> QED
    BY <1>3, <2>2, Empty
<1>7. /\ last \in Seq(Steps) /\ Ordered(last)
      /\ \A x \in Range(last) : x.op = "ledger" /\ x.tx = h.tx
  BY <1>4, One, Empty
<1>8. succeeds \/ h.replay => PutLedger(h.tx) \in Range(last)
  BY <1>4, One
<1> HIDE DEF puts, last
<1>9. /\ pre \in Seq(Steps) /\ Range(pre) = Range(puts) \cup Range(last)
      /\ Ordered(pre) /\ todo' = pre \o Tail(todo)
  <2>1. \A x \in Range(puts), y \in Range(last) : Before(x, y)
    BY <1>6, <1>7 DEF Before, Moves, Decides
  <2> QED
    BY <1>1, <1>6, <1>7, <2>1, ConcatRange, OrderedConcat
<1>10. \A x \in Range(pre) : x.op = "state" \/ (x.op = "ledger" /\ x.tx = h.tx)
  BY <1>6, <1>7, <1>9
<1> HIDE DEF pre
<1>11. Payable => \E x \in Range(pre) : x.op = "ledger" /\ x.tx = h.tx
  BY <1>4, <1>5, <1>8, <1>9
<1> QED
  BY <1>1, <1>2, <1>9, <1>10, <1>11 DEF h

LEMMA RunTransferKeeps ==
    ASSUME TypeOK, Parts, RunTransfer
    PROVE  Parts'
<1> DEFINE h == Head(todo)
<1>1. PICK pre \in Seq(Steps) :
          /\ todo' = pre \o Tail(todo) /\ Ordered(pre)
          /\ \A x \in Range(pre) : x.op = "state" \/ (x.op = "ledger" /\ x.tx = h.tx)
  BY TransferSteps DEF Parts
<1>2. /\ todo # <<>> /\ h.op = "transfer" /\ h.tx \in Seqs /\ Moves(h) /\ ~Decides(h)
      /\ UNCHANGED <<store, status, requests, lastExec, delivered, sent>>
  BY TransferSteps DEF Parts, RunTransfer, memory, Moves, Decides
<1> HIDE DEF h
<1>3. \A x \in Range(pre), y \in Rest : Before(h, y) => Before(x, y)
  BY <1>1, <1>2 DEF Before, Moves, Decides
<1>4. StepsInv' /\ PhaseInv' /\ LogInv' /\ CertificateInv' /\ CheckpointInv'
  <2>1. \A x \in Range(pre) : /\ x.op \notin StartOps \cup {"log", "send", "wal"}
                              /\ status = "starting" => x.op \in DiskOps
                              /\ x.op \notin {"checkpoint", "old_logs"}
    BY <1>1 DEF StartOps, DiskOps
  <2> QED
    BY <1>1, <1>2, <1>3, <2>1, PushKeeps DEF h
<1>5. OnceInv'
  <2>1. /\ Range(todo) = {h} \cup Rest /\ Range(todo') = Range(pre) \cup Rest
    BY <1>1, <1>2, <1>3, Goes DEF Parts, h
  <2>2. \A x \in Range(todo') : /\ Moves(x) => x \in Rest \/ (x.op = "ledger" /\ x.tx = h.tx)
                                /\ Decides(x) => x \in Rest
    BY <1>1, <2>1 DEF Moves, Decides
  <2>3. UNCHANGED <<wal, logs, ledger, checkpoint, requests, delivered>>
    BY <1>2 DEF store
  <2>4. \A s : /\ (DiskDecided(s)' <=> DiskDecided(s)) /\ (InWal(s)' <=> InWal(s))
               /\ (Known(s)' <=> Known(s)) /\ (Taken(s)' <=> Taken(s))
    BY <2>3 DEF DiskDecided, Voters, InWal, Quorum, Known, Taken, Proposal
  <2>5. ASSUME NEW s \in Seqs,
               s \in ledger' \/ InWal(s)' \/ (\E x \in Range(todo') : (Moves(x) \/ Decides(x)) /\ x.tx = s)
        PROVE  Taken(s)' /\ (Known(s)' => requests'[s].decided)
    BY <1>2, <2>1, <2>2, <2>3, <2>4, <2>5 DEF Parts, OnceInv
  <2>6. ASSUME NEW x \in Range(todo')
        PROVE  /\ Decides(x) => /\ Known(x.tx)' /\ ~InWal(x.tx)'
                                /\ Cardinality(requests'[x.tx].commits) >= Quorum
               /\ x.op = "transfer" => x.tx \notin ledger'
               /\ Moves(x) => DiskDecided(x.tx)' \/ \E y \in Range(todo') : Decides(y) /\ y.tx = x.tx
    <3>1. Moves(x) => \/ DiskDecided(x.tx)
                      \/ \E y \in Range(todo) : Decides(y) /\ y.tx = x.tx
      BY <1>2, <2>1, <2>2, <2>6 DEF Parts, OnceInv
    <3>2. Moves(x) => DiskDecided(x.tx)' \/ \E y \in Range(todo') : Decides(y) /\ y.tx = x.tx
      BY <1>2, <2>1, <2>4, <3>1
    <3>3. x.op = "transfer" => x \in Rest
      BY <2>2, <2>6 DEF Moves
    <3> QED
      BY <2>1, <2>2, <2>3, <2>4, <2>6, <3>2, <3>3 DEF Parts, OnceInv
  <2>7. \A v, w \in wal' : v.state = "COMMIT" /\ w.state = "COMMIT" /\ v.tx = w.tx => v = w
    BY <2>3 DEF Parts, OnceInv
  <2>8. \A s \in Seqs : s \in ledger' \/ InWal(s)' => DiskDecided(s)'
    BY <2>3, <2>4 DEF Parts, OnceInv
  <2> QED
    BY <2>5, <2>6, <2>7, <2>8 DEF OnceInv, Quorum, Known, InWal, Taken
<1> QED
  BY <1>4, <1>5 DEF Parts

\* Every entry of the WAL is carried out once, and only if the ledger lacks it.
LEMMA ReplaySteps ==
    ASSUME TypeOK, OnceInv, IsFiniteSet(wal), ReplayWal
    PROVE  /\ todo # <<>> /\ Head(todo).op = "replay"
           /\ \E pre \in Seq(Steps) :
                 /\ todo' = pre \o Tail(todo) /\ Ordered(pre)
                 /\ \A x \in Range(pre) : /\ x.op = "transfer" /\ x.tx \in Seqs
                                          /\ x.tx \notin ledger /\ InWal(x.tx)
                 /\ \A w \in ReplayEntries(checkpoint.seq) :
                       \E x \in Range(pre) : x.op = "transfer" /\ x.tx = w.tx
<1> DEFINE W == ReplayEntries(checkpoint.seq)
<1>1. PICK entries \in SetToSeqs(W) :
          todo' = [k \in DOMAIN entries |-> Transfer(entries[k].tx, TRUE)] \o Tail(todo)
  BY DEF ReplayWal
<1> DEFINE pre == [k \in DOMAIN entries |-> Transfer(entries[k].tx, TRUE)]
<1>2. \A w \in W : w \in wal /\ w.state = "COMMIT" /\ w.tx \in Seqs /\ w.tx \notin ledger
  BY DEF ReplayEntries, TypeOK, WalEntries
<1>3. /\ DOMAIN entries = 1 .. Cardinality(W) /\ Cardinality(W) \in Nat
      /\ \A k \in DOMAIN entries : entries[k] \in W
      /\ \A k, l \in DOMAIN entries : k # l => entries[k] # entries[l]
      /\ \A w \in W : \E k \in DOMAIN entries : entries[k] = w
  <2>1. IsFiniteSet(W)
    BY <1>2, FS_Subset
  <2> HIDE DEF W
  <2>2. Cardinality(W) \in Nat
    BY <2>1, FS_CardinalityType
  <2> DEFINE D == 1 .. Cardinality(W)
  <2>3. entries \in [D -> W] /\ \A k, l \in D : k # l => entries[k] # entries[l]
    BY DEF SetToSeqs
  <2>4. IsFiniteSet(D) /\ Cardinality(D) = Cardinality(W)
    BY <2>2, FS_Interval
  <2> HIDE DEF D
  <2>5. entries \in Injection(D, W)
    BY <2>3 DEF Injection, IsInjective
  <2>6. entries \in Surjection(D, W)
    BY <2>1, <2>4, <2>5, FS_Injection
  <2>7. \A w \in W : \E k \in D : entries[k] = w
    BY <2>6 DEF Surjection
  <2> QED
    BY <2>2, <2>3, <2>7 DEF D
<1> HIDE DEF W
<1>4. pre \in Seq(Steps)
  <2>1. \A k \in DOMAIN entries : pre[k] \in Steps
    BY <1>2, <1>3 DEF Steps, Transfer
  <2> HIDE DEF pre
  <2>2. DOMAIN pre = 1 .. Cardinality(W) /\ pre = [k \in DOMAIN entries |-> pre[k]]
    BY <1>3 DEF pre
  <2>3. pre \in [1 .. Cardinality(W) -> Steps]
    BY <1>3, <2>1, <2>2
  <2> QED
    BY <1>3, <2>3
<1>5. /\ \A x \in Range(pre) : /\ x.op = "transfer" /\ x.tx \in Seqs /\ x.tx \notin ledger
                               /\ InWal(x.tx)
      /\ \A w \in W : \E x \in Range(pre) : x.op = "transfer" /\ x.tx = w.tx
  <2>1. \A k \in DOMAIN entries :
            /\ pre[k].op = "transfer" /\ pre[k].tx = entries[k].tx
            /\ entries[k].tx \in Seqs /\ entries[k].tx \notin ledger /\ InWal(entries[k].tx)
    BY <1>2, <1>3 DEF Transfer, InWal
  <2>2. DOMAIN pre = DOMAIN entries
    OBVIOUS
  <2> HIDE DEF pre
  <2>3. \A k \in DOMAIN entries : pre[k] \in Range(pre)
    BY <2>2 DEF Range
  <2>4. ASSUME NEW w \in W
        PROVE  \E x \in Range(pre) : x.op = "transfer" /\ x.tx = w.tx
    <3>1. PICK k \in DOMAIN entries : entries[k] = w
      BY <1>3
    <3> QED
      BY <2>1, <2>3, <3>1
  <2> QED
    BY <2>1, <2>2, <2>4 DEF Range
<1>6. Ordered(pre)
  <2>1. ASSUME NEW k \in DOMAIN entries, NEW l \in DOMAIN entries, k # l
        PROVE  Before(pre[k], pre[l])
    <3>1. entries[k].tx # entries[l].tx
      BY <1>2, <1>3, <2>1 DEF OnceInv
    <3> QED
      BY <3>1 DEF Before, Transfer, Moves, Decides
  <2>2. \A k, l \in DOMAIN entries : k < l => k # l
    BY <1>3
  <2>3. DOMAIN pre = DOMAIN entries
    OBVIOUS
  <2> HIDE DEF pre
  <2> QED
    BY <2>1, <2>2, <2>3 DEF Ordered
<1>7. todo # <<>> /\ Head(todo).op = "replay" /\ todo' = pre \o Tail(todo)
  BY <1>1 DEF ReplayWal, At
<1> HIDE DEF pre
<1> QED
  BY <1>4, <1>5, <1>6, <1>7 DEF W

LEMMA ReplayWalKeeps ==
    ASSUME TypeOK, Parts, IsFiniteSet(wal), ReplayWal
    PROVE  Parts'
<1> DEFINE h == Head(todo)
<1>1. PICK pre \in Seq(Steps) :
          /\ todo' = pre \o Tail(todo) /\ Ordered(pre)
          /\ \A x \in Range(pre) : /\ x.op = "transfer" /\ x.tx \in Seqs
                                   /\ x.tx \notin ledger /\ InWal(x.tx)
  BY ReplaySteps DEF Parts
<1>2. /\ todo # <<>> /\ h.op = "replay" /\ ~Moves(h) /\ ~Decides(h)
      /\ UNCHANGED <<store, status, requests, lastExec, delivered, sent>>
  BY ReplaySteps DEF Parts, ReplayWal, memory, Moves, Decides
<1> HIDE DEF h
<1>3. /\ h \in Steps /\ h \in Range(todo) /\ Rest \subseteq Range(todo)
      /\ \A y \in Rest : Before(h, y)
  BY <1>2, HeadAndTail, OrderedTail DEF Parts, StepsInv, h, Rest
<1>4. /\ status = "starting"
      /\ \A x \in Range(todo) : x.op \in StartOps \cup DiskOps
  BY <1>2, <1>3 DEF Parts, PhaseInv, TypeOK, StartOps
<1>5. \A x \in Range(pre), y \in Rest : Before(x, y)
  BY <1>1, <1>2, <1>3, <1>4 DEF Before, Decides, StartOps, DiskOps
<1>6. StepsInv' /\ PhaseInv' /\ LogInv' /\ CertificateInv' /\ CheckpointInv'
  <2>1. \A x \in Range(pre) : /\ x.op \notin StartOps \cup {"log", "send", "wal"}
                              /\ status = "starting" => x.op \in DiskOps
                              /\ x.op \notin {"checkpoint", "old_logs"}
    BY <1>1 DEF StartOps, DiskOps
  <2> QED
    BY <1>1, <1>2, <1>5, <2>1, PushKeeps DEF h
<1>7. OnceInv'
  <2>1. Range(todo) = {h} \cup Rest /\ Range(todo') = Range(pre) \cup Rest
    BY <1>1, <1>2, <1>5, Goes DEF Parts, h
  <2>2. \A x \in Range(todo') : /\ Moves(x) => x \in Range(pre)
                                /\ ~Decides(x)
    BY <1>1, <1>2, <1>3, <1>4, <2>1 DEF Before, Decides, StartOps, DiskOps
  <2>3. UNCHANGED <<wal, logs, ledger, checkpoint, requests, delivered>>
    BY <1>2 DEF store
  <2>4. \A s : /\ (DiskDecided(s)' <=> DiskDecided(s)) /\ (InWal(s)' <=> InWal(s))
               /\ (Known(s)' <=> Known(s)) /\ (Taken(s)' <=> Taken(s))
    BY <2>3 DEF DiskDecided, Voters, InWal, Quorum, Known, Taken, Proposal
  <2>5. ASSUME NEW s \in Seqs,
               s \in ledger' \/ InWal(s)' \/ (\E x \in Range(todo') : (Moves(x) \/ Decides(x)) /\ x.tx = s)
        PROVE  Taken(s)' /\ (Known(s)' => requests'[s].decided)
    <3>1. s \in ledger \/ InWal(s)
      BY <1>1, <2>2, <2>3, <2>4, <2>5
    <3> QED
      BY <2>3, <2>4, <3>1 DEF Parts, OnceInv
  <2>6. ASSUME NEW x \in Range(todo')
        PROVE  /\ ~Decides(x)
               /\ x.op = "transfer" => x.tx \notin ledger'
               /\ Moves(x) => DiskDecided(x.tx)'
    <3>1. Moves(x) => DiskDecided(x.tx)
      BY <1>1, <2>2, <2>6 DEF Parts, OnceInv
    <3> QED
      BY <1>1, <2>2, <2>3, <2>4, <2>6, <3>1 DEF Moves
  <2>7. \A v, w \in wal' : v.state = "COMMIT" /\ w.state = "COMMIT" /\ v.tx = w.tx => v = w
    BY <2>3 DEF Parts, OnceInv
  <2>8. \A s \in Seqs : s \in ledger' \/ InWal(s)' => DiskDecided(s)'
    BY <2>3, <2>4 DEF Parts, OnceInv
  <2> QED
    BY <2>5, <2>6, <2>7, <2>8 DEF OnceInv, Quorum, Known, InWal, Taken
<1> QED
  BY <1>6, <1>7 DEF Parts

-----------------------------------------------------------------------------
(* An entry of requests changes *)

\* The steps N put on disk what the new entry e of s counts beyond the old one,
\* and those that carry s out are there because it was decided just now.
Explains(N, s, e) ==
    /\ Known(s) => /\ requests[s].prepares \subseteq e.prepares
                   /\ requests[s].commits \subseteq e.commits
                   /\ requests[s].decided => e.decided
    /\ Known(s) \/ LogProposal(s) \in N
    /\ \A j \in e.prepares : \/ Known(s) /\ j \in requests[s].prepares
                             \/ LogVote("PREPARE", s, j) \in N
    /\ \A j \in e.commits : \/ Known(s) /\ j \in requests[s].commits
                            \/ LogVote("COMMIT", s, j) \in N
    /\ \A x \in N :
          /\ x.op \notin StartOps \cup {"checkpoint", "old_logs"}
          /\ x.op = "log" => \A t \in Seqs : x.entry = Proposal(t) => t = s
          /\ x.op = "send" /\ x.type = "COMMIT" =>
                x.seq = s /\ Cardinality(e.prepares) >= Quorum
          /\ Moves(x) \/ Decides(x) =>
                /\ x.tx = s /\ e.decided /\ Cardinality(e.commits) >= Quorum
                /\ Known(s) /\ ~requests[s].decided
                /\ \E y \in N : Decides(y)

\* N are the steps the change adds and R those that were there before.
LEMMA EntryKeeps ==
    ASSUME TypeOK, Parts, status = "running",
           UNCHANGED <<wal, logs, ledger, checkpoint, savedSeq, status, lastExec, sent>>,
           delivered \subseteq delivered',
           NEW s \in Seqs, NEW e \in RequestStates, requests' = [requests EXCEPT ![s] = e],
           NEW N, NEW R, Range(todo') = N \cup R, R \subseteq Range(todo), Range(todo) \subseteq Steps,
           \A x \in Range(todo) \ R : x.op = "resend",
           Taken(s)', Known(s) \/ ~Taken(s),
           Explains(N, s, e)
    PROVE  PhaseInv' /\ LogInv' /\ CheckpointInv' /\ OnceInv' /\ CertificateInv'
<1> USE DEF Explains
<1>1. /\ \A t \in Seqs \ {s} : (Known(t)' <=> Known(t)) /\ requests'[t] = requests[t]
      /\ Known(s)' /\ requests'[s] = e
  BY RecoveryAssumption DEF TypeOK, Known
<1>2. /\ \A t : DiskDecided(t)' <=> DiskDecided(t)
      /\ \A t : InWal(t)' <=> InWal(t)
      /\ \A t : PreparedOnDisk(t)' <=> PreparedOnDisk(t)
      /\ \A t : Committed(t)' <=> Committed(t)
      /\ \A t : Taken(t) => Taken(t)'
  BY DEF DiskDecided, InWal, PreparedOnDisk, Committed, Taken, Voters, Quorum, Proposal
<1>3. \A d : Logged(d) => Logged(d)'
  BY DEF Logged
<1>4. /\ \A t : Logged(Proposal(t))' /\ t \in Seqs => Logged(Proposal(t)) \/ t = s
      /\ LogProposal(s) \in N => Logged(Proposal(s))'
      /\ \A t, j : LogVote(t, s, j) \in N => Logged(Vote(t, s, j))'
  BY DEF Logged, LogProposal, LogVote, Proposal, Vote
<1>5. PhaseInv'
  BY DEF Parts, PhaseInv
<1>6. LogInv'
  <2> SUFFICES ASSUME NEW t \in Seqs
               PROVE  /\ Known(t)' \/ Logged(Proposal(t))' => Taken(t)'
                      /\ Known(t)' => \/ t < checkpoint'.seq
                                      \/ /\ Logged(Proposal(t))'
                                         /\ \A j \in requests'[t].prepares : Logged(Vote("PREPARE", t, j))'
                                         /\ \A j \in requests'[t].commits : Logged(Vote("COMMIT", t, j))'
    BY DEF LogInv, Known, Taken, Proposal, Vote
  <2>1. CASE t # s
    BY <1>1, <1>2, <1>3, <1>4, <2>1 DEF Parts, LogInv
  <2>2. CASE t = s
    <3>1. CASE Known(s)
      BY <1>1, <1>3, <1>4, <2>2, <3>1 DEF Parts, LogInv
    <3>2. CASE ~Known(s)
      BY <1>1, <1>4, <2>2, <3>2
    <3> QED
      BY <3>1, <3>2
  <2> QED
    BY <2>1, <2>2
<1>7. CheckpointInv'
  <2>1. \A x \in Range(todo') : x.op \in {"checkpoint", "old_logs"} => x \in Range(todo)
    OBVIOUS
  <2>2. \A x \in Range(todo) : x.op = "checkpoint" => x \in Range(todo')
    OBVIOUS
  <2> QED
    BY <2>1, <2>2, CheckpointKeeps DEF Parts
<1>8. /\ e.prepares \subseteq Sites /\ e.commits \subseteq Sites
  BY DEF RequestStates
<1>9. OnceInv'
  <2>1. ASSUME NEW t \in Seqs,
               t \in ledger \/ InWal(t) \/ (\E x \in Range(todo) : (Moves(x) \/ Decides(x)) /\ x.tx = t)
        PROVE  Taken(t)' /\ (Known(t)' => requests'[t].decided)
    <3>1. Taken(t) /\ (Known(t) => requests[t].decided)
      BY <2>1 DEF Parts, OnceInv
    <3> QED
      BY <1>1, <1>2, <3>1
  <2>2. ASSUME NEW x \in N, Moves(x) \/ Decides(x)
        PROVE  /\ x.tx = s /\ e.decided /\ s \notin ledger /\ ~InWal(s)
               /\ Cardinality(e.commits) >= Quorum
    BY <2>2 DEF Parts, OnceInv
  <2>3. ASSUME NEW t \in Seqs,
               t \in ledger' \/ InWal(t)' \/ (\E x \in Range(todo') : (Moves(x) \/ Decides(x)) /\ x.tx = t)
        PROVE  Taken(t)' /\ (Known(t)' => requests'[t].decided)
    BY <1>1, <1>2, <2>1, <2>2, <2>3
  <2>4. ASSUME NEW x \in Range(todo')
        PROVE  /\ Decides(x) => /\ Known(x.tx)' /\ ~InWal(x.tx)'
                                /\ Cardinality(requests'[x.tx].commits) >= Quorum
               /\ x.op = "transfer" => x.tx \notin ledger'
               /\ Moves(x) => DiskDecided(x.tx)' \/ \E y \in Range(todo') : Decides(y) /\ y.tx = x.tx
    <3>1. CASE x \in N
      <4>1. x.op = "transfer" => Moves(x)
        BY DEF Moves
      <4>2. Moves(x) => \E y \in N : Decides(y) /\ y.tx = x.tx
        BY <2>2, <3>1
      <4>3. Decides(x) => Known(x.tx)' /\ ~InWal(x.tx)' /\ Cardinality(requests'[x.tx].commits) >= Quorum
        BY <1>1, <1>2, <2>2, <3>1
      <4>4. x.op = "transfer" => x.tx \notin ledger'
        BY <2>2, <3>1, <4>1
      <4> QED
        BY <4>2, <4>3, <4>4
    <3>2. CASE x \in R
      <4>1. /\ Decides(x) => /\ Known(x.tx) /\ ~InWal(x.tx)
                             /\ Cardinality(requests[x.tx].commits) >= Quorum
            /\ x.op = "transfer" => x.tx \notin ledger
            /\ Moves(x) => DiskDecided(x.tx) \/ \E y \in Range(todo) : Decides(y) /\ y.tx = x.tx
        BY <3>2 DEF Parts, OnceInv
      <4>2. \A y \in Range(todo) : Decides(y) => y \in Range(todo')
        BY DEF Decides
      <4>3. Decides(x) => x.tx \in Seqs
        BY <3>2, StepFields
      <4>4. Decides(x) => Cardinality(requests'[x.tx].commits) >= Quorum
        <5>1. CASE x.tx = s
          BY <1>1, <1>8, <4>1, <5>1, LargerQuorum
        <5>2. CASE x.tx # s
          BY <1>1, <4>1, <4>3, <5>2
        <5> QED
          BY <5>1, <5>2
      <4>5. Decides(x) => Known(x.tx)' /\ ~InWal(x.tx)'
        BY <1>1, <1>2, <4>1, <4>3
      <4> QED
        BY <1>2, <4>1, <4>2, <4>4, <4>5
    <3> QED
      BY <3>1, <3>2
  <2>5. \A v, w \in wal' : v.state = "COMMIT" /\ w.state = "COMMIT" /\ v.tx = w.tx => v = w
    BY DEF Parts, OnceInv
  <2>6. \A t \in Seqs : t \in ledger' \/ InWal(t)' => DiskDecided(t)'
    BY <1>2 DEF Parts, OnceInv
  <2> QED
    BY <2>3, <2>4, <2>5, <2>6 DEF OnceInv, Quorum, Known, InWal, Taken
<1>10. CertificateInv'
  <2>1. ASSUME NEW t \in Seqs, Prepared(t)
        PROVE  Prepared(t)'
    <3>1. CASE t = s
      <4>1. Cardinality(e.prepares) >= Quorum
        BY <1>8, <2>1, <3>1, LargerQuorum DEF Prepared
      <4> QED
        BY <1>1, <3>1, <4>1 DEF Prepared, Quorum
    <3>2. CASE t # s
      BY <1>1, <2>1, <3>2 DEF Prepared, Quorum
    <3> QED
      BY <3>1, <3>2
  <2>2. ASSUME NEW x \in Range(todo'), x.op = "send", x.type = "COMMIT"
        PROVE  Prepared(x.seq)'
    <3>1. CASE x \in N
      BY <1>1, <2>2, <3>1 DEF Prepared, Quorum
    <3>2. CASE x \in R
      <4>1. x.seq \in Seqs /\ Prepared(x.seq)
        BY <2>2, <3>2, StepFields DEF Parts, CertificateInv
      <4> QED
        BY <2>1, <4>1
    <3> QED
      BY <3>1, <3>2
  <2>3. ASSUME NEW t \in Seqs, Committed(t)'
        PROVE  /\ t <= savedSeq' \/ t < checkpoint'.seq \/ PreparedOnDisk(t)'
               /\ Rebuilt' /\ t > lastExec' => Prepared(t)'
    <3>1. /\ t <= savedSeq \/ t < checkpoint.seq \/ PreparedOnDisk(t)
          /\ Rebuilt /\ t > lastExec => Prepared(t)
      BY <1>2, <2>3 DEF Parts, CertificateInv
    <3>2. Rebuilt
      BY DEF Rebuilt
    <3> QED
      BY <1>2, <2>1, <3>1, <3>2
  <2> QED
    BY <2>2, <2>3 DEF CertificateInv, Committed, Prepared, PreparedOnDisk, Rebuilt, Known, Voters, Proposal, Quorum
<1> QED
  BY <1>5, <1>6, <1>7, <1>9, <1>10

\* The decision, then the transfer, the number and perhaps the checkpoint.
LEMMA ExecuteShape ==
    ASSUME NEW s \in Seqs
    PROVE  /\ ExecuteSteps(s) \in Seq(Steps) /\ Ordered(ExecuteSteps(s))
           /\ \E y \in Range(ExecuteSteps(s)) : Decides(y)
           /\ Paired(Range(ExecuteSteps(s)))
           /\ \A x \in Range(ExecuteSteps(s)) :
                 /\ x.op \in {"wal", "transfer", "last_seq", "trigger"}
                 /\ x.op = "wal" => x.state = "COMMIT"
                 /\ x.op \in {"wal", "transfer"} => x.tx = s
<1> DEFINE a == LogWal("COMMIT", s)
           b == Transfer(s, FALSE)
           c == SaveLastSeq(s)
           d == TriggerCheckpoint(s)
           p == <<a, b, c>>
           q == IF s % Interval = 0 THEN <<d>> ELSE <<>>
<1>1. a \in Steps /\ b \in Steps /\ c \in Steps /\ d \in Steps
  <2>1. s \in 0 .. MaxSeq
    BY DEF Seqs
  <2> QED
    BY <2>1 DEF Steps, LogWal, Transfer, SaveLastSeq, TriggerCheckpoint
<1>2. /\ a.op = "wal" /\ a.state = "COMMIT" /\ a.tx = s
      /\ b.op = "transfer" /\ b.tx = s
      /\ c.op = "last_seq" /\ d.op = "trigger"
  BY DEF LogWal, Transfer, SaveLastSeq, TriggerCheckpoint
<1>3. ExecuteSteps(s) = p \o q
  BY DEF ExecuteSteps
<1> HIDE DEF a, b, c, d
<1>4. p \in Seq(Steps) /\ Range(p) = {a, b, c} /\ Ordered(p)
  <2>1. Before(a, b) /\ Before(a, c) /\ Before(b, c)
    BY <1>2 DEF Before, Moves, Decides
  <2> QED
    BY <1>1, <2>1, Three
<1>5. q \in Seq(Steps) /\ Ordered(q) /\ \A x \in Range(q) : x.op = "trigger"
  BY <1>1, <1>2, One, Empty
<1> HIDE DEF p, q
<1>6. \A x \in Range(p), y \in Range(q) : Before(x, y)
  BY <1>2, <1>4, <1>5 DEF Before, Moves, Decides
<1>7. /\ p \o q \in Seq(Steps) /\ Range(p \o q) = Range(p) \cup Range(q) /\ Ordered(p \o q)
  BY <1>4, <1>5, <1>6, ConcatRange, OrderedConcat
<1>8. Paired(Range(p \o q))
  BY <1>2, <1>4, <1>5, <1>7 DEF Paired, Decides
<1> QED
  BY <1>2, <1>3, <1>4, <1>5, <1>7, <1>8 DEF Decides

\* The steps of a COMMIT vote that was just counted.
LEMMA CommitVoteShape ==
    ASSUME NEW s \in Seqs, NEW r
    PROVE  /\ CommitVoteSteps(s, r) \in Seq(Steps) /\ Ordered(CommitVoteSteps(s, r))
           /\ Paired(Range(CommitVoteSteps(s, r)))
           /\ \A x \in Range(CommitVoteSteps(s, r)) :
                 /\ x.op \in {"wal", "transfer", "last_seq", "trigger"}
                 /\ x.op = "wal" => x.state = "COMMIT"
                 /\ Moves(x) \/ Decides(x) =>
                       /\ x.tx = s /\ CommitQuorum(r)
                       /\ \E y \in Range(CommitVoteSteps(s, r)) : Decides(y)
<1>1. CASE CommitQuorum(r)
  <2>1. CommitVoteSteps(s, r) = ExecuteSteps(s)
    BY <1>1 DEF CommitVoteSteps
  <2> QED
    BY <1>1, <2>1, ExecuteShape DEF Moves, Decides
<1>2. CASE ~CommitQuorum(r)
  <2>1. CommitVoteSteps(s, r) = <<>>
    BY <1>2 DEF CommitVoteSteps
  <2> QED
    BY <2>1, Empty DEF Paired
<1> QED
  BY <1>1, <1>2

\* The vote of this node is in the log before the COMMIT leaves and is counted.
LEMMA SendCommitShape ==
    ASSUME NEW s \in Seqs, NEW r
    PROVE  /\ SendCommitSteps(s, r) \in Seq(Steps) /\ Ordered(SendCommitSteps(s, r))
           /\ LogVote("COMMIT", s, Self) \in Range(SendCommitSteps(s, r))
           /\ Paired(Range(SendCommitSteps(s, r)))
           /\ \A x \in Range(SendCommitSteps(s, r)) :
                 /\ x.op \in {"log", "send", "wal", "transfer", "last_seq", "trigger"}
                 /\ x.op = "log" => x = LogVote("COMMIT", s, Self)
                 /\ x.op = "send" => x.type = "COMMIT" /\ x.seq = s
                 /\ x.op = "wal" => x.state = "COMMIT"
                 /\ Moves(x) \/ Decides(x) =>
                       /\ x.tx = s /\ CommitQuorum(WithOwnCommit(r))
                       /\ \E y \in Range(SendCommitSteps(s, r)) : Decides(y)
<1> DEFINE a == LogVote("COMMIT", s, Self)
           b == Send("COMMIT", s)
           p == <<a, b>>
           q == CommitVoteSteps(s, WithOwnCommit(r))
<1>1. a \in Steps /\ b \in Steps
  <2>1. Self \in Sites
    BY DEF Sites
  <2> QED
    BY <2>1, NewSteps
<1>2. a.op = "log" /\ b.op = "send" /\ b.type = "COMMIT" /\ b.seq = s
  BY DEF LogVote, Send
<1>3. SendCommitSteps(s, r) = p \o q
  BY DEF SendCommitSteps
<1>4. /\ q \in Seq(Steps) /\ Ordered(q) /\ Paired(Range(q))
      /\ \A x \in Range(q) :
            /\ x.op \in {"wal", "transfer", "last_seq", "trigger"}
            /\ x.op = "wal" => x.state = "COMMIT"
            /\ Moves(x) \/ Decides(x) => /\ x.tx = s /\ CommitQuorum(WithOwnCommit(r))
                                         /\ \E y \in Range(q) : Decides(y)
  BY CommitVoteShape
<1> HIDE DEF a, b, q
<1>5. p \in Seq(Steps) /\ Range(p) = {a, b} /\ Ordered(p)
  <2>1. Before(a, b)
    BY <1>2 DEF Before, Moves, Decides
  <2> QED
    BY <1>1, <2>1, Two
<1> HIDE DEF p
<1>6. \A x \in Range(p), y \in Range(q) : Before(x, y)
  BY <1>2, <1>4, <1>5 DEF Before, Moves, Decides
<1>7. /\ p \o q \in Seq(Steps) /\ Range(p \o q) = Range(p) \cup Range(q) /\ Ordered(p \o q)
  BY <1>4, <1>5, <1>6, ConcatRange, OrderedConcat
<1>8. \A x \in Range(p) : ~Moves(x) /\ ~Decides(x)
  BY <1>2, <1>5 DEF Moves, Decides
<1>9. a = LogVote("COMMIT", s, Self)
  BY DEF a
<1>10. Paired(Range(p \o q))
  BY <1>4, <1>7, <1>8 DEF Paired
<1> QED
  BY <1>2, <1>3, <1>4, <1>5, <1>7, <1>8, <1>9, <1>10

LEMMA ResendCommitKeeps ==
    ASSUME TypeOK, TypeOK', Parts, ResendCommit
    PROVE  Parts'
<1> DEFINE h == Head(todo)
<1>1. /\ todo # <<>> /\ h.op = "resend" /\ ~Decides(h)
      /\ UNCHANGED <<wal, logs, ledger, checkpoint, savedSeq, status, lastExec, delivered, sent>>
  BY DEF ResendCommit, At, store, Decides
<1>2. /\ h \in Steps /\ Rest \subseteq Steps /\ Range(todo) = {h} \cup Rest
      /\ \A y \in Rest : Before(h, y)
  BY <1>1, HeadAndTail, OrderedTail DEF Parts, StepsInv, Rest
<1>3. status = "running" /\ h.seq \in Seqs
  BY <1>1, <1>2, NotStarting, StepFields DEF Parts, StartOps, DiskOps
<1> PICK s \in Seqs : s = h.seq
  BY <1>3
<1> DEFINE r == requests[s]
           e == AfterCommitVote(WithOwnCommit(r))
           pre == SendCommitSteps(s, r)
<1>4. CASE ~Resends(s)
  <2>1. todo' = Tail(todo) /\ requests' = requests
    BY <1>4 DEF ResendCommit
  <2>2. lastExec >= savedSeq
    BY <1>3 DEF Parts, PhaseInv
  <2> QED
    BY <1>1, <2>1, <2>2, Numbers, QuietKeeps DEF Parts
<1>5. CASE Resends(s)
  <2>1. todo' = pre \o Tail(todo) /\ requests' = [requests EXCEPT ![s] = e]
    BY <1>5 DEF ResendCommit
  <2>2. /\ Known(s) /\ ~r.decided /\ Cardinality(r.prepares) >= Quorum
        /\ r \in RequestStates
    BY <1>3, <1>5 DEF Resends, PrepareQuorum, Known, TypeOK
  <2>3. /\ e \in RequestStates /\ e.prepares = r.prepares /\ e.commits = r.commits \cup {Self}
        /\ CommitQuorum(WithOwnCommit(r)) =>
              e.decided /\ Cardinality(e.commits) >= Quorum
    BY <2>2, EntryTypes DEF CommitQuorum
  <2>4. Taken(s)
    BY <1>3, <2>2 DEF Parts, LogInv
  <2>5. /\ pre \in Seq(Steps) /\ Ordered(pre) /\ LogVote("COMMIT", s, Self) \in Range(pre)
        /\ \A x \in Range(pre) :
              /\ x.op \in {"log", "send", "wal", "transfer", "last_seq", "trigger"}
              /\ x.op = "log" => x = LogVote("COMMIT", s, Self)
              /\ x.op = "send" => x.type = "COMMIT" /\ x.seq = s
              /\ x.op = "wal" => x.state = "COMMIT"
              /\ Moves(x) \/ Decides(x) =>
                    /\ x.tx = s /\ CommitQuorum(WithOwnCommit(r))
                    /\ \E y \in Range(pre) : Decides(y)
    BY <1>3, SendCommitShape
  <2>6. \A y \in Rest : Moves(y) \/ Decides(y) => y.tx # s
    BY <1>2, <1>3, <2>2 DEF Parts, OnceInv
  <2>7. LogVote("COMMIT", s, Self).op = "log" /\ \A t : LogVote("COMMIT", s, Self).entry # Proposal(t)
    BY DEF LogVote, Proposal
  <2> HIDE DEF e, pre, h, r
  <2>8. \A x \in Range(pre), y \in Rest : Before(h, y) => Before(x, y)
    BY <1>1, <2>5, <2>6 DEF Before
  <2>9. /\ StepsInv' /\ Range(todo') = Range(pre) \cup Rest
    BY <1>1, <2>1, <2>5, <2>8, Goes DEF Parts, h
  <2>10. Taken(s)' /\ delivered \subseteq delivered'
    BY <1>1, <2>4 DEF Taken, Proposal
  <2>11. /\ \A j \in e.commits : j \in r.commits \/ LogVote("COMMIT", s, j) \in Range(pre)
         /\ r.commits \subseteq e.commits
    BY <2>3, <2>5
  <2>12. \A x \in Range(pre) :
              /\ x.op \notin StartOps \cup {"checkpoint", "old_logs"}
              /\ x.op = "log" => \A t \in Seqs : x.entry = Proposal(t) => t = s
              /\ x.op = "send" /\ x.type = "COMMIT" =>
                    x.seq = s /\ Cardinality(e.prepares) >= Quorum
              /\ Moves(x) \/ Decides(x) =>
                    /\ x.tx = s /\ e.decided /\ Cardinality(e.commits) >= Quorum
                    /\ Known(s) /\ ~r.decided
                    /\ \E y \in Range(pre) : Decides(y)
    BY <2>2, <2>3, <2>5, <2>7 DEF StartOps
  <2>13. PhaseInv' /\ LogInv' /\ CheckpointInv' /\ OnceInv' /\ CertificateInv'
    <3>1. /\ Range(todo') = Range(pre) \cup Rest
          /\ Rest \subseteq Range(todo) /\ Range(todo) \subseteq Steps
          /\ \A x \in Range(todo) \ Rest : x.op = "resend"
      BY <1>1, <1>2, <2>9
    <3>2. Explains(Range(pre), s, e)
      BY <2>2, <2>3, <2>11, <2>12 DEF r, Explains
    <3>3. UNCHANGED <<wal, logs, ledger, checkpoint, savedSeq, status, lastExec, sent>>
      BY <1>1
    <3>4. requests' = [requests EXCEPT ![s] = e] /\ e \in RequestStates /\ Known(s)
      BY <2>1, <2>2, <2>3
    <3> QED
      BY <1>3, <2>10, <3>1, <3>2, <3>3, <3>4, EntryKeeps
  <2> QED
    BY <2>9, <2>13 DEF Parts
<1> QED
  BY <1>4, <1>5

-----------------------------------------------------------------------------
(* The handlers, whose thread is idle when they begin *)

LEMMA HandleKeeps ==
    ASSUME TypeOK, Parts, Idle, delivered \subseteq delivered',
           NEW s \in Seqs, NEW e \in RequestStates,
           NEW steps \in Seq(Steps), Ordered(steps), Handle(s, e, steps),
           Taken(s)', Known(s) \/ ~Taken(s),
           Explains(Range(steps), s, e)
    PROVE  Parts'
<1>1. /\ status = "running" /\ Range(todo) = {}
      /\ todo' = steps /\ requests' = [requests EXCEPT ![s] = e]
      /\ UNCHANGED <<wal, logs, ledger, checkpoint, savedSeq, status, lastExec, sent>>
  BY Empty DEF Handle, Idle, store
<1>2. StepsInv'
  BY <1>1 DEF StepsInv
<1>3. Range(todo') = Range(steps) \cup {}
  BY <1>1
<1> DEFINE N == Range(steps)
<1>4. PhaseInv' /\ LogInv' /\ CheckpointInv' /\ OnceInv' /\ CertificateInv'
  <2>1. {} \subseteq Range(todo) /\ Range(todo) \subseteq Steps
    BY <1>1
  <2>2. \A x \in Range(todo) \ {} : x.op = "resend"
    BY <1>1
  <2> QED
    BY <1>1, <1>3, <2>1, <2>2, EntryKeeps
<1> QED
  BY <1>2, <1>4 DEF Parts

\* What Take says of a proposal and of a vote.
LEMMA TakeKeeps ==
    ASSUME NEW m, Take(m)
    PROVE  /\ Idle /\ delivered \subseteq delivered' /\ m \in delivered' /\ m \notin delivered
           /\ \A s : Taken(s) => Taken(s)'
BY DEF Take, Taken, Proposal

LEMMA PrePrepareKeeps ==
    ASSUME TypeOK, Parts, NEW s \in Seqs, HandlePrePrepare(s)
    PROVE  Parts'
<1> DEFINE e == [prepares |-> {Self}, commits |-> {}, decided |-> FALSE, phase |-> "prepare"]
           a == LogProposal(s)
           b == LogWal("READY", s)
           c == LogVote("PREPARE", s, Self)
           d == Send("PREPARE", s)
           steps == <<a, b, c, d>>
<1>1. /\ Take(Proposal(s)) /\ ~Known(s) /\ Handle(s, e, steps)
  BY DEF HandlePrePrepare, Proposal
<1>2. /\ Idle /\ delivered \subseteq delivered' /\ Taken(s)' /\ ~Taken(s)
  BY <1>1, TakeKeeps DEF Taken, Proposal
<1>3. Self \in Sites
  BY DEF Sites
<1>4. a \in Steps /\ b \in Steps /\ c \in Steps /\ d \in Steps
  BY <1>3, NewSteps
<1>5. e \in RequestStates
  BY <1>3 DEF RequestStates
<1>6. /\ a.op = "log" /\ a.entry = Proposal(s)
      /\ b.op = "wal" /\ b.state = "READY"
      /\ c.op = "log" /\ \A t : c.entry # Proposal(t)
      /\ d.op = "send" /\ d.type = "PREPARE"
  BY DEF LogProposal, LogWal, LogVote, Send, Proposal
<1>7. /\ c = LogVote("PREPARE", s, Self) /\ a = LogProposal(s)
      /\ e.prepares = {Self} /\ e.commits = {}
  OBVIOUS
<1> HIDE DEF a, b, c, d, e
<1>8. /\ Before(a, b) /\ Before(a, c) /\ Before(a, d) /\ Before(b, c) /\ Before(b, d) /\ Before(c, d)
  BY <1>6 DEF Before, Moves, Decides
<1>9. steps \in Seq(Steps) /\ Range(steps) = {a, b, c, d} /\ Ordered(steps)
  <2>1. steps \in Seq(Steps) /\ DOMAIN steps = {1, 2, 3, 4}
    BY <1>4
  <2>2. Range(steps) = {a, b, c, d}
    BY <2>1 DEF Range
  <2>3. \A k, l \in {1, 2, 3, 4} : k < l => Before(steps[k], steps[l])
    BY <1>8
  <2> HIDE DEF steps
  <2> QED
    BY <2>1, <2>2, <2>3 DEF Ordered
<1> HIDE DEF steps
<1>10. Explains(Range(steps), s, e)
  <2>1. \A x \in Range(steps) :
              /\ x.op \notin StartOps \cup {"checkpoint", "old_logs"}
              /\ x.op = "log" => \A t \in Seqs : x.entry = Proposal(t) => t = s
              /\ ~(x.op = "send" /\ x.type = "COMMIT")
              /\ ~Moves(x) /\ ~Decides(x)
    <3>1. \A t : Proposal(s) = Proposal(t) => t = s
      BY DEF Proposal
    <3> QED
      BY <1>6, <1>9, <3>1 DEF StartOps, Moves, Decides
  <2> QED
    BY <1>1, <1>7, <1>9, <2>1 DEF Explains
<1> QED
  BY <1>1, <1>2, <1>5, <1>9, <1>10, HandleKeeps

LEMMA PrepareKeeps ==
    ASSUME TypeOK, Parts, NEW s \in Seqs, NEW j \in Peers, HandlePrepare(s, j)
    PROVE  Parts'
<1> DEFINE r == [requests[s] EXCEPT !.prepares = @ \cup {j}]
           f == AfterCommitVote(WithOwnCommit(r))
           a == LogVote("PREPARE", s, j)
           p == <<a>>
           q == SendCommitSteps(s, r)
<1>1. /\ Take([type |-> "PREPARE", seq |-> s, sender |-> j]) /\ Known(s)
      /\ \/ PrepareQuorum(r) /\ Handle(s, f, p \o q)
         \/ ~PrepareQuorum(r) /\ Handle(s, r, p)
  BY DEF HandlePrepare, PreparedSteps
<1>2. Taken(s)
  BY <1>1 DEF Parts, LogInv
<1>3. Idle /\ delivered \subseteq delivered' /\ Taken(s)'
  BY <1>1, <1>2, TakeKeeps
<1>4. /\ requests[s] \in RequestStates /\ r \in RequestStates
      /\ r.prepares = requests[s].prepares \cup {j}
      /\ r.commits = requests[s].commits /\ r.decided = requests[s].decided
  <2>1. requests[s] \in RequestStates /\ r \in RequestStates
    BY <1>1, CountedTypes
  <2> QED
    BY <2>1 DEF RequestStates
<1> HIDE DEF r
<1>5. /\ f \in RequestStates /\ f.prepares = r.prepares /\ f.commits = r.commits \cup {Self}
      /\ r.decided => f.decided
      /\ CommitQuorum(WithOwnCommit(r)) =>
            ~r.decided /\ f.decided /\ Cardinality(f.commits) >= Quorum
  BY <1>4, EntryTypes DEF CommitQuorum
<1>6. /\ a \in Steps /\ a.op = "log" /\ \A t : a.entry # Proposal(t)
  <2>1. j \in Sites
    BY DEF Sites
  <2> QED
    BY <2>1, NewSteps DEF LogVote, Proposal
<1>7. p \in Seq(Steps) /\ Range(p) = {a} /\ Ordered(p)
  BY <1>6, One
<1>8. /\ q \in Seq(Steps) /\ Ordered(q) /\ LogVote("COMMIT", s, Self) \in Range(q)
      /\ \A x \in Range(q) :
            /\ x.op \in {"log", "send", "wal", "transfer", "last_seq", "trigger"}
            /\ x.op = "log" => x = LogVote("COMMIT", s, Self)
            /\ x.op = "send" => x.type = "COMMIT" /\ x.seq = s
            /\ x.op = "wal" => x.state = "COMMIT"
            /\ Moves(x) \/ Decides(x) =>
                  /\ x.tx = s /\ CommitQuorum(WithOwnCommit(r))
                  /\ \E y \in Range(q) : Decides(y)
  BY SendCommitShape
<1>9. \A t : LogVote("COMMIT", s, Self).entry # Proposal(t)
  BY DEF LogVote, Proposal
<1>10. a = LogVote("PREPARE", s, j)
  OBVIOUS
<1> HIDE DEF a, p, q, f
<1>11. CASE ~PrepareQuorum(r) /\ Handle(s, r, p)
  <2>1. Explains(Range(p), s, r)
    BY <1>1, <1>4, <1>6, <1>7, <1>10 DEF Explains, StartOps, Moves, Decides
  <2> QED
    BY <1>1, <1>3, <1>4, <1>7, <1>11, <2>1, HandleKeeps
<1>12. CASE PrepareQuorum(r) /\ Handle(s, f, p \o q)
  <2> DEFINE steps == p \o q
  <2>1. steps \in Seq(Steps) /\ Range(steps) = {a} \cup Range(q) /\ Ordered(steps)
    <3>1. \A x \in Range(p), y \in Range(q) : Before(x, y)
      BY <1>6, <1>7, <1>8 DEF Before, Moves, Decides
    <3> QED
      BY <1>7, <1>8, <3>1, ConcatRange, OrderedConcat
  <2>2. Handle(s, f, steps)
    BY <1>12
  <2> HIDE DEF steps
  <2>3. Cardinality(f.prepares) >= Quorum
    BY <1>5, <1>12 DEF PrepareQuorum
  <2>4. \A x \in Range(steps) :
              /\ x.op \notin StartOps \cup {"checkpoint", "old_logs"}
              /\ x.op = "log" => \A t \in Seqs : x.entry # Proposal(t)
              /\ x.op = "send" /\ x.type = "COMMIT" => x.seq = s
              /\ Moves(x) \/ Decides(x) =>
                    /\ x.tx = s /\ CommitQuorum(WithOwnCommit(r))
                    /\ \E y \in Range(steps) : Decides(y)
    BY <1>6, <1>8, <1>9, <2>1 DEF StartOps, Moves, Decides
  <2>5. Explains(Range(steps), s, f)
    BY <1>1, <1>4, <1>5, <1>8, <1>10, <2>1, <2>3, <2>4 DEF Explains
  <2> QED
    BY <1>1, <1>3, <1>5, <2>1, <2>2, <2>5, HandleKeeps
<1> QED
  BY <1>1, <1>11, <1>12

LEMMA CommitKeeps ==
    ASSUME TypeOK, Parts, NEW s \in Seqs, NEW j \in Peers, HandleCommit(s, j)
    PROVE  Parts'
<1> DEFINE r == [requests[s] EXCEPT !.commits = @ \cup {j}]
           f == AfterCommitVote(r)
           a == LogVote("COMMIT", s, j)
           p == <<a>>
           q == CommitVoteSteps(s, r)
           steps == p \o q
<1>1. /\ Take([type |-> "COMMIT", seq |-> s, sender |-> j]) /\ Known(s)
      /\ Handle(s, f, steps)
  BY DEF HandleCommit
<1>2. Taken(s)
  BY <1>1 DEF Parts, LogInv
<1>3. Idle /\ delivered \subseteq delivered' /\ Taken(s)'
  BY <1>1, <1>2, TakeKeeps
<1>4. /\ requests[s] \in RequestStates /\ r \in RequestStates
      /\ r.prepares = requests[s].prepares /\ r.decided = requests[s].decided
      /\ r.commits = requests[s].commits \cup {j}
  <2>1. requests[s] \in RequestStates /\ r \in RequestStates
    BY <1>1, CountedTypes
  <2> QED
    BY <2>1 DEF RequestStates
<1> HIDE DEF r
<1>5. /\ f \in RequestStates /\ f.prepares = r.prepares /\ f.commits = r.commits
      /\ r.decided => f.decided
      /\ CommitQuorum(r) => ~r.decided /\ f.decided /\ Cardinality(f.commits) >= Quorum
  BY <1>4, EntryTypes DEF CommitQuorum
<1>6. /\ a \in Steps /\ a.op = "log" /\ \A t : a.entry # Proposal(t)
  <2>1. j \in Sites
    BY DEF Sites
  <2> QED
    BY <2>1, NewSteps DEF LogVote, Proposal
<1>7. p \in Seq(Steps) /\ Range(p) = {a} /\ Ordered(p)
  BY <1>6, One
<1>8. /\ q \in Seq(Steps) /\ Ordered(q)
      /\ \A x \in Range(q) :
            /\ x.op \in {"wal", "transfer", "last_seq", "trigger"}
            /\ x.op = "wal" => x.state = "COMMIT"
            /\ Moves(x) \/ Decides(x) => /\ x.tx = s /\ CommitQuorum(r)
                                         /\ \E y \in Range(q) : Decides(y)
  BY CommitVoteShape
<1>9. a = LogVote("COMMIT", s, j)
  OBVIOUS
<1> HIDE DEF a, p, q, f
<1>10. steps \in Seq(Steps) /\ Range(steps) = {a} \cup Range(q) /\ Ordered(steps)
  <2>1. \A x \in Range(p), y \in Range(q) : Before(x, y)
    BY <1>6, <1>7, <1>8 DEF Before, Moves, Decides
  <2> QED
    BY <1>7, <1>8, <2>1, ConcatRange, OrderedConcat
<1> HIDE DEF steps
<1>11. \A x \in Range(steps) :
            /\ x.op \notin StartOps \cup {"checkpoint", "old_logs", "send"}
            /\ x.op = "log" => \A t \in Seqs : x.entry # Proposal(t)
            /\ Moves(x) \/ Decides(x) => /\ x.tx = s /\ CommitQuorum(r)
                                         /\ \E y \in Range(steps) : Decides(y)
  BY <1>6, <1>8, <1>10 DEF StartOps, Moves, Decides
<1>12. Explains(Range(steps), s, f)
  BY <1>1, <1>4, <1>5, <1>9, <1>10, <1>11 DEF Explains
<1> QED
  BY <1>1, <1>3, <1>5, <1>10, <1>12, HandleKeeps

LEMMA CheckpointMessageKeeps ==
    ASSUME TypeOK, Parts, NEW s \in Seqs, NEW j \in Peers, HandleCheckpoint(s, j)
    PROVE  Parts'
<1>1. /\ Take([type |-> "CHECKPOINT", seq |-> s, sender |-> j])
      /\ UNCHANGED <<wal, logs, ledger, checkpoint, savedSeq, status, requests, lastExec, sent>>
  BY DEF HandleCheckpoint, store
<1>2. /\ Idle /\ delivered \subseteq delivered'
  BY <1>1, TakeKeeps
<1>3. PICK pre : /\ todo' = pre \o <<>>
                 /\ \/ pre = <<>>
                    \/ /\ pre = <<SaveCheckpoint(s), DeleteOldWal(s), DeleteOldLogs(s)>>
                       /\ s > checkpoint.seq
  BY DEF HandleCheckpoint, CountCheckpointVote
<1>4. /\ pre \in Seq(Steps) /\ Ordered(pre)
      /\ \A x \in Range(pre) :
            /\ x.op \in {"checkpoint", "old_wal", "old_logs"} /\ x.seq = s
            /\ s > checkpoint.seq /\ \E y \in Range(pre) : y.op = "checkpoint" /\ y.seq = s
  BY <1>3, CheckpointSteps
<1>5. todo' = pre /\ status = "running" /\ Range(todo) = {}
  BY <1>2, <1>3, <1>4, ConcatEmptySeq, Empty DEF Idle
<1>6. StepsInv'
  BY <1>4, <1>5 DEF StepsInv
<1>7. PhaseInv'
  BY <1>1, <1>4, <1>5 DEF Parts, PhaseInv, StartOps
<1>8. LogInv'
  <2>1. \A d : Logged(d)' <=> Logged(d)
    BY <1>1, <1>4, <1>5 DEF Logged
  <2> QED
    BY <1>1, <1>2, <2>1, Numbers, LogKeeps DEF Parts
<1>9. CheckpointInv'
  BY <1>1, <1>4, <1>5 DEF CheckpointInv
<1>10. \A t \in Seqs : /\ DiskDecided(t) => DiskDecided(t)'
                       /\ PreparedOnDisk(t) => PreparedOnDisk(t)'
  BY <1>1, Numbers, DiskGrows
<1>11. OnceInv'
  <2>1. \A x : Moves(x) \/ Decides(x) => (x \in Range(todo) <=> x \in Range(todo'))
    BY <1>4, <1>5 DEF Moves, Decides
  <2>2. Range(todo) \subseteq Steps /\ Range(todo') \subseteq Steps
    <3>1. Range(pre) \subseteq Steps
      BY <1>4, LenProperties, ElementOfSeq DEF Range
    <3> QED
      BY <1>5, <3>1
  <2> QED
    BY <1>1, <1>2, <1>10, <2>1, <2>2, OnceKeeps DEF Parts
<1>12. CertificateInv'
  <2>1. Rebuilt' => Rebuilt
    BY <1>5 DEF Rebuilt
  <2>2. \A x \in Range(todo') : x.op # "send"
    BY <1>4, <1>5
  <2> QED
    BY <1>1, <1>10, <2>1, <2>2, Numbers, CertificateKeeps DEF Parts
<1> QED
  BY <1>6, <1>7, <1>8, <1>9, <1>11, <1>12 DEF Parts

-----------------------------------------------------------------------------
(* The process dies, and starts again *)

\* With nothing in memory and nothing to do, what is on disk is left.
LEMMA ForgottenKeeps ==
    ASSUME TypeOK, Parts, UNCHANGED <<wal, logs, ledger, checkpoint, savedSeq, delivered, sent>>,
           \A s \in Seqs : ~Known(s)', StepsInv', PhaseInv', ~Rebuilt',
           \A x \in Range(todo') :
              x.op \notin {"log", "wal", "send", "transfer", "ledger", "checkpoint", "old_logs"}
    PROVE  Parts'
<1>1. \A s : /\ DiskDecided(s)' <=> DiskDecided(s)
             /\ InWal(s)' <=> InWal(s)
             /\ PreparedOnDisk(s)' <=> PreparedOnDisk(s)
             /\ Committed(s)' <=> Committed(s)
             /\ Taken(s)' <=> Taken(s)
  BY DEF DiskDecided, InWal, PreparedOnDisk, Committed, Taken, Voters, Quorum, Proposal
<1>2. \A x \in Range(todo') : ~Moves(x) /\ ~Decides(x)
  BY DEF Moves, Decides
<1>3. LogInv'
  <2>1. ASSUME NEW s \in Seqs, Logged(Proposal(s))'
        PROVE  Taken(s)'
    <3>1. Logged(Proposal(s))
      BY <2>1 DEF Logged, Proposal
    <3> QED
      BY <1>1, <3>1 DEF Parts, LogInv
  <2>2. \A s \in Seqs : ~Known(s)'
    OBVIOUS
  <2> QED
    BY <2>1, <2>2 DEF LogInv, Known, Taken, Proposal
<1>4. CheckpointInv'
  BY DEF CheckpointInv
<1>5. OnceInv'
  <2>1. \A s \in Seqs : s \in ledger' \/ InWal(s)' => Taken(s)' /\ DiskDecided(s)'
    BY <1>1 DEF Parts, OnceInv
  <2>2. \A v, w \in wal' : v.state = "COMMIT" /\ w.state = "COMMIT" /\ v.tx = w.tx => v = w
    BY DEF Parts, OnceInv
  <2>3. \A x \in Range(todo') : x.op # "transfer"
    OBVIOUS
  <2>4. \A s \in Seqs : ~Known(s)'
    OBVIOUS
  <2>5. ASSUME NEW s \in Seqs,
               s \in ledger' \/ InWal(s)' \/ (\E x \in Range(todo') : (Moves(x) \/ Decides(x)) /\ x.tx = s)
        PROVE  Taken(s)' /\ (Known(s)' => requests'[s].decided)
    BY <1>2, <2>1, <2>4, <2>5
  <2> QED
    BY <1>2, <2>1, <2>2, <2>3, <2>5 DEF OnceInv, Quorum, Known, InWal, Taken
<1>6. CertificateInv'
  <2>1. ASSUME NEW s \in Seqs, Committed(s)'
        PROVE  s <= savedSeq' \/ s < checkpoint'.seq \/ PreparedOnDisk(s)'
    BY <1>1, <2>1 DEF Parts, CertificateInv
  <2>2. ~Rebuilt' /\ \A x \in Range(todo') : x.op # "send"
    OBVIOUS
  <2> QED
    BY <2>1, <2>2 DEF CertificateInv, Committed, Prepared, PreparedOnDisk, Rebuilt, Known, Voters, Proposal, Quorum
<1> QED
  BY <1>3, <1>4, <1>5, <1>6 DEF Parts

LEMMA CrashKeeps ==
    ASSUME TypeOK, Parts, Crash
    PROVE  Parts'
<1>1. /\ status' = "down" /\ todo' = <<>> /\ requests' = [s \in Seqs |-> NoRequest]
      /\ UNCHANGED <<wal, logs, ledger, checkpoint, savedSeq, delivered, sent>>
  BY DEF Crash, store
<1>2. /\ \A s \in Seqs : ~Known(s)'
      /\ ~Rebuilt' /\ StepsInv' /\ Range(todo') = {}
  BY <1>1, Empty DEF Known, Rebuilt, StepsInv
<1>3. PhaseInv'
  BY <1>1, <1>2 DEF PhaseInv
<1> QED
  BY <1>1, <1>2, <1>3, ForgottenKeeps

LEMMA RestartSteps ==
    ASSUME TypeOK, Restart
    PROVE  /\ StepsInv'
           /\ \A x \in Range(todo') : x.op \in StartOps \cup {"state"}
           /\ \A o \in {"replay", "reconstruct"} : \E x \in Range(todo') : x.op = o
<1>1. PICK order \in SetToSeqs(Accounts) :
          todo' = (IF checkpoint.seq > 0
                   THEN [k \in DOMAIN order |-> PutState(order[k], checkpoint.balances[order[k]])]
                   ELSE <<>>) \o StartSteps
  BY DEF Restart
<1> DEFINE states == [k \in DOMAIN order |-> PutState(order[k], checkpoint.balances[order[k]])]
           puts == IF checkpoint.seq > 0 THEN states ELSE <<>>
<1>2. /\ DOMAIN order = 1 .. Cardinality(Accounts) /\ Cardinality(Accounts) \in Nat
      /\ \A k \in DOMAIN order : order[k] \in Accounts
  BY RecoveryAssumption, FS_CardinalityType DEF SetToSeqs
<1>3. /\ states \in Seq(Steps) /\ DOMAIN states = DOMAIN order
      /\ \A k \in DOMAIN order : states[k].op = "state"
  <2>1. \A k \in DOMAIN order : states[k] \in Steps /\ states[k].op = "state"
    <3>1. \A a \in Accounts : checkpoint.balances[a] \in Int
      BY DEF TypeOK, Balances
    <3> QED
      BY <1>2, <3>1 DEF Steps, PutState
  <2>2. states \in [1 .. Cardinality(Accounts) -> Steps]
    <3>1. states = [k \in DOMAIN order |-> states[k]]
      OBVIOUS
    <3> HIDE DEF states
    <3> QED
      BY <1>2, <2>1, <3>1
  <2>3. DOMAIN states = DOMAIN order
    OBVIOUS
  <2> HIDE DEF states
  <2> QED
    BY <1>2, <2>1, <2>2, <2>3
<1> HIDE DEF states
<1>4. puts \in Seq(Steps) /\ Ordered(puts) /\ \A x \in Range(puts) : x.op = "state"
  <2>1. Ordered(states) /\ \A x \in Range(states) : x.op = "state"
    BY <1>3 DEF Ordered, Before, Moves, Decides, Range
  <2> QED
    BY <1>3, <2>1, Empty
<1>5. /\ StartSteps \in Seq(Steps) /\ Ordered(StartSteps)
      /\ \A x \in Range(StartSteps) : x.op \in StartOps
      /\ \A o \in {"replay", "reconstruct"} : \E x \in Range(StartSteps) : x.op = o
  <2> DEFINE a == Start("replay")
             b == Start("load_ledger")
             c == Start("reconstruct")
             d == Start("sync")
             e == Start("reprocess")
  <2>1. a \in Steps /\ b \in Steps /\ c \in Steps /\ d \in Steps /\ e \in Steps
    BY DEF Start, Steps, StartOps
  <2>2. /\ a.op = "replay" /\ b.op = "load_ledger" /\ c.op = "reconstruct"
        /\ d.op = "sync" /\ e.op = "reprocess"
    BY DEF Start
  <2>3. StartSteps = <<a, b, c, d, e>>
    BY DEF StartSteps
  <2> HIDE DEF a, b, c, d, e
  <2> DEFINE q == <<a, b, c, d, e>>
  <2>4. q \in Seq(Steps) /\ DOMAIN q = {1, 2, 3, 4, 5}
    BY <2>1
  <2>5. Range(q) = {a, b, c, d, e}
    BY <2>4 DEF Range
  <2>6. \A k, l \in {1, 2, 3, 4, 5} : k < l => Before(q[k], q[l])
    BY <2>2 DEF Before, Moves, Decides
  <2> HIDE DEF q
  <2>7. StartSteps = q /\ Ordered(q)
    BY <2>3, <2>4, <2>6 DEF Ordered, q
  <2> QED
    BY <2>2, <2>4, <2>5, <2>7 DEF StartOps
<1> HIDE DEF puts
<1>6. /\ StepsInv' /\ Range(todo') = Range(puts) \cup Range(StartSteps)
  <2>1. \A x \in Range(puts), y \in Range(StartSteps) : Before(x, y)
    BY <1>4, <1>5 DEF Before, Moves, Decides, StartOps
  <2>2. todo' = puts \o StartSteps
    BY <1>1 DEF puts, states
  <2> QED
    BY <1>4, <1>5, <2>1, <2>2, ConcatRange, OrderedConcat DEF StepsInv
<1> QED
  BY <1>4, <1>5, <1>6

LEMMA RestartKeeps ==
    ASSUME TypeOK, TypeOK', Parts, Restart
    PROVE  Parts'
<1>1. /\ status = "down" /\ status' = "starting" /\ requests' = requests
      /\ lastExec' = Bigger(savedSeq, checkpoint.seq)
      /\ UNCHANGED <<wal, logs, ledger, checkpoint, savedSeq, delivered, sent>>
  BY DEF Restart, store
<1>2. /\ StepsInv'
      /\ \A x \in Range(todo') : x.op \in StartOps \cup {"state"}
      /\ \E x \in Range(todo') : x.op = "reconstruct"
  BY RestartSteps
<1>3. PhaseInv'
  <2>1. lastExec' >= savedSeq' /\ lastExec' >= checkpoint'.seq
    BY <1>1, Numbers DEF Bigger
  <2>2. \A x \in Range(todo') : x.op \in StartOps \cup DiskOps
    BY <1>2 DEF DiskOps
  <2> QED
    BY <1>1, <2>1, <2>2 DEF PhaseInv
<1>4. /\ \A s \in Seqs : ~Known(s)'
      /\ ~Rebuilt'
  BY <1>1, <1>2 DEF Parts, PhaseInv, Known, Rebuilt
<1>5. \A x \in Range(todo') :
          x.op \notin {"log", "wal", "send", "transfer", "ledger", "checkpoint", "old_logs"}
  BY <1>2 DEF StartOps
<1> QED
  BY <1>1, <1>2, <1>3, <1>4, <1>5, ForgottenKeeps

-----------------------------------------------------------------------------
(* The invariant *)

LEMMA WalFinite ==
    ASSUME IsFiniteSet(wal), [Next]_vars
    PROVE  IsFiniteSet(wal')
<1>1. wal' \subseteq wal \/ \E x : wal' = wal \cup {x}
  <2>1. CASE HandleMessage
    BY <2>1 DEF HandleMessage, HandlePrePrepare, HandlePrepare, HandleCommit, HandleCheckpoint,
                Handle, store
  <2>2. CASE HandlerStep
    BY <2>2 DEF HandlerStep, PutPbftLog, PutWal, Broadcast, RunTransfer, WriteState, WriteLedger,
                WriteLastSeq, VoteCheckpoint, WriteCheckpoint, PruneWal, PruneLogs, store
  <2>3. CASE StartStep \/ Crash \/ Restart
    BY <2>3 DEF StartStep, ReplayWal, LoadLedger, ReconstructRequests, SyncWithPeers, Reprocess,
                ResendCommit, Crash, Restart, store
  <2>4. CASE UNCHANGED vars
    BY <2>4 DEF vars, store
  <2> QED
    BY <2>1, <2>2, <2>3, <2>4 DEF Next
<1> QED
  BY <1>1, FS_Subset, FS_AddElement

LEMMA InitKeeps == Init => RecoveryInv /\ IsFiniteSet(wal)
<1> SUFFICES ASSUME Init
             PROVE  RecoveryInv /\ IsFiniteSet(wal)
  OBVIOUS
<1>1. /\ wal = {} /\ logs = {} /\ ledger = {} /\ savedSeq = 0 /\ lastExec = 0
      /\ checkpoint.seq = 0 /\ status = "running" /\ todo = <<>> /\ sent = {}
      /\ \A s \in Seqs : ~Known(s)
  BY DEF Init, Known
<1>2. Range(todo) = {} /\ StepsInv
  BY <1>1, Empty DEF StepsInv
<1>3. LogInv
  BY <1>1, <1>2 DEF LogInv, Logged
<1>4. PhaseInv /\ CheckpointInv /\ OnceInv /\ CertificateInv
  BY <1>1, <1>2 DEF PhaseInv, CheckpointInv, OnceInv, InWal, CertificateInv, Committed
<1> QED
  BY <1>1, <1>2, <1>3, <1>4, InitTypes, FS_EmptySet DEF RecoveryInv

LEMMA StutterKeeps ==
    ASSUME Parts, UNCHANGED vars
    PROVE  Parts'
<1>1. UNCHANGED <<wal, logs, ledger, checkpoint, savedSeq, status, todo, requests, lastExec,
                  delivered, sent>>
  BY DEF vars, store, memory
<1>2. StepsInv' /\ PhaseInv' /\ CheckpointInv'
  BY <1>1 DEF Parts, StepsInv, PhaseInv, CheckpointInv, Known
<1>3. LogInv'
  BY <1>1 DEF Parts, LogInv, Known, Logged, Taken, Proposal, Vote
<1>4. OnceInv'
  BY <1>1 DEF Parts, OnceInv, InWal, Taken, Known, DiskDecided, Voters, Quorum, Proposal
<1>5. CertificateInv'
  BY <1>1 DEF Parts, CertificateInv, Committed, Prepared, PreparedOnDisk, Rebuilt, Known, Voters,
              Proposal, Quorum
<1> QED
  BY <1>2, <1>3, <1>4, <1>5 DEF Parts

LEMMA StepKeeps ==
    ASSUME RecoveryInv, IsFiniteSet(wal), [Next]_vars
    PROVE  RecoveryInv' /\ IsFiniteSet(wal)'
<1>1. TypeOK /\ Parts
  BY DEF RecoveryInv, Parts
<1>2. TypeOK'
  BY <1>1, StepTypes DEF Parts
<1>3. IsFiniteSet(wal)'
  BY WalFinite
<1>4. Parts'
  <2>1. CASE HandleMessage
    BY <1>1, <2>1, PrePrepareKeeps, PrepareKeeps, CommitKeeps, CheckpointMessageKeeps
    DEF HandleMessage
  <2>2. CASE HandlerStep
    BY <1>1, <1>2, <2>2, PutPbftLogKeeps, PutWalKeeps, BroadcastKeeps, RunTransferKeeps, WritesKeep,
       WriteLedgerKeeps, VoteCheckpointKeeps, WriteCheckpointKeeps, PruneLogsKeeps
    DEF HandlerStep
  <2>3. CASE StartStep
    BY <1>1, <1>2, <2>3, ReplayWalKeeps, LoadingKeeps, ReconstructKeeps, ReprocessKeeps,
       ResendCommitKeeps
    DEF StartStep
  <2>4. CASE Crash
    BY <1>1, <2>4, CrashKeeps
  <2>5. CASE Restart
    BY <1>1, <1>2, <2>5, RestartKeeps
  <2>6. CASE UNCHANGED vars
    BY <1>1, <2>6, StutterKeeps
  <2> QED
    BY <2>1, <2>2, <2>3, <2>4, <2>5, <2>6 DEF Next
<1> QED
  BY <1>2, <1>3, <1>4 DEF RecoveryInv, Parts

THEOREM InvariantHolds == Spec => [](RecoveryInv /\ IsFiniteSet(wal))
<1>1. Init => RecoveryInv /\ IsFiniteSet(wal)
  BY InitKeeps
<1>2. RecoveryInv /\ IsFiniteSet(wal) /\ [Next]_vars => (RecoveryInv /\ IsFiniteSet(wal))'
  BY StepKeeps
<1> QED
  BY <1>1, <1>2, PTL DEF Spec

-----------------------------------------------------------------------------
(* What follows from it *)

\* Whatever the node has done, crashed and replayed, each variable of the store,
\* the process and the network holds a value of its kind.
THEOREM TypeCorrect == Spec => []TypeOK
<1>1. RecoveryInv => TypeOK
  BY DEF RecoveryInv
<1> QED
  BY <1>1, InvariantHolds, PTL

\* replay_wal_from calls KVStore.transfer for no transaction the ledger holds by
\* then, after a crash at any write of a handler or of an earlier start().
THEOREM LedgerIsFinalHolds == Spec => []LedgerIsFinal
<1>1. RecoveryInv => LedgerIsFinal
  <2> SUFFICES ASSUME RecoveryInv, At("transfer"), Head(todo).replay
               PROVE  Head(todo).tx \notin ledger
    BY DEF LedgerIsFinal
  <2>1. Head(todo) \in Range(todo) /\ Head(todo).op = "transfer"
    BY HeadAndTail DEF RecoveryInv, StepsInv, At
  <2> QED
    BY <2>1 DEF RecoveryInv, OnceInv
<1> QED
  BY <1>1, InvariantHolds, PTL

\* A node that sent COMMIT and died, at whatever write, has after start() the
\* prepared certificate behind it, unless it executed past that number.
THEOREM CommitSurvivesHolds == Spec => []CommitSurvives
<1>1. RecoveryInv => CommitSurvives
  <2> SUFFICES ASSUME RecoveryInv, Idle, NEW s \in Seqs, Committed(s), s > lastExec
               PROVE  Prepared(s)
    BY DEF CommitSurvives, Committed, Prepared
  <2>1. Rebuilt
    BY DEF Idle, Rebuilt
  <2> QED
    BY <2>1 DEF RecoveryInv, CertificateInv
<1> QED
  BY <1>1, InvariantHolds, PTL
=============================================================================
