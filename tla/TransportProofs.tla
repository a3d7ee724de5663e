--------------------------- MODULE TransportProofs ---------------------------
(***************************************************************************)
(* Proofs about Transport, for any number of threads, messages, sockets    *)
(* and faults: the pool never offers a socket this node has closed, what   *)
(* was sent is delivered, and at most once.                                *)
(***************************************************************************)
EXTENDS Transport, SequenceTheorems, FiniteSetTheorems, TLAPS

-----------------------------------------------------------------------------
(* The table of sockets *)

\* Sockets are numbered as they are opened; only opened ones are closed.
SocketsInv ==
    /\ opened \in Nat
    /\ pool \in 0 .. opened
    /\ closed \subseteq 1 .. opened
    /\ pool \notin closed

\* The three things a step may do to the pool.
PoolStep ==
    \/ UNCHANGED poolVars
    \/ /\ closed' = closed \cup ({pool} \ {NoSocket})
       /\ pool' = NoSocket /\ opened' = opened
    \/ opened' = opened + 1 /\ pool' = opened + 1 /\ closed' = closed

LEMMA StepPools == [Next]_vars => PoolStep
<1> SUFFICES ASSUME [Next]_vars
             PROVE  PoolStep
  OBVIOUS
<1>1. ASSUME NEW t \in Senders,
             \/ TakeSocket(t) \/ Write(t) \/ WriteFails(t)
             \/ Reconnect(t) \/ ReconnectFails(t) \/ RewriteFails(t)
      PROVE  PoolStep
  BY <1>1 DEF TakeSocket, Write, WriteFails, Reconnect, ReconnectFails, RewriteFails,
              ClosePooled, Connect, poolVars, PoolStep
<1>2. ASSUME KeeperTakesSocket \/ Check \/ CheckFails \/ KeeperConnects
                \/ KeeperConnectFails \/ (\E k \in Sockets : Break(k))
      PROVE  PoolStep
  BY <1>2 DEF KeeperTakesSocket, Check, CheckFails, KeeperConnects, KeeperConnectFails,
              Break, ClosePooled, Connect, poolVars, PoolStep
<1>3. CASE UNCHANGED vars
  BY <1>3 DEF vars, poolVars, PoolStep
<1> QED
  BY <1>1, <1>2, <1>3 DEF Next

\* However threads close and replace each other's sockets (connection_pool.py,
\* send_message and _keep_connected), none takes a closed one from the pool.
THEOREM PooledIsOpenHolds == Spec => []PooledIsOpen
<1>1. Init => SocketsInv
  BY DEF Init, SocketsInv, NoSocket
<1>2. SocketsInv /\ [Next]_vars => SocketsInv'
  <2> SUFFICES ASSUME SocketsInv, PoolStep
               PROVE  SocketsInv'
    BY StepPools
  <2>1. CASE UNCHANGED poolVars
    BY <2>1 DEF SocketsInv, poolVars
  <2>2. /\ closed' = closed \cup ({pool} \ {NoSocket})
        /\ pool' = NoSocket /\ opened' = opened
        => SocketsInv'
    <3>1. \A k \in {pool} \ {NoSocket} : k \in 1 .. opened
      BY DEF SocketsInv, NoSocket
    <3> QED
      BY <3>1 DEF SocketsInv, NoSocket
  <2>3. opened' = opened + 1 /\ pool' = opened + 1 /\ closed' = closed => SocketsInv'
    BY DEF SocketsInv
  <2> QED
    BY <2>1, <2>2, <2>3 DEF PoolStep
<1>3. SocketsInv => PooledIsOpen
  BY DEF SocketsInv, PooledIsOpen
<1> QED
  BY <1>1, <1>2, <1>3, PTL DEF Spec

-----------------------------------------------------------------------------
(* The types of what threads and streams hold.  A thread that sends has the *)
(* end of its line still to write.                                          *)

Bytes == (Messages \X {1, 2}) \cup {Newline}

\* How much of its line thread t has written, if it is sending.
Sent(t) == 3 - Len(left[t])

HasRest(t) ==
    /\ sock[t] \in Sockets
    /\ Len(left[t]) \in 1 .. 3
    /\ \A n \in 1 .. Len(left[t]) : left[t][n] = Line(Current(t))[Sent(t) + n]

WireTypes ==
    /\ opened \in 0 .. MaxSockets
    /\ pool \in 0 .. opened
    /\ stream \in [Sockets -> Seq(Bytes)]
    /\ pc \in [Threads -> {"idle", "connect", "write", "rewrite", "check"}]
    /\ sock \in [Threads -> 0 .. MaxSockets]
    /\ left \in [Threads -> Seq(Bytes)]
    /\ done \in [Senders -> Nat]
    /\ written \in [Messages -> 0 .. MaxSockets]
    /\ pc[Keeper] \notin Sending
    /\ pc[Keeper] = "check" => sock[Keeper] \in Sockets

ThreadsInv ==
    \A t \in Senders :
        /\ pc[t] # "idle" => done[t] < Len(Outbox[t])
        /\ pc[t] \in Sending => HasRest(t)

-----------------------------------------------------------------------------
(* What the streams hold.  On a connection that works and on which no line   *)
(* was cut, the part of a line that is written begins a line of the stream.  *)

\* The first n bytes of the line of m are the last ones of socket k, and they
\* begin a line there.
Placed(k, m, n) ==
    /\ n <= Len(stream[k])
    /\ StartsLine(k, Len(stream[k]) - n + 1)
    /\ \A l \in 1 .. n : stream[k][Len(stream[k]) - n + l] = Line(m)[l]

IsWhole(k) == k \notin broken \cup torn

\* Thread t is in the middle of a line on socket k.
Occupies(t, k) == InLine(t) /\ sock[t] = k

LinesInv ==
    \A k \in Sockets : IsWhole(k) =>
        /\ \A t, u \in Senders : Occupies(t, k) /\ Occupies(u, k) => t = u
        /\ \A t \in Senders : Occupies(t, k) => Placed(k, Current(t), Sent(t))
        /\ (\A t \in Senders : ~Occupies(t, k)) => StartsLine(k, Len(stream[k]) + 1)

WrittenInv ==
    \A m \in Messages : written[m] # NoSocket =>
        LinesOf(m, written[m]) # {} \/ written[m] \in broken \cup torn

-----------------------------------------------------------------------------
(* The first byte of a message is sent once, unless a write stops half way. *)

IsFirstByte(m, k, n) ==
    k \in Sockets /\ n \in 1 .. Len(stream[k]) /\ stream[k][n] = <<m, 1>>

FirstBytesInv ==
    \A m \in Messages \ halfway :
        /\ \A k, l \in Sockets : \A n, o \in Nat :
              IsFirstByte(m, k, n) /\ IsFirstByte(m, l, o) => k = l /\ n = o
        /\ \A t \in Senders : \A d \in DOMAIN Outbox[t] :
              /\ Outbox[t][d] = m
              /\ d > done[t]
              /\ d = done[t] + 1 => ~InLine(t)
              => \A k \in Sockets : \A n \in Nat : ~IsFirstByte(m, k, n)

WireInv == WireTypes /\ ThreadsInv /\ LinesInv /\ WrittenInv /\ FirstBytesInv
-----------------------------------------------------------------------------
(* Lines and bytes *)

LEMMA LineBytes ==
    ASSUME NEW m \in Messages
    PROVE  /\ Line(m) \in Seq(Bytes)
           /\ Len(Line(m)) = 3
           /\ Line(m)[1] = <<m, 1>> /\ Line(m)[2] = <<m, 2>> /\ Line(m)[3] = Newline
BY DEF Line, Bytes

\* Only the first byte of a line is the first byte of a message.
LEMMA FirstByteIsFirst ==
    ASSUME NEW m \in Messages, NEW o \in Messages, NEW n \in 1 .. 3
    PROVE  Line(m)[n] = <<o, 1>> <=> n = 1 /\ m = o
<1>1. Newline # <<o, 1>>
  BY TransportAssumption
<1>2. n = 1 \/ n = 2 \/ n = 3
  OBVIOUS
<1> QED
  BY <1>1, <1>2 DEF Line

LEMMA CurrentIsMessage ==
    ASSUME WireTypes, NEW t \in Senders, done[t] < Len(Outbox[t])
    PROVE  /\ Current(t) \in Messages
           /\ done[t] + 1 \in DOMAIN Outbox[t]
<1>1. Outbox[t] \in Seq(Messages) /\ done[t] \in Nat
  BY TransportAssumption DEF WireTypes
<1>2. done[t] + 1 \in 1 .. Len(Outbox[t])
  BY <1>1
<1> QED
  BY <1>1, <1>2 DEF Current

LEMMA SendersAreThreads ==
    /\ Senders \subseteq Threads /\ Keeper \in Threads /\ Keeper \notin Senders
BY TransportAssumption DEF Threads

LEMMA NoSocketTypes ==
    NoSocket \in 0 .. MaxSockets /\ <<>> \in Seq(Bytes)
BY TransportAssumption DEF NoSocket

-----------------------------------------------------------------------------
(* The types *)

LEMMA InitWire == Init => WireInv
<1> SUFFICES ASSUME Init
             PROVE  WireInv
  OBVIOUS
<1> USE DEF Init
<1>1. WireTypes
  BY SendersAreThreads, TransportAssumption DEF WireTypes, Sockets, NoSocket, Sending
<1>2. ThreadsInv
  BY SendersAreThreads DEF ThreadsInv, Sending
<1>3. \A k \in Sockets : stream[k] = <<>>
  OBVIOUS
<1>4. \A t \in Senders : ~InLine(t)
  BY SendersAreThreads DEF InLine, Sending
<1>5. LinesInv
  BY <1>3, <1>4 DEF LinesInv, Occupies, StartsLine
<1>6. WrittenInv
  BY DEF WrittenInv
<1>7. FirstBytesInv
  BY <1>3 DEF FirstBytesInv, IsFirstByte
<1> QED
  BY <1>1, <1>2, <1>5, <1>6, <1>7 DEF WireInv

\* What Put may do to the streams and to torn.
LEMMA PutTypes ==
    ASSUME WireTypes, NEW t \in Threads, sock[t] \in Sockets,
           NEW bytes \in Seq(Bytes), Put(t, bytes)
    PROVE  /\ stream' \in [Sockets -> Seq(Bytes)]
           /\ \A k \in Sockets \ {sock[t]} : stream'[k] = stream[k]
           /\ stream'[sock[t]] = IF sock[t] \in broken THEN stream[sock[t]]
                                 ELSE stream[sock[t]] \o bytes
           /\ torn \subseteq torn'
<1>1. stream[sock[t]] \o bytes \in Seq(Bytes)
  BY ConcatProperties DEF WireTypes
<1> QED
  BY <1>1 DEF Put, WireTypes

LEMMA LastPart ==
    ASSUME NEW S, NEW s \in Seq(S), NEW n \in 1 .. Len(s)
    PROVE  /\ SubSeq(s, 1, n) \in Seq(S) /\ Len(SubSeq(s, 1, n)) = n
           /\ \A l \in 1 .. n : SubSeq(s, 1, n)[l] = s[l]
           /\ SubSeq(s, n + 1, Len(s)) \in Seq(S)
           /\ Len(SubSeq(s, n + 1, Len(s))) = Len(s) - n
           /\ \A l \in 1 .. Len(s) - n : SubSeq(s, n + 1, Len(s))[l] = s[n + l]
OBVIOUS

\* A thread that goes on as before, stops, or begins with a whole line.
LEMMA ThreadsKept ==
    ASSUME ThreadsInv,
           \A u \in Senders :
              \/ /\ pc'[u] = pc[u] /\ sock'[u] = sock[u]
                 /\ left'[u] = left[u] /\ done'[u] = done[u]
              \/ pc'[u] = "idle"
              \/ pc'[u] = "connect" /\ done'[u] < Len(Outbox[u])
              \/ done'[u] < Len(Outbox[u]) /\ HasRest(u)'
    PROVE  ThreadsInv'
<1> SUFFICES ASSUME NEW u \in Senders
             PROVE  /\ pc'[u] # "idle" => done'[u] < Len(Outbox[u])
                    /\ pc'[u] \in Sending => HasRest(u)'
  BY DEF ThreadsInv
<1>1. CASE /\ pc'[u] = pc[u] /\ sock'[u] = sock[u]
           /\ left'[u] = left[u] /\ done'[u] = done[u]
  <2>1. HasRest(u) => HasRest(u)'
    BY <1>1 DEF HasRest, Sent, Current
  <2> QED
    BY <1>1, <2>1 DEF ThreadsInv
<1>2. CASE \/ pc'[u] = "idle"
           \/ pc'[u] = "connect" /\ done'[u] < Len(Outbox[u])
           \/ done'[u] < Len(Outbox[u]) /\ HasRest(u)'
  BY <1>2 DEF Sending
<1> QED
  BY <1>1, <1>2

LEMMA PartIsLeft ==
    ASSUME NEW length \in 1 .. 3, NEW n \in 1 .. length, n # length
    PROVE  length - n \in 1 .. 3
OBVIOUS

LEMMA WriteTypes ==
    ASSUME WireTypes, ThreadsInv, NEW t \in Senders, Write(t)
    PROVE  WireTypes' /\ ThreadsInv'
<1> USE SendersAreThreads
<1>1. done[t] < Len(Outbox[t]) /\ HasRest(t) /\ Current(t) \in Messages
  BY CurrentIsMessage DEF Write, ThreadsInv, Sending
<1>2. PICK n \in 1 .. Len(left[t]) :
          /\ Put(t, SubSeq(left[t], 1, n))
          /\ IF n = Len(left[t])
             THEN ReturnTrue(t) /\ written' = [written EXCEPT ![Current(t)] = sock[t]]
             ELSE /\ left' = [left EXCEPT ![t] = SubSeq(@, n + 1, Len(@))]
                  /\ UNCHANGED <<pc, sock, attempt, done, written>>
  BY DEF Write
<1>3. left[t] \in Seq(Bytes) /\ pc[t] \in Sending
  BY DEF WireTypes, Write
<1>4. /\ SubSeq(left[t], 1, n) \in Seq(Bytes)
      /\ SubSeq(left[t], n + 1, Len(left[t])) \in Seq(Bytes)
      /\ Len(SubSeq(left[t], n + 1, Len(left[t]))) = Len(left[t]) - n
      /\ \A l \in 1 .. Len(left[t]) - n :
            SubSeq(left[t], n + 1, Len(left[t]))[l] = left[t][n + l]
  BY <1>3, LastPart
<1>5. stream' \in [Sockets -> Seq(Bytes)]
  BY <1>1, <1>2, <1>4, PutTypes DEF HasRest
<1>6. WireTypes'
  <2>1. opened' = opened /\ pool' = pool
    BY DEF Write, poolVars
  <2>2. CASE n = Len(left[t])
    <3>1. written' \in [Messages -> 0 .. MaxSockets]
      BY <1>1, <1>2, <2>2 DEF WireTypes, HasRest
    <3>2. /\ left' \in [Threads -> Seq(Bytes)] /\ done' \in [Senders -> Nat]
          /\ sock' \in [Threads -> 0 .. MaxSockets]
      <4>1. /\ left' = [left EXCEPT ![t] = <<>>] /\ sock' = [sock EXCEPT ![t] = NoSocket]
            /\ done' = [done EXCEPT ![t] = @ + 1]
        BY <1>2, <2>2 DEF ReturnTrue, Return
      <4> QED
        BY <4>1, NoSocketTypes DEF WireTypes
    <3>3. /\ pc' = [pc EXCEPT ![t] = "idle"]
          /\ pc'[Keeper] = pc[Keeper] /\ sock'[Keeper] = sock[Keeper]
      BY <1>2, <2>2 DEF ReturnTrue, Return, WireTypes
    <3> QED
      BY <1>5, <2>1, <3>1, <3>2, <3>3 DEF WireTypes
  <2>3. CASE n # Len(left[t])
    <3>1. /\ left' = [left EXCEPT ![t] = SubSeq(@, n + 1, Len(@))]
          /\ UNCHANGED <<pc, sock, done, written>>
      BY <1>2, <2>3
    <3>2. left' \in [Threads -> Seq(Bytes)]
      BY <1>4, <3>1 DEF WireTypes
    <3> QED
      BY <1>5, <2>1, <3>1, <3>2 DEF WireTypes
  <2> QED
    BY <2>2, <2>3
<1>7. ThreadsInv'
  <2>1. CASE n = Len(left[t])
    <3>1. pc'[t] = "idle"
      BY <1>2, <2>1 DEF ReturnTrue, Return, WireTypes
    <3>2. \A u \in Senders \ {t} : /\ pc'[u] = pc[u] /\ sock'[u] = sock[u]
                                  /\ left'[u] = left[u] /\ done'[u] = done[u]
      BY <1>2, <2>1 DEF ReturnTrue, Return, WireTypes
    <3> QED
      BY <3>1, <3>2, ThreadsKept
  <2>2. CASE n # Len(left[t])
    <3>1. sock' = sock /\ done' = done /\ pc' = pc
      BY <1>2, <2>2
    <3>2. left'[t] = SubSeq(left[t], n + 1, Len(left[t]))
      BY <1>2, <2>2 DEF WireTypes
    <3>3. Len(left'[t]) = Len(left[t]) - n /\ Len(left[t]) - n \in 1 .. 3
      <4>1. Len(left'[t]) = Len(left[t]) - n
        BY <1>4, <3>2
      <4>2. Len(left[t]) \in 1 .. 3
        BY <1>1 DEF HasRest
      <4> QED
        BY <2>2, <4>1, <4>2, PartIsLeft
    <3>4. ASSUME NEW l \in 1 .. Len(left[t]) - n
          PROVE  left'[t][l] = Line(Current(t))[3 - Len(left'[t]) + l]
      <4>1. n + l \in 1 .. Len(left[t]) /\ Len(left[t]) \in 1 .. 3
        BY <1>1 DEF HasRest
      <4>2. (3 - Len(left[t])) + (n + l) = 3 - Len(left'[t]) + l
        BY <3>3, <4>1
      <4>3. left[t][n + l] = Line(Current(t))[(3 - Len(left[t])) + (n + l)]
        BY <1>1, <4>1 DEF HasRest, Sent
      <4> QED
        BY <1>4, <3>2, <4>2, <4>3
    <3>5. HasRest(t)'
      BY <1>1, <3>1, <3>3, <3>4 DEF HasRest, Sent, Current
    <3>6. \A u \in Senders \ {t} : left'[u] = left[u]
      BY <1>2, <2>2 DEF WireTypes
    <3> QED
      BY <1>1, <3>1, <3>5, <3>6, ThreadsKept
  <2> QED
    BY <2>1, <2>2
<1> QED
  BY <1>6, <1>7

LEMMA SenderTypes ==
    ASSUME WireTypes, ThreadsInv, NEW t \in Senders,
           \/ TakeSocket(t) \/ WriteFails(t) \/ Reconnect(t)
           \/ ReconnectFails(t) \/ RewriteFails(t)
    PROVE  WireTypes' /\ ThreadsInv'
<1> USE SendersAreThreads
<1>1. pc[t] # "idle" => done[t] < Len(Outbox[t])
  BY DEF ThreadsInv
<1>2. done[t] < Len(Outbox[t]) =>
         Line(Current(t)) \in Seq(Bytes) /\ Len(Line(Current(t))) = 3
  BY CurrentIsMessage, LineBytes
<1>3. ASSUME NextAttempt(t), opened' = opened, pool' = pool, stream' = stream,
             written' = written
      PROVE  WireTypes' /\ ThreadsInv'
  <2> USE <1>3
  <2>1. /\ pc' = [pc EXCEPT ![t] = "idle"]
        /\ sock' = [sock EXCEPT ![t] = NoSocket]
        /\ left' = [left EXCEPT ![t] = <<>>]
        /\ done' = done \/ done' = [done EXCEPT ![t] = @ + 1]
    BY DEF NextAttempt, Return
  <2>6. done' \in [Senders -> Nat] /\ \A u \in Senders \ {t} : done'[u] = done[u]
    BY <2>1 DEF WireTypes
  <2>2. /\ pc'[t] = "idle"
        /\ \A u \in Threads \ {t} :
              pc'[u] = pc[u] /\ sock'[u] = sock[u] /\ left'[u] = left[u]
    BY <2>1 DEF WireTypes
  <2>3. ThreadsInv'
    BY <2>2, <2>6, ThreadsKept
  <2>4. pc'[Keeper] = pc[Keeper] /\ sock'[Keeper] = sock[Keeper]
    BY <2>2
  <2>5. WireTypes'
    BY <2>1, <2>4, <2>6, NoSocketTypes DEF WireTypes
  <2> QED
    BY <2>3, <2>5
<1>4. ASSUME NEW k \in Sockets, done[t] < Len(Outbox[t]),
             pc'[t] \in {"write", "rewrite"},
             pc' = [pc EXCEPT ![t] = pc'[t]],
             sock' = [sock EXCEPT ![t] = k],
             left' = [left EXCEPT ![t] = Line(Current(t))],
             opened' \in 0 .. MaxSockets, pool' \in 0 .. opened',
             stream' = stream, done' = done, written' = written
      PROVE  WireTypes' /\ ThreadsInv'
  <2>1. WireTypes'
    <3>1. \A u \in Threads \ {t} : pc'[u] = pc[u] /\ sock'[u] = sock[u]
      BY <1>4 DEF WireTypes
    <3>2. pc'[Keeper] = pc[Keeper] /\ sock'[Keeper] = sock[Keeper]
      BY <3>1
    <3>3. k \in 0 .. MaxSockets
      BY TransportAssumption DEF Sockets
    <3> QED
      BY <1>2, <1>4, <3>2, <3>3 DEF WireTypes
  <2>2. \A u \in Senders \ {t} :
            pc'[u] = pc[u] /\ sock'[u] = sock[u] /\ left'[u] = left[u]
    BY <1>4 DEF WireTypes
  <2>3. sock'[t] = k /\ left'[t] = Line(Current(t))
    BY <1>4 DEF WireTypes
  <2>4. Current(t)' = Current(t) /\ Sent(t)' = 0 /\ Len(left'[t]) = 3
    BY <1>2, <1>4, <2>3 DEF Current, Sent
  <2>5. HasRest(t)'
    BY <1>4, <2>3, <2>4 DEF HasRest
  <2> QED
    BY <1>4, <2>1, <2>2, <2>5, ThreadsKept
<1>5. CASE TakeSocket(t)
  <2> USE <1>5
  <2>1. CASE pool = NoSocket
    <3>1. /\ pc' = [pc EXCEPT ![t] = "connect"] /\ done[t] < Len(Outbox[t])
          /\ sock' = [sock EXCEPT ![t] = NoSocket]
          /\ UNCHANGED <<left, done, pool, opened, stream, written>>
      BY <2>1 DEF TakeSocket, poolVars, wireVars, history
    <3>2. /\ pc'[t] = "connect"
          /\ \A u \in Threads \ {t} : pc'[u] = pc[u] /\ sock'[u] = sock[u]
      BY <3>1 DEF WireTypes
    <3>3. ThreadsInv'
      BY <3>1, <3>2, ThreadsKept
    <3>4. pc'[Keeper] = pc[Keeper] /\ sock'[Keeper] = sock[Keeper]
      BY <3>2
    <3> QED
      BY <3>1, <3>3, <3>4, TransportAssumption DEF WireTypes, NoSocket
  <2>2. CASE pool # NoSocket
    <3>1. pool \in Sockets /\ opened \in 0 .. MaxSockets
      BY <2>2, TransportAssumption DEF WireTypes, NoSocket, Sockets
    <3>2. pc'[t] = "write"
      BY <2>2 DEF TakeSocket, WireTypes
    <3> QED
      BY <1>4, <2>2, <3>1, <3>2 DEF TakeSocket, poolVars, wireVars, history, WireTypes
  <2> QED
    BY <2>1, <2>2
<1>6. CASE WriteFails(t)
  <2>1. pool' = NoSocket /\ opened' = opened /\ stream' = stream /\ written' = written
    BY <1>6 DEF WriteFails, ClosePooled, wireVars
  <2>2. /\ pc' = [pc EXCEPT ![t] = "connect"] /\ done[t] < Len(Outbox[t])
        /\ left' = [left EXCEPT ![t] = <<>>] /\ UNCHANGED <<sock, done>>
    BY <1>1, <1>6 DEF WriteFails
  <2>3. /\ pc'[t] = "connect"
        /\ \A u \in Threads \ {t} : pc'[u] = pc[u] /\ left'[u] = left[u]
    BY <2>2 DEF WireTypes
  <2>4. ThreadsInv'
    BY <2>2, <2>3, ThreadsKept
  <2>5. pc'[Keeper] = pc[Keeper]
    BY <2>3
  <2> QED
    BY <2>1, <2>2, <2>4, <2>5 DEF WireTypes, NoSocket
<1>7. CASE Reconnect(t)
  <2>1. opened' = opened + 1 /\ pool' = opened' /\ opened < MaxSockets
    BY <1>7 DEF Reconnect, Connect
  <2>2. opened' \in Sockets /\ opened' \in 0 .. MaxSockets /\ pool' \in 0 .. opened'
    BY <2>1, TransportAssumption DEF WireTypes, Sockets
  <2>3. pc'[t] = "rewrite"
    BY <1>7 DEF Reconnect, WireTypes
  <2> QED
    BY <1>1, <1>4, <1>7, <2>2, <2>3 DEF Reconnect, Connect, wireVars, history
<1>8. CASE ReconnectFails(t)
  BY <1>3, <1>8 DEF ReconnectFails, poolVars, wireVars
<1>9. CASE RewriteFails(t)
  BY <1>3, <1>9 DEF RewriteFails, poolVars, wireVars
<1> QED
  BY <1>5, <1>6, <1>7, <1>8, <1>9

LEMMA KeeperTypes ==
    ASSUME WireTypes, ThreadsInv,
           \/ KeeperTakesSocket \/ Check \/ CheckFails \/ KeeperConnects
           \/ KeeperConnectFails \/ (\E k \in Sockets : Break(k)) \/ UNCHANGED vars
    PROVE  WireTypes' /\ ThreadsInv'
<1> USE SendersAreThreads
<1>1. ASSUME NEW where \in {"idle", "connect", "check"}, KeeperGoesTo(where),
             where = "check" => pool # NoSocket,
             opened' \in 0 .. MaxSockets, pool' \in 0 .. opened',
             stream' \in [Sockets -> Seq(Bytes)], written' = written
      PROVE  WireTypes' /\ ThreadsInv'
  <2>1. pc'[Keeper] = where /\ sock'[Keeper] = IF where = "check" THEN pool ELSE NoSocket
    BY <1>1 DEF KeeperGoesTo, WireTypes
  <2>2. pool # NoSocket => pool \in Sockets
    BY TransportAssumption DEF WireTypes, NoSocket, Sockets
  <2>3. WireTypes'
    <3>1. Keeper \in Threads /\ where \notin Sending
      BY DEF Threads, Sending
    <3>2. pc' = [pc EXCEPT ![Keeper] = where] /\ UNCHANGED <<left, done>>
          /\ sock' = [sock EXCEPT ![Keeper] = IF where = "check" THEN pool ELSE NoSocket]
      BY <1>1 DEF KeeperGoesTo
    <3>3. where \in {"idle", "connect", "write", "rewrite", "check"}
      OBVIOUS
    <3>4. pc' \in [Threads -> {"idle", "connect", "write", "rewrite", "check"}]
      BY <3>2, <3>3 DEF WireTypes
    <3>5. sock'[Keeper] \in 0 .. MaxSockets /\ (where = "check" => sock'[Keeper] \in Sockets)
      BY <1>1, <2>1, <2>2, TransportAssumption DEF NoSocket, Sockets
    <3>6. sock' \in [Threads -> 0 .. MaxSockets]
      BY <2>1, <3>2, <3>5 DEF WireTypes
    <3>7. left' \in [Threads -> Seq(Bytes)] /\ done' \in [Senders -> Nat]
          /\ written' \in [Messages -> 0 .. MaxSockets]
      BY <1>1, <3>2 DEF WireTypes
    <3> QED
      BY <1>1, <2>1, <3>1, <3>4, <3>5, <3>6, <3>7 DEF WireTypes
  <2>4. \A u \in Senders : pc'[u] = pc[u] /\ sock'[u] = sock[u]
    BY <1>1 DEF KeeperGoesTo
  <2> QED
    BY <1>1, <2>3, <2>4 DEF KeeperGoesTo, ThreadsInv, HasRest, Sent, Current
<1>2. CASE KeeperTakesSocket
  BY <1>1, <1>2 DEF KeeperTakesSocket, poolVars, wireVars, history, WireTypes
<1>3. CASE Check
  <2>1. sock[Keeper] \in Sockets
    BY <1>3 DEF Check, WireTypes
  <2>2. <<>> \in Seq(Bytes) /\ <<Newline>> \in Seq(Bytes)
    BY DEF Bytes
  <2>3. PICK bytes \in Seq(Bytes) : Put(Keeper, bytes)
    BY <1>3, <2>2 DEF Check
  <2>4. stream' \in [Sockets -> Seq(Bytes)]
    BY <2>1, <2>3, PutTypes
  <2> QED
    BY <1>1, <1>3, <2>4 DEF Check, poolVars, WireTypes
<1>4. CASE CheckFails
  BY <1>1, <1>4 DEF CheckFails, ClosePooled, wireVars, NoSocket, WireTypes
<1>5. CASE KeeperConnects
  <2>1. opened' = opened + 1 /\ pool' = opened' /\ opened < MaxSockets
    BY <1>5 DEF KeeperConnects, Connect
  <2>2. opened' \in 0 .. MaxSockets /\ pool' \in 0 .. opened'
    BY <2>1, TransportAssumption DEF WireTypes
  <2> QED
    BY <1>1, <1>5, <2>2 DEF KeeperConnects, Connect, wireVars, history, WireTypes
<1>6. CASE KeeperConnectFails
  BY <1>1, <1>6 DEF KeeperConnectFails, poolVars, wireVars, WireTypes
<1>7. CASE (\E k \in Sockets : Break(k)) \/ UNCHANGED vars
  <2>1. UNCHANGED <<poolVars, stream, threadVars, history>>
    BY <1>7 DEF Break, vars, wireVars
  <2> QED
    BY <2>1 DEF poolVars, threadVars, history, WireTypes, ThreadsInv, HasRest, Sent, Current
<1> QED
  BY <1>2, <1>3, <1>4, <1>5, <1>6, <1>7

-----------------------------------------------------------------------------
(* Steps that put no byte of a line into a socket.  A thread that leaves its *)
(* line in the middle says so in torn and halfway; the newline of the health *)
(* check goes only where a line is cut.                                      *)

ThreadStays(t) ==
    /\ pc'[t] = pc[t] /\ sock'[t] = sock[t]
    /\ left'[t] = left[t] /\ done'[t] = done[t]

ThreadLeaves(t) ==
    /\ ~InLine(t)'
    /\ done'[t] >= done[t]
    /\ InLine(t) => sock[t] \in torn' /\ Current(t) \in halfway'

StreamStays(k) ==
    \/ stream'[k] = stream[k]
    \/ stream'[k] = stream[k] \o <<Newline>> /\ k \in broken' \cup torn'

Quiet ==
    /\ written' = written
    /\ broken \subseteq broken' /\ torn \subseteq torn' /\ halfway \subseteq halfway'
    /\ \A k \in Sockets : StreamStays(k)
    /\ \A t \in Senders : ThreadStays(t) \/ ThreadLeaves(t)

LEMMA SenderQuiet ==
    ASSUME WireTypes, ThreadsInv, NEW t \in Senders,
           \/ TakeSocket(t) \/ WriteFails(t) \/ Reconnect(t)
           \/ ReconnectFails(t) \/ RewriteFails(t)
    PROVE  Quiet
<1> USE SendersAreThreads
<1>1. /\ written' = written /\ broken' = broken /\ stream' = stream
      /\ \A u \in Senders \ {t} : ThreadStays(u)
  <2>1. CASE ReconnectFails(t) \/ RewriteFails(t)
    BY <2>1 DEF ReconnectFails, RewriteFails, NextAttempt, Return, wireVars,
                ThreadStays, WireTypes
  <2>2. CASE TakeSocket(t)
    BY <2>2 DEF TakeSocket, wireVars, history, ThreadStays, WireTypes
  <2>3. CASE WriteFails(t)
    BY <2>3 DEF WriteFails, wireVars, ThreadStays, WireTypes
  <2>4. CASE Reconnect(t)
    BY <2>4 DEF Reconnect, Connect, wireVars, history, ThreadStays, WireTypes
  <2> QED
    BY <2>1, <2>2, <2>3, <2>4
<1>2. done'[t] >= done[t]
  <2>1. done' = done \/ done' = [done EXCEPT ![t] = @ + 1]
    BY DEF TakeSocket, WriteFails, Reconnect, ReconnectFails, RewriteFails,
           NextAttempt, Return
  <2> QED
    BY <2>1 DEF WireTypes
<1>3. ~InLine(t)'
  <2>1. CASE ReconnectFails(t) \/ RewriteFails(t) \/ WriteFails(t)
    <3>1. pc'[t] \in {"idle", "connect"}
      BY <2>1 DEF ReconnectFails, RewriteFails, WriteFails, NextAttempt, Return, WireTypes
    <3> QED
      BY <3>1 DEF InLine, Sending
  <2>2. CASE TakeSocket(t) \/ Reconnect(t)
    <3>1. done[t] < Len(Outbox[t])
      BY <2>2 DEF TakeSocket, Reconnect, ThreadsInv
    <3>2. Len(Line(Current(t))) = 3
      BY <3>1, CurrentIsMessage, LineBytes
    <3>3. left'[t] = Line(Current(t)) \/ pc'[t] = "connect"
      BY <2>2 DEF TakeSocket, Reconnect, WireTypes
    <3> QED
      BY <3>2, <3>3 DEF InLine, Sending
  <2> QED
    BY <2>1, <2>2
<1>4. /\ torn \subseteq torn' /\ halfway \subseteq halfway'
      /\ InLine(t) => sock[t] \in torn' /\ Current(t) \in halfway'
  <2>1. CASE WriteFails(t) \/ RewriteFails(t)
    BY <2>1 DEF WriteFails, RewriteFails, BreakOff
  <2>2. CASE TakeSocket(t) \/ Reconnect(t) \/ ReconnectFails(t)
    BY <2>2 DEF TakeSocket, Reconnect, ReconnectFails, history, InLine, Sending
  <2> QED
    BY <2>1, <2>2
<1> QED
  BY <1>1, <1>2, <1>3, <1>4 DEF Quiet, ThreadLeaves, StreamStays

LEMMA KeeperQuiet ==
    ASSUME WireTypes, LinesInv,
           \/ KeeperTakesSocket \/ Check \/ CheckFails \/ KeeperConnects
           \/ KeeperConnectFails \/ (\E k \in Sockets : Break(k)) \/ UNCHANGED vars
    PROVE  Quiet
<1> USE SendersAreThreads
<1>1. \A where : KeeperGoesTo(where) => \A t \in Senders : ThreadStays(t)
  BY DEF KeeperGoesTo, ThreadStays, WireTypes
<1>3. CASE Check
  <2> DEFINE k == sock[Keeper]
             sent == stream[k]
             bytes == IF sent = <<>> \/ sent[Len(sent)] = Newline
                      THEN <<>> ELSE <<Newline>>
  <2>1. /\ k \in Sockets /\ Put(Keeper, bytes) /\ KeeperGoesTo("idle")
        /\ UNCHANGED <<broken, written, halfway>>
    BY <1>3 DEF Check, WireTypes
  <2>2. bytes \in Seq(Bytes)
    <3>1. <<>> \in Seq(Bytes) /\ <<Newline>> \in Seq(Bytes)
      BY DEF Bytes
    <3> QED
      BY <3>1
  <2>3. /\ \A l \in Sockets \ {k} : stream'[l] = stream[l]
        /\ stream'[k] = IF k \in broken THEN stream[k] ELSE stream[k] \o bytes
        /\ torn \subseteq torn'
    <3> HIDE DEF bytes
    <3> QED
      BY <2>1, <2>2, PutTypes
  <2>4. StreamStays(k)
    <3>1. CASE k \in broken
      BY <2>3, <3>1 DEF StreamStays
    <3>2. CASE bytes = <<>>
      <4>1. stream[k] \in Seq(Bytes)
        BY <2>1 DEF WireTypes
      <4>2. stream[k] \o <<>> = stream[k]
        BY <4>1, ConcatEmptySeq
      <4> QED
        BY <2>3, <3>2, <4>2 DEF StreamStays
    <3>3. CASE bytes # <<>> /\ k \notin broken
      <4>1. bytes = <<Newline>> /\ sent # <<>> /\ sent[Len(sent)] # Newline
        BY <3>3
      <4>2. ~StartsLine(k, Len(stream[k]) + 1)
        <5>1. sent \in Seq(Bytes)
          BY <2>1 DEF WireTypes
        <5>2. Len(sent) \in Nat /\ Len(sent) # 0
          BY <4>1, <5>1
        <5> QED
          BY <4>1, <5>2 DEF StartsLine
      <4>3. k \in torn \/ \E t \in Senders : Occupies(t, k)
        BY <2>1, <3>3, <4>2 DEF LinesInv, IsWhole
      <4>4. k \in torn'
        BY <2>1, <4>3 DEF Put, Occupies
      <4> QED
        BY <2>3, <3>3, <4>1, <4>4 DEF StreamStays
    <3> QED
      BY <3>1, <3>2, <3>3
  <2>5. \A l \in Sockets : StreamStays(l)
    BY <2>3, <2>4 DEF StreamStays
  <2> QED
    BY <1>1, <2>1, <2>3, <2>5 DEF Quiet
<1>4. CASE \/ KeeperTakesSocket \/ CheckFails \/ KeeperConnects \/ KeeperConnectFails
  <2>1. /\ \E where : KeeperGoesTo(where)
        /\ UNCHANGED <<stream, broken, written, torn, halfway>>
    BY <1>4 DEF KeeperTakesSocket, CheckFails, KeeperConnects, KeeperConnectFails,
                Connect, wireVars, history
  <2> QED
    BY <1>1, <2>1 DEF Quiet, StreamStays
<1>5. CASE (\E k \in Sockets : Break(k)) \/ UNCHANGED vars
  <2>1. broken \subseteq broken' /\ UNCHANGED <<stream, threadVars, history>>
    BY <1>5 DEF Break, vars, wireVars
  <2> QED
    BY <2>1 DEF Quiet, StreamStays, ThreadStays, threadVars, history
<1> QED
  BY <1>3, <1>4, <1>5

\* What quiet steps leave alone on a connection that still works.
LEMMA QuietLines ==
    ASSUME Quiet, LinesInv
    PROVE  LinesInv'
<1> SUFFICES ASSUME NEW k \in Sockets, IsWhole(k)'
             PROVE  /\ \A t, u \in Senders : Occupies(t, k)' /\ Occupies(u, k)' => t = u
                    /\ \A t \in Senders : Occupies(t, k)' => Placed(k, Current(t), Sent(t))'
                    /\ (\A t \in Senders : ~Occupies(t, k)') => StartsLine(k, Len(stream[k]) + 1)'
  BY DEF LinesInv
<1>1. IsWhole(k) /\ stream'[k] = stream[k]
  BY DEF Quiet, IsWhole, StreamStays
<1>2. ASSUME NEW t \in Senders, Occupies(t, k)'
      PROVE  Occupies(t, k) /\ Current(t)' = Current(t) /\ Sent(t)' = Sent(t)
  <2>1. ThreadStays(t)
    BY <1>2 DEF Quiet, ThreadLeaves, Occupies
  <2> QED
    BY <1>2, <2>1 DEF ThreadStays, Occupies, InLine, Current, Sent
<1>3. ASSUME NEW t \in Senders, Occupies(t, k)
      PROVE  Occupies(t, k)'
  <2>1. ~(sock[t] \in torn')
    BY <1>3 DEF Occupies, IsWhole
  <2>2. ThreadStays(t)
    BY <1>3, <2>1 DEF Quiet, ThreadLeaves, Occupies
  <2> QED
    BY <1>3, <2>2 DEF ThreadStays, Occupies, InLine
<1>4. \A t, u \in Senders : Occupies(t, k)' /\ Occupies(u, k)' => t = u
  BY <1>1, <1>2 DEF LinesInv
<1>5. ASSUME NEW t \in Senders, Occupies(t, k)'
      PROVE  Placed(k, Current(t), Sent(t))'
  <2>1. Placed(k, Current(t), Sent(t))
    BY <1>1, <1>2, <1>5 DEF LinesInv
  <2> QED
    BY <1>1, <1>2, <1>5, <2>1 DEF Placed, StartsLine
<1>6. (\A t \in Senders : ~Occupies(t, k)') => StartsLine(k, Len(stream[k]) + 1)'
  <2>1. (\A t \in Senders : ~Occupies(t, k)') => StartsLine(k, Len(stream[k]) + 1)
    BY <1>1, <1>3 DEF LinesInv
  <2> QED
    BY <1>1, <2>1 DEF StartsLine
<1> QED
  BY <1>4, <1>5, <1>6

LEMMA QuietWritten ==
    ASSUME Quiet, WireTypes, WrittenInv
    PROVE  WrittenInv'
<1> SUFFICES ASSUME NEW m \in Messages, written'[m] # NoSocket
             PROVE  LinesOf(m, written[m])' # {} \/ written'[m] \in broken' \cup torn'
  BY DEF WrittenInv
<1>1. written' = written /\ written[m] \in Sockets
  BY TransportAssumption DEF Quiet, WireTypes, NoSocket, Sockets
<1>2. stream'[written[m]] = stream[written[m]] \/ written[m] \in broken' \cup torn'
  BY <1>1 DEF Quiet, StreamStays
<1>3. LinesOf(m, written[m]) # {} \/ written[m] \in broken \cup torn
  BY <1>1 DEF WrittenInv
<1> QED
  BY <1>1, <1>2, <1>3 DEF Quiet, LinesOf, StartsLine

\* A newline is no first byte.
LEMMA QuietBytes ==
    ASSUME Quiet, WireTypes, NEW m \in Messages, NEW k, NEW n \in Nat, IsFirstByte(m, k, n)'
    PROVE  IsFirstByte(m, k, n)
<1>1. k \in Sockets /\ n \in 1 .. Len(stream'[k]) /\ stream'[k][n] = <<m, 1>>
  BY DEF IsFirstByte
<1>2. stream[k] \in Seq(Bytes) /\ <<Newline>> \in Seq(Bytes)
  BY <1>1 DEF WireTypes, Bytes
<1>3. Newline # <<m, 1>>
  BY TransportAssumption
<1>4. CASE stream'[k] = stream[k] \o <<Newline>>
  <2>1. /\ Len(stream'[k]) = Len(stream[k]) + 1
        /\ \A i \in 1 .. Len(stream[k]) + 1 : stream'[k][i] =
              IF i <= Len(stream[k]) THEN stream[k][i] ELSE <<Newline>>[i - Len(stream[k])]
    BY <1>2, <1>4, ConcatProperties
  <2>2. n <= Len(stream[k])
    <3>1. Len(stream[k]) \in Nat /\ n \in 1 .. Len(stream[k]) + 1
      BY <1>1, <1>2, <2>1
    <3>2. n = Len(stream[k]) + 1 => stream'[k][n] = <<Newline>>[1]
      BY <2>1, <3>1
    <3>3. <<Newline>>[1] # <<m, 1>>
      BY <1>3
    <3> QED
      BY <1>1, <3>1, <3>2, <3>3
  <2> QED
    BY <1>1, <1>2, <2>1, <2>2 DEF IsFirstByte
<1>5. CASE stream'[k] = stream[k]
  BY <1>1, <1>5 DEF IsFirstByte
<1> QED
  BY <1>1, <1>4, <1>5 DEF Quiet, StreamStays

LEMMA QuietFirstBytes ==
    ASSUME Quiet, WireTypes, WireTypes', FirstBytesInv
    PROVE  FirstBytesInv'
<1> SUFFICES ASSUME NEW m \in Messages, m \notin halfway'
             PROVE  /\ \A k, l \in Sockets : \A n, o \in Nat :
                          IsFirstByte(m, k, n)' /\ IsFirstByte(m, l, o)' => k = l /\ n = o
                    /\ \A t \in Senders : \A d \in DOMAIN Outbox[t] :
                          /\ Outbox[t][d] = m
                          /\ d > done'[t]
                          /\ d = done'[t] + 1 => ~InLine(t)'
                          => \A k \in Sockets : \A n \in Nat : ~IsFirstByte(m, k, n)'
  BY DEF FirstBytesInv
<1>1. m \in Messages \ halfway
  BY DEF Quiet
<1>2. ASSUME NEW t \in Senders, NEW d \in DOMAIN Outbox[t], Outbox[t][d] = m,
             d > done'[t], d = done'[t] + 1 => ~InLine(t)'
      PROVE  d > done[t] /\ (d = done[t] + 1 => ~InLine(t))
  <2>1. d \in Nat /\ done[t] \in Nat /\ done'[t] \in Nat
    <3>1. Outbox[t] \in Seq(Messages)
      BY TransportAssumption
    <3>2. d \in 1 .. Len(Outbox[t]) /\ Len(Outbox[t]) \in Nat
      BY <3>1, LenProperties
    <3> QED
      BY <3>2 DEF WireTypes
  <2>2. CASE ThreadStays(t)
    BY <1>2, <2>2 DEF ThreadStays, InLine
  <2>3. CASE ThreadLeaves(t)
    <3>1. d > done[t]
      BY <1>2, <2>1, <2>3 DEF ThreadLeaves
    <3>2. ASSUME d = done[t] + 1, InLine(t)
          PROVE  FALSE
      BY <1>2, <2>3, <3>2 DEF ThreadLeaves, Current
    <3> QED
      BY <3>1, <3>2
  <2> QED
    BY <2>2, <2>3 DEF Quiet
<1>3. \A k, l \in Sockets : \A n, o \in Nat :
          IsFirstByte(m, k, n)' /\ IsFirstByte(m, l, o)' => k = l /\ n = o
  BY <1>1, QuietBytes DEF FirstBytesInv
<1>4. \A t \in Senders : \A d \in DOMAIN Outbox[t] :
          /\ Outbox[t][d] = m
          /\ d > done'[t]
          /\ d = done'[t] + 1 => ~InLine(t)'
          => \A k \in Sockets : \A n \in Nat : ~IsFirstByte(m, k, n)'
  BY <1>1, <1>2, QuietBytes DEF FirstBytesInv
<1> QED
  BY <1>3, <1>4

-----------------------------------------------------------------------------
(* The step that writes.  m is the message of t, k its socket, s what of the *)
(* line is in the socket already and n what the step adds.                   *)

WriteStep(t, m, k, s, n) ==
    /\ m \in Messages /\ k \in Sockets /\ s \in 0 .. 2 /\ n \in 1 .. 3 - s
    /\ pc[t] \in Sending /\ sock[t] = k /\ Current(t) = m /\ Sent(t) = s
    /\ done[t] + 1 \in DOMAIN Outbox[t] /\ Outbox[t][done[t] + 1] = m
    /\ InLine(t) <=> s > 0
    /\ \A l \in Sockets \ {k} : stream'[l] = stream[l]
    /\ IF k \in broken THEN stream'[k] = stream[k]
       ELSE /\ Len(stream'[k]) = Len(stream[k]) + n
            /\ \A i \in 1 .. Len(stream[k]) : stream'[k][i] = stream[k][i]
            /\ \A i \in 1 .. n : stream'[k][Len(stream[k]) + i] = Line(m)[s + i]
    /\ broken' = broken /\ torn \subseteq torn' /\ halfway' = halfway
    /\ (\E u \in Senders \ {t} : Occupies(u, k)) => k \in torn'
    /\ \A u \in Senders \ {t} : ThreadStays(u)
    /\ IF s + n = 3
       THEN ~InLine(t)' /\ done'[t] = done[t] + 1 /\ written' = [written EXCEPT ![m] = k]
       ELSE /\ InLine(t)' /\ sock'[t] = k /\ Sent(t)' = s + n
            /\ done'[t] = done[t] /\ written' = written

LEMMA PartsOfLine ==
    ASSUME NEW a \in 1 .. 3, NEW n \in 1 .. a
    PROVE  /\ 3 - a \in 0 .. 2 /\ n \in 1 .. 3 - (3 - a) /\ n \in 1 .. 3
           /\ (3 - a) + n = 3 <=> n = a
           /\ a \in {1, 2} <=> 3 - a > 0
OBVIOUS

LEMMA LessOfLine ==
    ASSUME NEW a \in 1 .. 3, NEW n \in 1 .. a, n # a
    PROVE  a - n \in {1, 2} /\ 3 - (a - n) = (3 - a) + n
OBVIOUS

LEMMA WriteIsWriteStep ==
    ASSUME WireTypes, ThreadsInv, NEW t \in Senders, Write(t)
    PROVE  \E n \in 1 .. 3 : WriteStep(t, Current(t), sock[t], Sent(t), n)
<1> USE SendersAreThreads
<1>0. PICK m, k, s : m = Current(t) /\ k = sock[t] /\ s = Sent(t)
  OBVIOUS
<1>1. PICK n \in 1 .. Len(left[t]) :
          /\ Put(t, SubSeq(left[t], 1, n))
          /\ IF n = Len(left[t])
             THEN ReturnTrue(t) /\ written' = [written EXCEPT ![Current(t)] = sock[t]]
             ELSE /\ left' = [left EXCEPT ![t] = SubSeq(@, n + 1, Len(@))]
                  /\ UNCHANGED <<pc, sock, attempt, done, written>>
  BY DEF Write
<1>2. /\ done[t] < Len(Outbox[t]) /\ HasRest(t) /\ m \in Messages
      /\ done[t] + 1 \in DOMAIN Outbox[t] /\ pc[t] \in Sending
  BY <1>0, CurrentIsMessage DEF Write, ThreadsInv, Sending
<1>3. left[t] \in Seq(Bytes) /\ Len(left[t]) \in 1 .. 3 /\ k \in Sockets
  BY <1>0, <1>2 DEF WireTypes, HasRest
<1>4. /\ s = 3 - Len(left[t]) /\ s \in 0 .. 2
      /\ n \in 1 .. 3 - s /\ n \in 1 .. 3 /\ (s + n = 3 <=> n = Len(left[t]))
      /\ Len(left[t]) \in {1, 2} <=> s > 0
  BY <1>0, <1>3, PartsOfLine DEF Sent
<1>5. InLine(t) <=> s > 0
  BY <1>2, <1>4 DEF InLine
<1>6. /\ SubSeq(left[t], 1, n) \in Seq(Bytes) /\ Len(SubSeq(left[t], 1, n)) = n
      /\ \A l \in 1 .. n : SubSeq(left[t], 1, n)[l] = left[t][l]
      /\ Len(SubSeq(left[t], n + 1, Len(left[t]))) = Len(left[t]) - n
  BY <1>3, LastPart
<1>7. /\ \A l \in Sockets \ {k} : stream'[l] = stream[l]
      /\ stream'[k] = IF k \in broken THEN stream[k] ELSE stream[k] \o SubSeq(left[t], 1, n)
      /\ torn \subseteq torn'
  BY <1>0, <1>1, <1>3, <1>6, PutTypes
<1>8. ASSUME k \notin broken
      PROVE  /\ Len(stream'[k]) = Len(stream[k]) + n
             /\ \A i \in 1 .. Len(stream[k]) : stream'[k][i] = stream[k][i]
             /\ \A i \in 1 .. n : stream'[k][Len(stream[k]) + i] = Line(m)[s + i]
  <2>1. stream[k] \in Seq(Bytes)
    BY <1>3 DEF WireTypes
  <2>2. /\ Len(stream[k]) \in Nat
        /\ Len(stream'[k]) = Len(stream[k]) + n
        /\ \A i \in 1 .. Len(stream[k]) + n : stream'[k][i] =
              IF i <= Len(stream[k]) THEN stream[k][i]
              ELSE SubSeq(left[t], 1, n)[i - Len(stream[k])]
    BY <1>6, <1>7, <1>8, <2>1, ConcatProperties, LenProperties
  <2>3. ASSUME NEW i \in 1 .. n
        PROVE  stream'[k][Len(stream[k]) + i] = Line(m)[s + i]
    <3>1. /\ Len(stream[k]) + i \in 1 .. Len(stream[k]) + n
          /\ ~(Len(stream[k]) + i <= Len(stream[k]))
          /\ (Len(stream[k]) + i) - Len(stream[k]) = i
          /\ i \in 1 .. Len(left[t])
      BY <1>3, <2>2
    <3>2. stream'[k][Len(stream[k]) + i] = SubSeq(left[t], 1, n)[i]
      BY <2>2, <3>1
    <3> QED
      BY <1>0, <1>2, <1>4, <1>6, <3>1, <3>2 DEF HasRest, Sent
  <2>4. \A i \in 1 .. Len(stream[k]) : stream'[k][i] = stream[k][i]
    BY <2>2
  <2> QED
    BY <2>2, <2>3, <2>4
<1>9. (\E u \in Senders \ {t} : Occupies(u, k)) => k \in torn'
  BY <1>0, <1>1 DEF Put, Occupies
<1>10. broken' = broken /\ halfway' = halfway
  BY DEF Write
<1>11. CASE n = Len(left[t])
  <2>1. /\ \A u \in Senders \ {t} : ThreadStays(u)
        /\ pc'[t] = "idle" /\ done'[t] = done[t] + 1
        /\ written' = [written EXCEPT ![m] = k]
    BY <1>0, <1>1, <1>11 DEF ReturnTrue, Return, ThreadStays, WireTypes
  <2>2. ~InLine(t)'
    BY <2>1 DEF InLine, Sending
  <2>3. WriteStep(t, m, k, s, n)
    BY <1>0, <1>2, <1>3, <1>4, <1>5, <1>7, <1>8, <1>9, <1>10, <1>11, <2>1, <2>2
    DEF WriteStep, Current
  <2> QED
    BY <1>0, <1>4, <2>3
<1>12. CASE n # Len(left[t])
  <2>1. /\ left' = [left EXCEPT ![t] = SubSeq(@, n + 1, Len(@))]
        /\ UNCHANGED <<pc, sock, done, written>>
    BY <1>1, <1>12
  <2>2. \A u \in Senders \ {t} : ThreadStays(u)
    BY <2>1 DEF ThreadStays, WireTypes
  <2>3. Len(left'[t]) = Len(left[t]) - n
    BY <1>6, <2>1 DEF WireTypes
  <2>4. Len(left'[t]) \in {1, 2} /\ 3 - Len(left'[t]) = s + n
    BY <1>3, <1>4, <1>12, <2>3, LessOfLine
  <2>5. InLine(t)' /\ Sent(t)' = s + n
    <3>1. pc'[t] \in Sending
      BY <1>2, <2>1
    <3> QED
      BY <2>4, <3>1 DEF InLine, Sent
  <2>6. WriteStep(t, m, k, s, n)
    BY <1>0, <1>2, <1>3, <1>4, <1>5, <1>7, <1>8, <1>9, <1>10, <1>12, <2>1, <2>2, <2>5
    DEF WriteStep, Current
  <2> QED
    BY <1>0, <1>4, <2>6
<1> QED
  BY <1>11, <1>12

LEMMA StartsAfter ==
    ASSUME NEW k, NEW o \in Nat
    PROVE  /\ StartsLine(k, o + 1) <=> o = 0 \/ stream[k][o] = Newline
           /\ StartsLine(k, o + 1)' <=> o = 0 \/ stream'[k][o] = Newline
<1>1. (o + 1) - 1 = o /\ (o + 1 = 1 <=> o = 0)
  OBVIOUS
<1> QED
  BY <1>1 DEF StartsLine

LEMMA WriteLines ==
    ASSUME WireTypes, WireTypes', LinesInv, NEW t \in Senders,
           NEW m, NEW k, NEW s, NEW n, WriteStep(t, m, k, s, n)
    PROVE  /\ LinesInv'
           /\ s + n = 3 /\ IsWhole(k)' => LinesOf(m, k)' # {}
<1>1. /\ m \in Messages /\ k \in Sockets /\ s \in 0 .. 2 /\ n \in 1 .. 3 - s
      /\ sock[t] = k /\ Current(t) = m /\ Sent(t) = s
  BY DEF WriteStep
<1>2. ASSUME NEW u \in Senders \ {t}, NEW l \in Sockets
      PROVE  /\ Occupies(u, l)' <=> Occupies(u, l)
             /\ Current(u)' = Current(u) /\ Sent(u)' = Sent(u)
  BY DEF WriteStep, ThreadStays, Occupies, InLine, Current, Sent
<1>3. ASSUME NEW l \in Sockets \ {k}
      PROVE  ~Occupies(t, l) /\ ~Occupies(t, l)'
  BY DEF WriteStep, Occupies
<1>4. ASSUME NEW l \in Sockets \ {k}, IsWhole(l)'
      PROVE  /\ \A u, v \in Senders : Occupies(u, l)' /\ Occupies(v, l)' => u = v
             /\ \A u \in Senders : Occupies(u, l)' => Placed(l, Current(u), Sent(u))'
             /\ (\A u \in Senders : ~Occupies(u, l)') => StartsLine(l, Len(stream[l]) + 1)'
  <2>1. IsWhole(l) /\ stream'[l] = stream[l]
    BY <1>4 DEF WriteStep, IsWhole
  <2>2. \A u \in Senders : Occupies(u, l)' =>
            Occupies(u, l) /\ Current(u)' = Current(u) /\ Sent(u)' = Sent(u)
    BY <1>2, <1>3
  <2>3. \A u \in Senders : Occupies(u, l) => Occupies(u, l)'
    BY <1>2, <1>3
  <2>4. ASSUME NEW u \in Senders, Occupies(u, l)'
        PROVE  Placed(l, Current(u), Sent(u))'
    <3>1. Placed(l, Current(u), Sent(u)) /\ Current(u)' = Current(u) /\ Sent(u)' = Sent(u)
      BY <2>1, <2>2, <2>4 DEF LinesInv
    <3> QED
      BY <2>1, <3>1 DEF Placed, StartsLine
  <2>5. (\A u \in Senders : ~Occupies(u, l)') => StartsLine(l, Len(stream[l]) + 1)
    BY <2>1, <2>3 DEF LinesInv
  <2> QED
    BY <2>1, <2>2, <2>4, <2>5 DEF LinesInv, StartsLine
<1>5. ASSUME IsWhole(k)'
      PROVE  /\ \A u \in Senders \ {t} : ~Occupies(u, k)'
             /\ Placed(k, m, s + n)'
             /\ s + n <= Len(stream'[k]) /\ Len(stream'[k]) \in Nat
  <2>1. IsWhole(k) /\ k \notin broken /\ k \notin torn'
    BY <1>5 DEF WriteStep, IsWhole
  <2>2. \A u \in Senders \ {t} : ~Occupies(u, k) /\ ~Occupies(u, k)'
    BY <1>1, <1>2, <2>1 DEF WriteStep
  <2>3. stream[k] \in Seq(Bytes) /\ Len(stream[k]) \in Nat
    BY <1>1 DEF WireTypes
  <2>4. Placed(k, m, s)
    <3>1. CASE s > 0
      <4>1. Occupies(t, k)
        BY <3>1 DEF WriteStep, Occupies
      <4> QED
        BY <1>1, <2>1, <4>1 DEF LinesInv
    <3>2. CASE s = 0
      <4>1. ~Occupies(t, k)
        BY <3>2 DEF WriteStep, Occupies
      <4>2. StartsLine(k, Len(stream[k]) + 1)
        BY <1>1, <2>1, <2>2, <4>1 DEF LinesInv
      <4> QED
        BY <2>3, <3>2, <4>2 DEF Placed
    <3> QED
      BY <1>1, <3>1, <3>2
  <2> DEFINE L == Len(stream[k])
  <2>5. /\ Len(stream'[k]) = L + n
        /\ \A i \in 1 .. L : stream'[k][i] = stream[k][i]
        /\ \A i \in 1 .. n : stream'[k][L + i] = Line(m)[s + i]
    BY <2>1 DEF WriteStep
  <2>6. s <= L /\ StartsLine(k, L - s + 1)
    BY <2>4 DEF Placed
  <2>7. (L + n) - (s + n) = L - s /\ s + n <= L + n
    BY <1>1, <2>3, <2>6
  <2>8. StartsLine(k, (Len(stream[k]) - (s + n)) + 1)'
    <3>1. L - s \in Nat /\ (L - s = 0 \/ L - s \in 1 .. L)
      BY <1>1, <2>3, <2>6
    <3>2. L - s = 0 \/ stream'[k][L - s] = Newline
      BY <2>5, <2>6, <3>1, StartsAfter
    <3>3. Len(stream'[k]) - (s + n) = L - s
      BY <2>5, <2>7
    <3> HIDE DEF L
    <3> QED
      BY <3>1, <3>2, <3>3, StartsAfter
  <2>9. ASSUME NEW l \in 1 .. s + n
        PROVE  stream'[k][(L - s) + l] = Line(m)[l]
    <3>1. CASE l <= s
      <4>1. L - s + l \in 1 .. L /\ l \in 1 .. s
        BY <1>1, <2>3, <2>6, <3>1
      <4> QED
        BY <2>4, <2>5, <4>1 DEF Placed
    <3>2. CASE l > s
      <4>1. l - s \in 1 .. n /\ L + (l - s) = (L - s) + l /\ s + (l - s) = l
        BY <1>1, <2>3, <3>2
      <4> QED
        BY <2>5, <4>1
    <3> QED
      BY <1>1, <3>1, <3>2
  <2>10. Placed(k, m, s + n)'
    <3>1. s + n <= Len(stream'[k])
      BY <2>5, <2>7
    <3>2. Len(stream'[k]) - (s + n) = L - s
      BY <2>5, <2>7
    <3> QED
      BY <2>8, <2>9, <3>1, <3>2 DEF Placed
  <2> QED
    BY <1>1, <2>2, <2>3, <2>5, <2>7, <2>10
<1>6. ASSUME IsWhole(k)', s + n = 3
      PROVE  /\ ~Occupies(t, k)'
             /\ StartsLine(k, Len(stream[k]) + 1)'
             /\ LinesOf(m, k)' # {}
  <2> DEFINE L == Len(stream'[k])
  <2>1. L \in Nat /\ 3 <= L
    BY <1>5, <1>6
  <2>2. /\ L - 3 + 1 = 1 \/ stream'[k][L - 3 + 1 - 1] = Newline
        /\ \A l \in 1 .. 3 : stream'[k][L - 3 + l] = Line(m)[l]
    <3>1. Placed(k, m, 3)'
      BY <1>5, <1>6
    <3> QED
      BY <3>1 DEF Placed, StartsLine
  <2>3. stream'[k][L] = Newline
    <3>1. L - 3 + 3 = L /\ 3 \in 1 .. 3
      BY <2>1
    <3> QED
      BY <1>1, <2>2, <3>1, LineBytes
  <2>4. L + 1 - 1 = L
    BY <2>1
  <2>5. StartsLine(k, Len(stream[k]) + 1)'
    BY <2>3, <2>4 DEF StartsLine
  <2>6. L - 2 \in 1 .. L - 2 /\ L - 3 + 1 = L - 2
    BY <2>1
  <2>7. SubSeq(stream'[k], L - 2, L) = Line(m)
    <3>1. /\ L - 3 + 1 = L - 2 /\ L - 3 + 2 = L - 1 /\ L - 3 + 3 = L
          /\ L - 2 + 2 = L
      BY <2>1
    <3>2. /\ stream'[k][L - 2] = Line(m)[1]
          /\ stream'[k][L - 1] = Line(m)[2]
          /\ stream'[k][L] = Line(m)[3]
      BY <2>2, <3>1
    <3>3. Len(Line(m)) = 3 /\ Line(m) = <<Line(m)[1], Line(m)[2], Line(m)[3]>>
      BY DEF Line
    <3>4. /\ stream'[k] \in Seq(Bytes)
          /\ \A i \in L - 2 .. L : stream'[k][i] \in Bytes
      BY <1>1, <2>1, ElementOfSeq DEF WireTypes
    <3>5. /\ SubSeq(stream'[k], L - 2, L) \in Seq(Bytes)
          /\ Len(SubSeq(stream'[k], L - 2, L)) = IF L - 2 <= L THEN L - (L - 2) + 1 ELSE 0
          /\ \A i \in 1 .. L - (L - 2) + 1 :
                SubSeq(stream'[k], L - 2, L)[i] = stream'[k][L - 2 + i - 1]
      <4>1. L - 2 \in Int /\ L \in Int
        BY <2>1
      <4> HIDE DEF L
      <4> QED
        BY <3>4, <4>1, SubSeqProperties
    <3>6. /\ L - 2 <= L /\ L - (L - 2) + 1 = 3
          /\ L - 2 + 1 - 1 = L - 2 /\ L - 2 + 2 - 1 = L - 1 /\ L - 2 + 3 - 1 = L
      BY <2>1
    <3>7. \A i \in 1 .. 3 : SubSeq(stream'[k], L - 2, L)[i] = Line(m)[i]
      <4>1. \A i \in 1 .. 3 : i = 1 \/ i = 2 \/ i = 3
        OBVIOUS
      <4> QED
        BY <3>2, <3>5, <3>6, <4>1
    <3>8. Line(m) \in Seq(Bytes)
      BY <1>1, LineBytes
    <3> QED
      BY <3>3, <3>5, <3>6, <3>7, <3>8, SeqEqual
  <2>8. LinesOf(m, k)' # {}
    <3>1. PICK p : p = L - 2
      OBVIOUS
    <3>2. p \in 1 .. Len(stream'[k]) - 2 /\ p + 2 = L
      BY <2>1, <3>1
    <3>3. p = 1 \/ stream'[k][p - 1] = Newline
      BY <2>2, <2>6, <3>1
    <3>4. SubSeq(stream'[k], p, p + 2) = Line(m)
      BY <2>7, <3>1, <3>2
    <3>5. p \in LinesOf(m, k)'
      BY <3>2, <3>3, <3>4 DEF LinesOf, StartsLine
    <3> QED
      BY <3>5
  <2>9. ~InLine(t)'
    BY <1>6 DEF WriteStep
  <2> QED
    BY <2>5, <2>8, <2>9 DEF Occupies
<1>7. ASSUME IsWhole(k)', s + n # 3
      PROVE  /\ Occupies(t, k)'
             /\ Placed(k, Current(t), Sent(t))'
  <2>1. InLine(t)' /\ sock'[t] = k /\ Sent(t)' = s + n /\ done'[t] = done[t]
    BY <1>7 DEF WriteStep
  <2>2. Current(t)' = m
    BY <1>1, <2>1 DEF Current
  <2> QED
    BY <1>5, <1>7, <2>1, <2>2 DEF Occupies
<1>8. IsWhole(k)' =>
        /\ \A u, v \in Senders : Occupies(u, k)' /\ Occupies(v, k)' => u = v
        /\ \A u \in Senders : Occupies(u, k)' => Placed(k, Current(u), Sent(u))'
        /\ (\A u \in Senders : ~Occupies(u, k)') => StartsLine(k, Len(stream[k]) + 1)'
  BY <1>5, <1>6, <1>7
<1> QED
  BY <1>1, <1>4, <1>6, <1>8 DEF LinesInv

\* Bytes are only added to a stream: a line that is there stays.
LEMMA LinesStay ==
    ASSUME WireTypes, WireTypes', NEW t \in Senders,
           NEW m, NEW k, NEW s, NEW n, WriteStep(t, m, k, s, n),
           NEW o \in Messages, NEW l \in Sockets
    PROVE  LinesOf(o, l) \subseteq LinesOf(o, l)'
<1>1. stream[l] \in Seq(Bytes) /\ stream'[l] \in Seq(Bytes)
  BY DEF WireTypes
<1>2. /\ Len(stream[l]) \in Nat /\ Len(stream'[l]) \in Nat
      /\ Len(stream[l]) <= Len(stream'[l])
      /\ \A i \in 1 .. Len(stream[l]) : stream'[l][i] = stream[l][i]
  <2>1. Len(stream[l]) \in Nat /\ Len(stream'[l]) \in Nat
    BY <1>1
  <2>2. CASE l = k /\ k \notin broken
    BY <2>1, <2>2 DEF WriteStep
  <2>3. CASE ~(l = k /\ k \notin broken)
    BY <2>1, <2>3 DEF WriteStep
  <2> QED
    BY <2>1, <2>2, <2>3
<1> SUFFICES ASSUME NEW p \in LinesOf(o, l)
             PROVE  p \in LinesOf(o, l)'
  OBVIOUS
<1>3. /\ p \in 1 .. Len(stream[l]) - 2
      /\ StartsLine(l, p)
      /\ SubSeq(stream[l], p, p + 2) = Line(o)
  BY DEF LinesOf
<1>4. /\ p \in Int /\ p + 2 \in Int /\ p \in 1 .. Len(stream'[l]) - 2
      /\ \A i \in p .. p + 2 : i \in 1 .. Len(stream[l]) /\ i \in 1 .. Len(stream'[l])
      /\ p # 1 => p - 1 \in 1 .. Len(stream[l])
  BY <1>2, <1>3
<1>5. StartsLine(l, p)'
  BY <1>2, <1>3, <1>4 DEF StartsLine
<1>6. SubSeq(stream'[l], p, p + 2) = SubSeq(stream[l], p, p + 2)
  <2>1. \A i \in p .. p + 2 : stream[l][i] \in Bytes /\ stream'[l][i] \in Bytes
    BY <1>1, <1>4, ElementOfSeq
  <2>2. /\ SubSeq(stream[l], p, p + 2) \in Seq(Bytes)
        /\ Len(SubSeq(stream[l], p, p + 2)) = IF p <= p + 2 THEN p + 2 - p + 1 ELSE 0
        /\ \A i \in 1 .. p + 2 - p + 1 : SubSeq(stream[l], p, p + 2)[i] = stream[l][p + i - 1]
    BY <1>4, <2>1, SubSeqProperties
  <2>3. /\ SubSeq(stream'[l], p, p + 2) \in Seq(Bytes)
        /\ Len(SubSeq(stream'[l], p, p + 2)) = IF p <= p + 2 THEN p + 2 - p + 1 ELSE 0
        /\ \A i \in 1 .. p + 2 - p + 1 : SubSeq(stream'[l], p, p + 2)[i] = stream'[l][p + i - 1]
    BY <1>4, <2>1, SubSeqProperties
  <2>4. p <= p + 2 /\ p + 2 - p + 1 = 3
    BY <1>4
  <2>5. \A i \in 1 .. 3 : p + i - 1 \in 1 .. Len(stream[l])
    BY <1>2, <1>3
  <2>6. \A i \in 1 .. 3 : SubSeq(stream'[l], p, p + 2)[i] = SubSeq(stream[l], p, p + 2)[i]
    BY <1>2, <2>2, <2>3, <2>4, <2>5
  <2>7. /\ Len(SubSeq(stream[l], p, p + 2)) = 3
        /\ Len(SubSeq(stream'[l], p, p + 2)) = 3
    BY <2>2, <2>3, <2>4
  <2> QED
    BY <2>2, <2>3, <2>6, <2>7, SeqEqual
<1> QED
  BY <1>3, <1>4, <1>5, <1>6 DEF LinesOf

LEMMA WriteWritten ==
    ASSUME WireTypes, WireTypes', LinesInv, WrittenInv, NEW t \in Senders,
           NEW m, NEW k, NEW s, NEW n, WriteStep(t, m, k, s, n)
    PROVE  WrittenInv'
<1> SUFFICES ASSUME NEW o \in Messages, written'[o] # NoSocket
             PROVE  LinesOf(o, written[o])' # {} \/ written'[o] \in broken' \cup torn'
  BY DEF WrittenInv
<1>1. CASE s + n = 3 /\ o = m
  <2>1. written'[o] = k
    BY <1>1 DEF WriteStep, WireTypes
  <2> QED
    BY <1>1, <2>1, WriteLines DEF IsWhole
<1>2. CASE ~(s + n = 3 /\ o = m)
  <2>1. written'[o] = written[o]
    BY <1>2 DEF WriteStep, WireTypes
  <2>2. written[o] \in Sockets
    BY <2>1, TransportAssumption DEF WireTypes, NoSocket, Sockets
  <2>3. LinesOf(o, written[o]) # {} \/ written[o] \in broken \cup torn
    BY <2>1 DEF WrittenInv
  <2>4. LinesOf(o, written[o]) \subseteq LinesOf(o, written[o])'
    <3>1. \A l \in Sockets : LinesOf(o, l) \subseteq LinesOf(o, l)'
      BY LinesStay
    <3> QED
      BY <2>1, <2>2, <3>1 DEF LinesOf, StartsLine
  <2> QED
    BY <2>1, <2>3, <2>4 DEF WriteStep
<1> QED
  BY <1>1, <1>2

\* A step adds a first byte where it begins a line, and nowhere else.
LEMMA WriteBytes ==
    ASSUME WireTypes, WireTypes', NEW t \in Senders,
           NEW m, NEW k, NEW s, NEW n, WriteStep(t, m, k, s, n),
           NEW o \in Messages, NEW l, NEW p \in Nat, IsFirstByte(o, l, p)'
    PROVE  \/ IsFirstByte(o, l, p)
           \/ o = m /\ l = k /\ s = 0 /\ p = Len(stream[k]) + 1
<1>1. /\ m \in Messages /\ k \in Sockets /\ s \in 0 .. 2 /\ n \in 1 .. 3 - s
  BY DEF WriteStep
<1>2. l \in Sockets /\ p \in 1 .. Len(stream'[l]) /\ stream'[l][p] = <<o, 1>>
  BY DEF IsFirstByte
<1>3. CASE l # k \/ k \in broken
  <2>1. stream'[l] = stream[l]
    BY <1>2, <1>3 DEF WriteStep
  <2> QED
    BY <1>2, <2>1 DEF IsFirstByte
<1>4. CASE l = k /\ k \notin broken
  <2>1. Len(stream[k]) \in Nat
    BY <1>1 DEF WireTypes
  <2>2. /\ Len(stream'[k]) = Len(stream[k]) + n
        /\ \A i \in 1 .. Len(stream[k]) : stream'[k][i] = stream[k][i]
        /\ \A i \in 1 .. n : stream'[k][Len(stream[k]) + i] = Line(m)[s + i]
    BY <1>4 DEF WriteStep
  <2>3. CASE p \in 1 .. Len(stream[k])
    BY <1>2, <1>4, <2>2, <2>3 DEF IsFirstByte
  <2>4. CASE p \notin 1 .. Len(stream[k])
    <3> DEFINE i == p - Len(stream[k])
    <3>1. i \in 1 .. n /\ Len(stream[k]) + i = p /\ s + i \in 1 .. 3
      <4>1. p \in 1 .. Len(stream[k]) + n
        BY <1>2, <1>4, <2>2
      <4>2. n \in Nat /\ s \in 0 .. 2 /\ n \in 1 .. 3 - s
        BY <1>1
      <4> QED
        BY ONLY <2>1, <2>4, <4>1, <4>2
    <3>2. Line(m)[s + i] = <<o, 1>>
      BY <1>2, <1>4, <2>2, <3>1
    <3>3. s + i = 1 /\ m = o
      <4> HIDE DEF i
      <4> QED
        BY <1>1, <3>1, <3>2, FirstByteIsFirst
    <3> QED
      BY <1>1, <1>4, <2>1, <3>1, <3>3
  <2> QED
    BY <2>3, <2>4
<1> QED
  BY <1>3, <1>4

LEMMA WriteFirstBytes ==
    ASSUME WireTypes, WireTypes', FirstBytesInv, NEW t \in Senders,
           NEW m, NEW k, NEW s, NEW n, WriteStep(t, m, k, s, n)
    PROVE  FirstBytesInv'
<1> SUFFICES ASSUME NEW o \in Messages, o \notin halfway
             PROVE  /\ \A l, j \in Sockets : \A p, q \in Nat :
                          IsFirstByte(o, l, p)' /\ IsFirstByte(o, j, q)' => l = j /\ p = q
                    /\ \A u \in Senders : \A d \in DOMAIN Outbox[u] :
                          /\ Outbox[u][d] = o
                          /\ d > done'[u]
                          /\ d = done'[u] + 1 => ~InLine(u)'
                          => \A l \in Sockets : \A p \in Nat : ~IsFirstByte(o, l, p)'
  BY DEF FirstBytesInv, WriteStep
<1>1. /\ s \in 0 .. 2 /\ n \in 1 .. 3 - s
      /\ done[t] + 1 \in DOMAIN Outbox[t] /\ Outbox[t][done[t] + 1] = m
      /\ InLine(t) <=> s > 0
      /\ \A u \in Senders \ {t} : ThreadStays(u)
      /\ IF s + n = 3 THEN done'[t] = done[t] + 1 ELSE InLine(t)' /\ done'[t] = done[t]
  BY DEF WriteStep
<1>2. \A u \in Senders : \A d \in DOMAIN Outbox[u] :
          d \in Nat /\ done[u] \in Nat /\ done'[u] \in Nat
  <2>1. \A u \in Senders : Outbox[u] \in Seq(Messages)
    BY TransportAssumption
  <2>2. \A u \in Senders : \A d \in DOMAIN Outbox[u] : d \in Nat
    BY <2>1
  <2> QED
    BY <2>2 DEF WireTypes
<1>3. /\ \A l, j \in Sockets : \A p, q \in Nat :
            IsFirstByte(o, l, p) /\ IsFirstByte(o, j, q) => l = j /\ p = q
      /\ \A u \in Senders : \A d \in DOMAIN Outbox[u] :
            /\ Outbox[u][d] = o
            /\ d > done[u]
            /\ d = done[u] + 1 => ~InLine(u)
            => \A l \in Sockets : \A p \in Nat : ~IsFirstByte(o, l, p)
  BY DEF FirstBytesInv
<1>4. ASSUME s = 0, o = m
      PROVE  \A l \in Sockets : \A p \in Nat : ~IsFirstByte(o, l, p)
  <2>1. done[t] + 1 > done[t] /\ ~InLine(t)
    BY <1>1, <1>2, <1>4
  <2> QED
    BY <1>1, <1>3, <1>4, <2>1
<1>5. ASSUME NEW l \in Sockets, NEW j \in Sockets, NEW p \in Nat, NEW q \in Nat,
             IsFirstByte(o, l, p)', IsFirstByte(o, j, q)'
      PROVE  l = j /\ p = q
  <2>1. /\ IsFirstByte(o, l, p) \/ (o = m /\ l = k /\ s = 0 /\ p = Len(stream[k]) + 1)
        /\ IsFirstByte(o, j, q) \/ (o = m /\ j = k /\ s = 0 /\ q = Len(stream[k]) + 1)
    BY <1>5, WriteBytes
  <2> QED
    BY <1>3, <1>4, <2>1
<1>6. ASSUME NEW u \in Senders, NEW d \in DOMAIN Outbox[u], Outbox[u][d] = o,
             d > done'[u], d = done'[u] + 1 => ~InLine(u)'
      PROVE  \A l \in Sockets : \A p \in Nat : ~IsFirstByte(o, l, p)'
  <2>1. ASSUME o = m
        PROVE  FALSE
    <3>1. u = t /\ d = done[t] + 1
      BY <1>1, <1>6, <2>1, TransportAssumption
    <3> QED
      BY <1>1, <1>2, <1>6, <3>1
  <2>2. d > done[u] /\ (d = done[u] + 1 => ~InLine(u))
    <3>1. CASE u = t
      <4>1. d # done[t] + 1
        BY <1>1, <1>6, <2>1, <3>1
      <4> QED
        BY <1>1, <1>2, <1>6, <3>1, <4>1
    <3>2. CASE u # t
      <4>1. ThreadStays(u)
        BY <1>1, <3>2
      <4> QED
        BY <1>6, <4>1 DEF ThreadStays, InLine
    <3> QED
      BY <3>1, <3>2
  <2>3. \A l \in Sockets : \A p \in Nat : ~IsFirstByte(o, l, p)
    BY <1>3, <1>6, <2>2
  <2> QED
    BY <2>1, <2>3, WriteBytes
<1> QED
  BY <1>5, <1>6

-----------------------------------------------------------------------------
(* What was sent is delivered, once. *)

LEMMA WireStep == WireInv /\ [Next]_vars => WireInv'
<1> SUFFICES ASSUME WireTypes, ThreadsInv, LinesInv, WrittenInv, FirstBytesInv,
                    [Next]_vars
             PROVE  WireInv'
  BY DEF WireInv
<1>1. ASSUME Quiet, WireTypes', ThreadsInv'
      PROVE  WireInv'
  BY <1>1, QuietLines, QuietWritten, QuietFirstBytes DEF WireInv
<1>2. ASSUME NEW t \in Senders,
             \/ TakeSocket(t) \/ WriteFails(t) \/ Reconnect(t)
             \/ ReconnectFails(t) \/ RewriteFails(t)
      PROVE  WireInv'
  BY <1>1, <1>2, SenderTypes, SenderQuiet
<1>3. ASSUME \/ KeeperTakesSocket \/ Check \/ CheckFails \/ KeeperConnects
             \/ KeeperConnectFails \/ (\E k \in Sockets : Break(k)) \/ UNCHANGED vars
      PROVE  WireInv'
  BY <1>1, <1>3, KeeperTypes, KeeperQuiet
<1>4. ASSUME NEW t \in Senders, Write(t)
      PROVE  WireInv'
  <2>1. PICK n \in 1 .. 3 : WriteStep(t, Current(t), sock[t], Sent(t), n)
    BY <1>4, WriteIsWriteStep
  <2>2. WireTypes' /\ ThreadsInv'
    BY <1>4, WriteTypes
  <2>3. PICK m, k, s : WriteStep(t, m, k, s, n)
    BY <2>1
  <2>4. LinesInv' /\ WrittenInv' /\ FirstBytesInv'
    BY <2>2, <2>3, WriteLines, WriteWritten, WriteFirstBytes
  <2> QED
    BY <2>2, <2>4 DEF WireInv
<1> QED
  BY <1>2, <1>3, <1>4 DEF Next

\* However the threads of a node close, replace and break each other's sockets
\* (connection_pool.py, send_message), a message for which it returned True
\* reaches the queue of the peer unless that connection broke or a line was cut.
THEOREM TrueIsDeliveredHolds == Spec => []TrueIsDelivered
<1>1. WireInv => TrueIsDelivered
  <2> SUFFICES ASSUME WireInv, NEW m \in Messages, written[m] # NoSocket
               PROVE  Received(m) # {} \/ written[m] \in broken \cup torn
    BY DEF TrueIsDelivered
  <2>1. written[m] \in Sockets
    BY TransportAssumption DEF WireInv, WireTypes, NoSocket, Sockets
  <2>2. \A n : n \in LinesOf(m, written[m]) => <<written[m], n>> \in Received(m)
    BY <2>1 DEF Received
  <2> QED
    BY <2>2 DEF WireInv, WrittenInv
<1> QED
  BY <1>1, InitWire, WireStep, PTL DEF Spec

\* A message the peer queues twice is one of which a write failed half way: the
\* two attempts of send_message (connection_pool.py) duplicate nothing else.
THEOREM AtMostOnceHolds == Spec => []AtMostOnce
<1>1. WireInv => AtMostOnce
  <2> SUFFICES ASSUME WireInv, NEW m \in Messages, m \notin halfway
               PROVE  ~(Cardinality(Received(m)) > 1)
    BY DEF AtMostOnce
  <2>1. ASSUME NEW x \in Received(m)
        PROVE  \E k \in Sockets, n \in Nat : x = <<k, n>> /\ IsFirstByte(m, k, n)
    <3>1. PICK k \in Sockets : x \in {k} \X LinesOf(m, k)
      BY DEF Received
    <3>2. PICK n \in LinesOf(m, k) : x = <<k, n>>
      BY <3>1
    <3>3. /\ n \in 1 .. Len(stream[k]) - 2
          /\ SubSeq(stream[k], n, n + 2) = Line(m)
      BY DEF LinesOf
    <3>4. stream[k] \in Seq(Bytes)
      BY DEF WireInv, WireTypes
    <3>5. /\ Len(stream[k]) \in Nat /\ n \in Int /\ n + 2 \in Int /\ n \in Nat
          /\ \A i \in n .. n + 2 : i \in 1 .. Len(stream[k])
          /\ n \in 1 .. Len(stream[k]) /\ 1 \in 1 .. n + 2 - n + 1 /\ n + 1 - 1 = n
      <4>1. Len(stream[k]) \in Nat
        BY <3>4
      <4> QED
        BY <3>3, <4>1
    <3>6. \A i \in n .. n + 2 : stream[k][i] \in Bytes
      BY <3>4, <3>5, ElementOfSeq
    <3>7. SubSeq(stream[k], n, n + 2)[1] = stream[k][n + 1 - 1]
      BY <3>5, <3>6, SubSeqProperties
    <3>8. stream[k][n] = <<m, 1>>
      BY <3>3, <3>5, <3>7, LineBytes
    <3> QED
      BY <3>2, <3>5, <3>8 DEF IsFirstByte
  <2>2. \A x, y \in Received(m) : x = y
    <3>1. \A k, l \in Sockets : \A n, o \in Nat :
              IsFirstByte(m, k, n) /\ IsFirstByte(m, l, o) => k = l /\ n = o
      BY DEF WireInv, FirstBytesInv
    <3> QED
      BY <2>1, <3>1
  <2>3. CASE Received(m) = {}
    BY <2>3, FS_EmptySet
  <2>4. CASE Received(m) # {}
    <3>1. PICK x : Received(m) = {x}
      BY <2>2, <2>4
    <3>2. Cardinality({x}) = 1
      BY FS_Singleton
    <3> QED
      BY <3>1, <3>2
  <2> QED
    BY <2>3, <2>4
<1> QED
  BY <1>1, InitWire, WireStep, PTL DEF Spec
=============================================================================
