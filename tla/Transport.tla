------------------------------ MODULE Transport ------------------------------
(***************************************************************************)
(* The way of a message from one node to another: the pool of              *)
(* network/connection_pool.py with the threads that share it, seen for one *)
(* destination, and the connection threads of network/tcp_server.py there. *)
(*                                                                         *)
(* The lock of the pool protects the table of sockets and nothing else: a  *)
(* thread uses the socket it took after it gave up the lock.  A line is a  *)
(* JSON text and a newline; sendall may put it into the socket in several  *)
(* pieces, and may fail after some of them.                                *)
(***************************************************************************)
EXTENDS Integers, Sequences, FiniteSets

CONSTANTS
    Senders,      \* the threads that call send_message
    Keeper,       \* the thread of _keep_connected
    Outbox,       \* Outbox[t]: the messages that thread t sends, in its order
    Newline,      \* the byte that ends a line
    MaxSockets,   \* bound: connections made; further attempts fail
    MaxFaults     \* bound: connections that break, sends that time out, and
                  \* connections refused

Threads  == Senders \cup {Keeper}
Messages == UNION {{Outbox[t][n] : n \in DOMAIN Outbox[t]} : t \in Senders}
Sockets  == 1 .. MaxSockets
NoSocket == 0

\* The two halves of the JSON text of m and the newline.
Line(m) == <<<<m, 1>>, <<m, 2>>, Newline>>

ASSUME TransportAssumption ==
    /\ Keeper \notin Senders
    /\ IsFiniteSet(Senders)
    /\ \A t \in Senders : Outbox[t] \in Seq(Messages)
    \* A message stands for one call of send_message.
    /\ \A t, u \in Senders : \A k \in DOMAIN Outbox[t], l \in DOMAIN Outbox[u] :
          Outbox[t][k] = Outbox[u][l] => t = u /\ k = l
    /\ Newline \notin Messages \X {1, 2}
    /\ MaxSockets \in Nat /\ MaxFaults \in Nat

VARIABLES
    pool,       \* self.connections.get(dst)
    opened,     \* sockets connected so far: 1..opened
    closed,     \* sockets this node has closed
    broken,     \* connections that are gone: network, peer or its reader
    stream,     \* bytes sent that may reach the reader, in order, by socket
    pc,         \* where each thread is
    sock,       \* the socket a thread has taken
    left,       \* what sendall has still to write
    attempt,    \* attempts of the present send_message
    done,       \* messages a thread has finished with
    written,    \* history: the socket for which send_message returned True
    torn,       \* history: sockets with a line broken off or cut in two
    halfway,    \* history: messages of which a write failed half way
    refused     \* history: sends that timed out, and connects that failed

poolVars   == <<pool, opened, closed>>
wireVars   == <<broken, stream>>
threadVars == <<pc, sock, left, attempt, done>>
history    == <<written, torn, halfway, refused>>
vars == <<poolVars, wireVars, threadVars, history>>

Init ==
    /\ pool = NoSocket
    /\ opened = 0
    /\ closed = {}
    /\ broken = {}
    /\ stream = [k \in Sockets |-> <<>>]
    /\ pc = [t \in Threads |-> "idle"]
    /\ sock = [t \in Threads |-> NoSocket]
    /\ left = [t \in Threads |-> <<>>]
    /\ attempt = [t \in Threads |-> 0]
    /\ done = [t \in Senders |-> 0]
    /\ written = [m \in Messages |-> NoSocket]
    /\ torn = {}
    /\ halfway = {}
    /\ refused = 0

-----------------------------------------------------------------------------
(* What threads do with a socket *)

Sending == {"write", "rewrite"}

\* Thread t has written a part of its line.
InLine(t) == pc[t] \in Sending /\ Len(left[t]) \in {1, 2}

\* A broken connection takes bytes for a while and loses them.
Put(t, bytes) ==
    LET k == sock[t] IN
    /\ k \notin closed
    /\ stream' = IF k \in broken THEN stream ELSE [stream EXCEPT ![k] = @ \o bytes]
    /\ torn' = IF \E u \in Threads \ {t} : sock[u] = k /\ InLine(u)
               THEN torn \cup {k} ELSE torn

Faults == Cardinality(broken) + refused

\* Something goes wrong that no thread of this node has caused.
Fault == Faults < MaxFaults /\ refused' = refused + 1

\* A send fails on a socket closed by another thread or broken, or times out:
\* the health check sets the timeout of everybody to 0.5 s for a moment.
SendFails(t) ==
    IF sock[t] \in closed \cup broken THEN UNCHANGED refused ELSE Fault

CloseAndKeep(t) ==    \* wrong: the closed socket stays in the table
    /\ closed' = closed \cup ({pool} \ {NoSocket})
    /\ UNCHANGED pool

\* Under the lock, the socket in the table, perhaps a new one of another
\* thread, is closed and forgotten; the one that failed may stay open.
ClosePooled(t) ==
    /\ closed' = closed \cup ({pool} \ {NoSocket})
    /\ pool' = NoSocket

ConnectFails == IF opened = MaxSockets THEN UNCHANGED refused ELSE Fault

\* A new socket replaces what the table holds, which is not closed.
Connect ==
    /\ opened < MaxSockets
    /\ opened' = opened + 1
    /\ pool' = opened'
    /\ UNCHANGED <<closed, wireVars>>

-----------------------------------------------------------------------------
(* send_message *)

Current(t) == Outbox[t][done[t] + 1]

Return(t) ==
    /\ pc' = [pc EXCEPT ![t] = "idle"]
    /\ sock' = [sock EXCEPT ![t] = NoSocket]
    /\ left' = [left EXCEPT ![t] = <<>>]
    /\ attempt' = [attempt EXCEPT ![t] = 0]
    /\ done' = [done EXCEPT ![t] = @ + 1]

\* The loop goes on once more, or send_message returns False.
NextAttempt(t) ==
    IF attempt[t] = 2 THEN Return(t)
    ELSE /\ pc' = [pc EXCEPT ![t] = "idle"]
         /\ sock' = [sock EXCEPT ![t] = NoSocket]
         /\ left' = [left EXCEPT ![t] = <<>>]
         /\ UNCHANGED <<attempt, done>>

TakeSocket(t) ==
    /\ pc[t] = "idle"
    /\ done[t] < Len(Outbox[t])
    /\ attempt' = [attempt EXCEPT ![t] = @ + 1]
    /\ sock' = [sock EXCEPT ![t] = pool]
    /\ IF pool = NoSocket
       THEN pc' = [pc EXCEPT ![t] = "connect"] /\ UNCHANGED left
       ELSE /\ pc' = [pc EXCEPT ![t] = "write"]
            /\ left' = [left EXCEPT ![t] = Line(Current(t))]
    /\ UNCHANGED <<poolVars, wireVars, done, history>>

ReturnLate(t) == NextAttempt(t)    \* wrong: a line that is written does not end the loop

ReturnTrue(t) == Return(t)

\* sendall writes some more of the line, or the rest of it.
Write(t) ==
    /\ pc[t] \in Sending
    /\ \E n \in 1 .. Len(left[t]) :
          /\ Put(t, SubSeq(left[t], 1, n))
          /\ IF n = Len(left[t])
             THEN ReturnTrue(t) /\ written' = [written EXCEPT ![Current(t)] = sock[t]]
             ELSE /\ left' = [left EXCEPT ![t] = SubSeq(@, n + 1, Len(@))]
                  /\ UNCHANGED <<pc, sock, attempt, done, written>>
    /\ UNCHANGED <<poolVars, broken, halfway, refused>>

\* The line is given up where it is.
BreakOff(t) ==
    /\ torn' = IF InLine(t) THEN torn \cup {sock[t]} ELSE torn
    /\ halfway' = IF InLine(t) THEN halfway \cup {Current(t)} ELSE halfway

WriteFails(t) ==
    /\ pc[t] = "write"
    /\ SendFails(t)
    /\ BreakOff(t)
    /\ ClosePooled(t)
    /\ pc' = [pc EXCEPT ![t] = "connect"]
    /\ left' = [left EXCEPT ![t] = <<>>]
    /\ UNCHANGED <<opened, wireVars, sock, attempt, done, written>>

Reconnect(t) ==
    /\ pc[t] = "connect"
    /\ Connect
    /\ pc' = [pc EXCEPT ![t] = "rewrite"]
    /\ sock' = [sock EXCEPT ![t] = opened']
    /\ left' = [left EXCEPT ![t] = Line(Current(t))]
    /\ UNCHANGED <<attempt, done, history>>

\* The new socket stays in the table though the write to it failed.
RewriteFails(t) ==
    /\ pc[t] = "rewrite"
    /\ SendFails(t)
    /\ BreakOff(t)
    /\ NextAttempt(t)
    /\ UNCHANGED <<poolVars, wireVars, written>>

ReconnectFails(t) ==
    /\ pc[t] = "connect"
    /\ ConnectFails
    /\ NextAttempt(t)
    /\ UNCHANGED <<poolVars, wireVars, written, torn, halfway>>

-----------------------------------------------------------------------------
(* _keep_connected *)

KeeperGoesTo(where) ==
    /\ pc' = [pc EXCEPT ![Keeper] = where]
    /\ sock' = [sock EXCEPT ![Keeper] = IF where = "check" THEN pool ELSE NoSocket]
    /\ UNCHANGED <<left, attempt, done>>

KeeperTakesSocket ==
    /\ pc[Keeper] = "idle"
    /\ KeeperGoesTo(IF pool = NoSocket THEN "connect" ELSE "check")
    /\ UNCHANGED <<poolVars, wireVars, history>>

\* A newline shows that the socket works.  The reader skips it, unless it gets
\* into the line of another thread.
Check ==
    /\ pc[Keeper] = "check"
    /\ LET sent == stream[sock[Keeper]] IN
       Put(Keeper, IF sent = <<>> \/ sent[Len(sent)] = Newline THEN <<>> ELSE <<Newline>>)
    /\ KeeperGoesTo("idle")
    /\ UNCHANGED <<poolVars, broken, written, halfway, refused>>

CheckFails ==
    /\ pc[Keeper] = "check"
    /\ SendFails(Keeper)
    /\ ClosePooled(Keeper)
    /\ KeeperGoesTo("connect")
    /\ UNCHANGED <<opened, wireVars, written, torn, halfway>>

KeeperConnects ==
    /\ pc[Keeper] = "connect"
    /\ Connect
    /\ KeeperGoesTo("idle")
    /\ UNCHANGED history

KeeperConnectFails ==
    /\ pc[Keeper] = "connect"
    /\ ConnectFails
    /\ KeeperGoesTo("idle")
    /\ UNCHANGED <<poolVars, wireVars, written, torn, halfway>>

-----------------------------------------------------------------------------
(* The other end *)

StartsChunk(k, n) == n = 1    \* wrong: what comes with the first line is thrown away

StartsLine(k, n) == n = 1 \/ stream[k][n - 1] = Newline

\* _handle_connection queues a line that is the text of one message; an empty
\* one is skipped, and any other one is not JSON and is dropped.
LinesOf(m, k) ==
    {n \in 1 .. Len(stream[k]) - 2 :
        StartsLine(k, n) /\ SubSeq(stream[k], n, n + 2) = Line(m)}

Received(m) == UNION {{k} \X LinesOf(m, k) : k \in Sockets}

\* The network fails, the peer dies, or its reader gives up after 15 s without a
\* byte.  What was sent before may still get through, and stays in stream.
Break(k) ==
    /\ k <= opened
    /\ k \notin broken
    /\ Faults < MaxFaults
    /\ broken' = broken \cup {k}
    /\ UNCHANGED <<poolVars, stream, threadVars, history>>

-----------------------------------------------------------------------------
Next ==
    \/ \E t \in Senders : \/ TakeSocket(t) \/ Write(t) \/ WriteFails(t)
                          \/ Reconnect(t) \/ ReconnectFails(t) \/ RewriteFails(t)
    \/ KeeperTakesSocket \/ Check \/ CheckFails \/ KeeperConnects \/ KeeperConnectFails
    \/ \E k \in Sockets : Break(k)

Spec == Init /\ [][Next]_vars

-----------------------------------------------------------------------------
(* Properties *)

\* The table never holds a socket that this node has closed, though threads close
\* sockets that others put there and overwrite each other's.
PooledIsOpen == pool \notin closed

\* A message for which send_message returned True reaches the queue, unless its
\* connection broke or a line was cut or broken off there: a connection that
\* other threads close or replace still delivers.
TrueIsDelivered ==
    \A m \in Messages :
        written[m] # NoSocket =>
            Received(m) # {} \/ written[m] \in broken \cup torn

\* A message is queued at most once, unless a write of it failed half way: then
\* a health check can supply the newline that was missing.
AtMostOnce == \A m \in Messages : Cardinality(Received(m)) > 1 => m \in halfway
=============================================================================
