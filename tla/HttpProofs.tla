----------------------------- MODULE HttpProofs -----------------------------
(* Proofs about the HTTP server on top of the connection table: its ring of *)
(* waiting connections for every peer, and, for peers that follow the       *)
(* protocol, that the connection being served is there and that none is     *)
(* forgotten.                                                               *)
EXTENDS HttpServer, TcpServiceProofs, SequenceTheorems

-----------------------------------------------------------------------------
(* The ring.                                                                *)

Index == 0 .. FifoSize - 1

\* Going round the ring once at most.
LEMMA Around ==
    ASSUME NEW x \in Nat, x < FifoSize + FifoSize
    PROVE  /\ x < FifoSize => x % FifoSize = x
           /\ x >= FifoSize => x % FifoSize = x - FifoSize
           /\ x % FifoSize \in Index
  <1>0. FifoSize \in Nat /\ FifoSize > 0
    BY FifoAssumption
  <1>1. CASE x < FifoSize
    BY <1>0, <1>1 DEF Index
  <1>2. CASE x >= FifoSize
    <2>1. PICK r \in 0 .. FifoSize - 1 : r = x - FifoSize
      BY <1>0, <1>2
    <2>2. (FifoSize * 1 + r) % FifoSize = r
      BY <1>0
    <2>3. x = FifoSize * 1 + r
      BY <1>0, <2>1
    <2> QED
      BY <1>0, <1>2, <2>1, <2>2, <2>3 DEF Index
  <1> QED
    BY <1>0, <1>1, <1>2

\* The ring is consistent: front is where the next one goes, and what waits are
\* pointers (http.c:18-46).
RingOK ==
    /\ buffer \in [Index -> Pointer \cup {Free}]
    /\ tail \in Index
    /\ count \in 0 .. FifoSize
    /\ front = (tail + count) % FifoSize
    /\ \A i \in 1 .. count : buffer[(tail + i - 1) % FifoSize] \in Pointer

\* Where the i-th of those waiting is.
LEMMA Places ==
    ASSUME RingOK
    PROVE  /\ FifoSize \in Nat /\ FifoSize > 0
           /\ tail \in Nat /\ tail < FifoSize /\ count \in Nat /\ count <= FifoSize
           /\ front \in Index
           /\ \A i \in 1 .. FifoSize : (tail + i - 1) % FifoSize \in Index
           /\ \A i \in 1 .. count : count < FifoSize => (tail + i - 1) % FifoSize # front
           /\ \A i \in 0 .. FifoSize - 1 : (Wrap(tail) + i) % FifoSize = (tail + i + 1) % FifoSize
           /\ Wrap(front) = (tail + count + 1) % FifoSize \/ count = FifoSize
           /\ Wrap(tail) \in Index
  <1>0. /\ FifoSize \in Nat /\ FifoSize > 0
        /\ tail \in Nat /\ tail < FifoSize /\ count \in Nat /\ count <= FifoSize
    BY FifoAssumption DEF RingOK, Index
  <1>1. PICK y \in Nat : y = tail + count /\ y < FifoSize + FifoSize
    BY <1>0
  <1>2. PICK f : f = front
    OBVIOUS
  <1>3. /\ f \in Int
        /\ tail + count < FifoSize => f = tail + count
        /\ tail + count >= FifoSize => f = tail + count - FifoSize
    <2>1. f = y % FifoSize
      BY <1>1, <1>2 DEF RingOK
    <2>2. /\ y < FifoSize => y % FifoSize = y
          /\ y >= FifoSize => y % FifoSize = y - FifoSize
          /\ y % FifoSize \in Index
      BY <1>1, Around
    <2> QED
      BY <1>0, <1>1, <2>1, <2>2 DEF Index
  <1>4. front \in Index
    BY <1>0, <1>2, <1>3 DEF Index
  <1>5. ASSUME NEW i \in 1 .. FifoSize
        PROVE  /\ (tail + i - 1) % FifoSize \in Index
               /\ tail + i - 1 < FifoSize => (tail + i - 1) % FifoSize = tail + i - 1
               /\ tail + i - 1 >= FifoSize => (tail + i - 1) % FifoSize = tail + i - 1 - FifoSize
    <2>1. PICK x \in Nat : x = tail + i - 1 /\ x < FifoSize + FifoSize
      BY <1>0
    <2>2. /\ x < FifoSize => x % FifoSize = x
          /\ x >= FifoSize => x % FifoSize = x - FifoSize
          /\ x % FifoSize \in Index
      BY <2>1, Around
    <2>3. tail + i - 1 = x
      BY <2>1
    <2>4. (tail + i - 1) % FifoSize = x % FifoSize
      BY <2>3, Zenon
    <2> QED
      BY <1>0, <2>1, <2>2, <2>4
  <1>6. ASSUME NEW i \in 1 .. count, count < FifoSize
        PROVE  (tail + i - 1) % FifoSize # front
    <2>1. i \in 1 .. FifoSize
      BY <1>0
    <2> QED
      BY <1>0, <1>2, <1>3, <1>5, <1>6, <2>1
  <1>7. /\ Wrap(tail) \in Index
        /\ tail + 1 < FifoSize => Wrap(tail) = tail + 1
        /\ tail + 1 >= FifoSize => Wrap(tail) = 0 /\ tail = FifoSize - 1
    BY <1>0 DEF Wrap, Index
  <1>8. ASSUME NEW i \in 0 .. FifoSize - 1
        PROVE  (Wrap(tail) + i) % FifoSize = (tail + i + 1) % FifoSize
    <2>1. tail + i + 1 \in Nat /\ i \in Nat /\ i < FifoSize + FifoSize
      BY <1>0
    <2>2. CASE tail + 1 < FifoSize
      <3>1. Wrap(tail) + i = tail + i + 1
        BY <1>0, <1>7, <2>2
      <3> QED
        BY <3>1, Zenon
    <2>3. CASE tail + 1 >= FifoSize
      <3>1. Wrap(tail) + i = i /\ tail + i + 1 = FifoSize + i
        BY <1>0, <1>7, <2>3
      <3>2. i % FifoSize = i
        BY <1>0, <2>1, Around
      <3>3. PICK x \in Nat : x = FifoSize + i /\ x < FifoSize + FifoSize /\ x >= FifoSize
        BY <1>0
      <3>4. x % FifoSize = x - FifoSize
        BY <3>3, Around
      <3> QED
        BY <1>0, <3>1, <3>2, <3>3, <3>4
    <2> QED
      BY <1>0, <2>2, <2>3
  <1>9. Wrap(front) = (tail + count + 1) % FifoSize \/ count = FifoSize
    <2> SUFFICES ASSUME count < FifoSize PROVE Wrap(front) = (tail + count + 1) % FifoSize
      BY <1>0
    <2>1. PICK x \in Nat : x = tail + count + 1
      BY <1>0
    <2>2. CASE x < FifoSize + FifoSize
      <3>1. /\ x < FifoSize => x % FifoSize = x
            /\ x >= FifoSize => x % FifoSize = x - FifoSize
        BY <2>2, Around
      <3> QED
        BY <1>0, <1>2, <1>3, <2>1, <2>2, <3>1 DEF Wrap
    <2> QED
      BY <1>0, <2>1, <2>2
  <1> QED
    BY <1>0, <1>4, <1>5, <1>6, <1>7, <1>8, <1>9

\* What waits, place by place, is a sequence of pointers.
LEMMA WaitingSeq ==
    ASSUME RingOK
    PROVE  /\ Waiting \in Seq(Pointer)
           /\ Len(Waiting) = count
           /\ \A i \in 1 .. count : Waiting[i] = buffer[(tail + i - 1) % FifoSize]
  <1>1. count \in Nat /\ \A i \in 1 .. count : buffer[(tail + i - 1) % FifoSize] \in Pointer
    BY Places DEF RingOK
  <1> QED
    BY <1>1 DEF Waiting

\* The ways a step can change the ring.
Puts(p) ==
    /\ p \in Pointer
    /\ count < FifoSize
    /\ buffer' = [buffer EXCEPT ![front] = p]
    /\ front' = Wrap(front)
    /\ count' = count + 1
    /\ tail' = tail

\* A new connection goes to the end, into a place that was free (http.c:22).
LEMMA PutAtEnd ==
    ASSUME RingOK, NEW p, Puts(p)
    PROVE  /\ RingOK'
           /\ \A i \in 1 .. count : Waiting'[i] = Waiting[i]
           /\ Waiting'[count + 1] = p
           /\ Waiting' = Append(Waiting, p)
  <1>0. /\ FifoSize \in Nat /\ FifoSize > 0
        /\ tail \in Nat /\ tail < FifoSize /\ count \in Nat /\ count < FifoSize
        /\ front \in Index
        /\ buffer \in [Index -> Pointer \cup {Free}]
        /\ \A i \in 1 .. FifoSize : (tail + i - 1) % FifoSize \in Index
        /\ \A i \in 1 .. count : (tail + i - 1) % FifoSize # front
        /\ Wrap(front) = (tail + count + 1) % FifoSize
        /\ tail' = tail /\ count' = count + 1 /\ front' = Wrap(front)
        /\ buffer' = [buffer EXCEPT ![front] = p] /\ p \in Pointer
    BY Places DEF Puts, RingOK
  <1>1. ASSUME NEW i \in 1 .. count PROVE buffer'[(tail + i - 1) % FifoSize] = buffer[(tail + i - 1) % FifoSize]
    <2>1. i \in 1 .. FifoSize
      BY <1>0
    <2> QED
      BY <1>0, <2>1
  <1>2. buffer'[(tail + (count + 1) - 1) % FifoSize] = p
    <2>1. tail + (count + 1) - 1 = tail + count
      BY <1>0
    <2>2. (tail + (count + 1) - 1) % FifoSize = front
      BY <2>1, Zenon DEF RingOK
    <2> QED
      BY <1>0, <2>2
  <1>3. RingOK'
    <2>1. buffer' \in [Index -> Pointer \cup {Free}]
      BY <1>0
    <2>2. tail' \in Index /\ count' \in 0 .. FifoSize
      BY <1>0 DEF Index
    <2>3. front' = (tail' + count') % FifoSize
      <3>1. tail + count + 1 = tail + (count + 1)
        BY <1>0
      <3> QED
        BY <1>0, <3>1, Zenon
    <2>4. ASSUME NEW i \in 1 .. count' PROVE buffer'[(tail' + i - 1) % FifoSize] \in Pointer
      <3>1. i \in 1 .. count \/ i = count + 1
        BY <1>0
      <3> QED
        BY <1>0, <1>1, <1>2, <3>1 DEF RingOK
    <2> QED
      BY <2>1, <2>2, <2>3, <2>4 DEF RingOK, Index
  <1>4. /\ Waiting \in Seq(Pointer) /\ Len(Waiting) = count
        /\ Waiting' \in Seq(Pointer) /\ Len(Waiting') = count + 1
        /\ \A i \in 1 .. count : Waiting[i] = buffer[(tail + i - 1) % FifoSize]
        /\ \A i \in 1 .. count' : Waiting'[i] = buffer'[(tail' + i - 1) % FifoSize]
    <2>1. (RingOK => /\ Waiting \in Seq(Pointer)
                     /\ Len(Waiting) = count
                     /\ \A i \in 1 .. count : Waiting[i] = buffer[(tail + i - 1) % FifoSize])'
      BY WaitingSeq, PTL
    <2> QED
      BY <1>0, <1>3, <2>1, WaitingSeq
  <1>5. /\ \A i \in 1 .. count : Waiting'[i] = Waiting[i]
        /\ Waiting'[count + 1] = p
    <2>1. ASSUME NEW i \in 1 .. count PROVE Waiting'[i] = Waiting[i]
      <3>1. i \in 1 .. count'
        BY <1>0
      <3> QED
        BY <1>0, <1>1, <1>4, <3>1
    <2>2. count + 1 \in 1 .. count'
      BY <1>0
    <2>3. Waiting'[count + 1] = buffer'[(tail + (count + 1) - 1) % FifoSize]
      BY <1>0, <1>4, <2>2
    <2> QED
      BY <1>2, <2>1, <2>3
  <1>6. Waiting' = Append(Waiting, p)
    <2>1. /\ Append(Waiting, p) \in Seq(Pointer)
          /\ Len(Append(Waiting, p)) = count + 1
          /\ \A i \in 1 .. count : Append(Waiting, p)[i] = Waiting[i]
          /\ Append(Waiting, p)[count + 1] = p
      BY <1>0, <1>4, AppendProperties
    <2>2. \A i \in 1 .. Len(Waiting') : Waiting'[i] = Append(Waiting, p)[i]
      BY <1>0, <1>4, <1>5, <2>1
    <2> QED
      BY <1>4, <2>1, <2>2, SeqEqual
  <1> QED
    BY <1>3, <1>5, <1>6

Takes ==
    /\ count > 0
    /\ tail' = Wrap(tail)
    /\ count' = count - 1
    /\ UNCHANGED <<buffer, front>>

\* The first of those waiting leaves, and the others move up (http.c:32).
LEMMA TakeFirst ==
    ASSUME RingOK, Takes
    PROVE  /\ RingOK'
           /\ \A i \in 1 .. count - 1 : Waiting'[i] = Waiting[i + 1]
           /\ Waiting # <<>>
           /\ buffer[tail] = Waiting[1] /\ buffer[tail] = Head(Waiting)
           /\ buffer[tail] \in Pointer
           /\ Waiting' = Tail(Waiting)
  <1>0. /\ FifoSize \in Nat /\ FifoSize > 0
        /\ tail \in Nat /\ tail < FifoSize /\ count \in Nat /\ count <= FifoSize /\ count > 0
        /\ buffer \in [Index -> Pointer \cup {Free}]
        /\ \A i \in 0 .. FifoSize - 1 : (Wrap(tail) + i) % FifoSize = (tail + i + 1) % FifoSize
        /\ Wrap(tail) \in Index
        /\ tail' = Wrap(tail) /\ count' = count - 1 /\ front' = front /\ buffer' = buffer
    BY Places DEF Takes, RingOK
  <1>1. PICK t \in Nat : t = Wrap(tail)
    BY <1>0 DEF Index
  <1>2. ASSUME NEW i \in 1 .. count - 1
        PROVE  buffer[(t + i - 1) % FifoSize] = buffer[(tail + (i + 1) - 1) % FifoSize]
    <2>1. PICK j \in 0 .. FifoSize - 1 : j = i - 1
      BY <1>0
    <2>2. (t + j) % FifoSize = (tail + j + 1) % FifoSize
      BY <1>0, <1>1
    <2>3. t + i - 1 = t + j /\ tail + (i + 1) - 1 = tail + j + 1
      BY <1>0, <1>1, <2>1
    <2> QED
      BY <2>2, <2>3, Zenon
  <1>3. RingOK'
    <2>1. front' = (tail' + count') % FifoSize
      <3>1. PICK j \in 0 .. FifoSize - 1 : j = count - 1
        BY <1>0
      <3>2. (t + j) % FifoSize = (tail + j + 1) % FifoSize
        BY <1>0, <1>1
      <3>3. tail + j + 1 = tail + count
        BY <1>0, <3>1
      <3>4. front = (t + j) % FifoSize
        BY <3>2, <3>3, Zenon DEF RingOK
      <3> QED
        BY <1>0, <1>1, <3>1, <3>4
    <2>2. ASSUME NEW i \in 1 .. count' PROVE buffer'[(tail' + i - 1) % FifoSize] \in Pointer
      <3>1. PICK n \in 1 .. count : n = i + 1 /\ i \in 1 .. count - 1
        BY <1>0
      <3>2. buffer[(tail + n - 1) % FifoSize] \in Pointer
        BY DEF RingOK
      <3> QED
        BY <1>0, <1>1, <1>2, <3>1, <3>2
    <2>3. tail' \in Index /\ count' \in 0 .. FifoSize /\ buffer' \in [Index -> Pointer \cup {Free}]
      BY <1>0
    <2> QED
      BY <2>1, <2>2, <2>3 DEF RingOK, Index
  <1>4. /\ Waiting \in Seq(Pointer) /\ Len(Waiting) = count
        /\ Waiting' \in Seq(Pointer) /\ Len(Waiting') = count - 1
        /\ \A i \in 1 .. count : Waiting[i] = buffer[(tail + i - 1) % FifoSize]
        /\ \A i \in 1 .. count' : Waiting'[i] = buffer'[(tail' + i - 1) % FifoSize]
    <2>1. (RingOK => /\ Waiting \in Seq(Pointer)
                     /\ Len(Waiting) = count
                     /\ \A i \in 1 .. count : Waiting[i] = buffer[(tail + i - 1) % FifoSize])'
      BY WaitingSeq, PTL
    <2> QED
      BY <1>0, <1>3, <2>1, WaitingSeq
  <1>5. ASSUME NEW i \in 1 .. count - 1 PROVE Waiting'[i] = Waiting[i + 1]
    <2>1. i \in 1 .. count' /\ i + 1 \in 1 .. count
      BY <1>0
    <2>2. Waiting'[i] = buffer[(t + i - 1) % FifoSize]
      BY <1>0, <1>1, <1>4, <2>1
    <2>3. Waiting[i + 1] = buffer[(tail + (i + 1) - 1) % FifoSize]
      BY <1>4, <2>1
    <2> QED
      BY <1>2, <2>2, <2>3
  <1>6. Waiting # <<>> /\ Head(Waiting) = Waiting[1]
    BY <1>0, <1>4
  <1>7. buffer[tail] = Waiting[1] /\ Waiting[1] \in Pointer
    <2>1. tail + 1 - 1 = tail /\ tail % FifoSize = tail /\ 1 \in 1 .. count
      BY <1>0, Around
    <2>2. Waiting[1] = buffer[(tail + 1 - 1) % FifoSize]
      BY <1>4, <2>1
    <2> QED
      BY <1>4, <2>1, <2>2
  <1>8. Waiting' = Tail(Waiting)
    <2>1. /\ Tail(Waiting) \in Seq(Pointer)
          /\ Len(Tail(Waiting)) = count - 1
          /\ \A i \in 1 .. count - 1 : Tail(Waiting)[i] = Waiting[i + 1]
      BY <1>0, <1>4, <1>6, HeadTailProperties
    <2>2. \A i \in 1 .. Len(Waiting') : Waiting'[i] = Tail(Waiting)[i]
      BY <1>0, <1>4, <1>5, <2>1
    <2> QED
      BY <1>4, <2>1, <2>2, SeqEqual
  <1> QED
    BY <1>3, <1>5, <1>6, <1>7, <1>8

\* The pointer http_handler queues.
CalledPointer == [conn |-> called.conn, key |-> called.key]

\* A segment changes the ring only by putting the new connection into it.
LEMMA ReceivePuts ==
    ASSUME NEW k \in Key, NEW seg \in Segment, NEW piece, Receive(k, seg, piece), RingOK
    PROVE  \/ /\ UNCHANGED fifo
              /\ called' # Free /\ called'.event = "CONNECTED" => count >= FifoSize
           \/ /\ called' # Free /\ called'.event = "CONNECTED"
              /\ Puts(CalledPointer')
  <1>1. tcp_in(k, seg) /\ http_handler
    BY DEF Receive
  <1>2. CASE called' # Free /\ called'.event = "CONNECTED" /\ count < FifoSize
    <2>1. CalledPointer' \in Pointer
      BY <1>1, <1>2, CalledFor DEF CalledPointer, Pointer
    <2>2. http_fifo_in(CalledPointer')
      BY <1>1, <1>2, Zenon DEF http_handler, CalledPointer
    <2>3. count \in Nat /\ FifoSize \in Nat
      BY Places
    <2> QED
      BY <1>2, <2>1, <2>2, <2>3 DEF http_fifo_in, Puts
  <1>3. CASE called' # Free /\ called'.event = "CONNECTED" /\ count >= FifoSize
    <2>1. http_fifo_in(CalledPointer')
      BY <1>1, <1>3, Zenon DEF http_handler, CalledPointer
    <2> QED
      BY <1>3, <2>1 DEF http_fifo_in
  <1>4. CASE ~ (called' # Free /\ called'.event = "CONNECTED")
    BY <1>1, <1>4, Zenon DEF http_handler
  <1>5. count \in Nat /\ FifoSize \in Nat
    BY Places
  <1> QED
    BY <1>2, <1>3, <1>4, <1>5

\* What a step of main and the server does to the ring.
LEMMA RingMoves ==
    ASSUME RingOK, [HttpNext]_httpVars
    PROVE  \/ UNCHANGED fifo
           \/ \E p : Puts(p)
           \/ TakeNext /\ Takes
  <1>1. CASE UNCHANGED httpVars
    BY <1>1 DEF httpVars, fifo
  <1>2. CASE net_poll
    <2>1. CASE UNCHANGED fifo
      BY <2>1
    <2>2. ASSUME NEW k \in Key, NEW seg \in Segment, NEW piece, Receive(k, seg, piece)
          PROVE  UNCHANGED fifo \/ \E p : Puts(p)
      BY <2>2, ReceivePuts
    <2> QED
      BY <1>2, <2>1, <2>2 DEF net_poll
  <1>3. CASE TakeNext
    BY <1>3 DEF TakeNext, Takes, http_fifo_out
  <1>4. CASE \/ http_server_open \/ NothingQueued \/ GetLine \/ LineFull \/ SendTaken
             \/ SendRefused \/ close_http
    BY <1>4 DEF http_server_open, NothingQueued, GetLine, LineFull, SendTaken, SendRefused,
       close_http
  <1> QED
    BY <1>1, <1>2, <1>3, <1>4 DEF HttpNext, http_server_run, MainPoll, LinePoll, SendPoll

\* The ring stays consistent.
LEMMA RingInv == HttpSpec => []RingOK
  <1>1. HttpInit => RingOK
    <2>1. FifoSize \in Nat /\ FifoSize > 0 /\ 0 % FifoSize = 0
      BY FifoAssumption, Around
    <2> QED
      BY <2>1 DEF HttpInit, RingOK, Index
  <1>2. RingOK /\ [HttpNext]_httpVars => RingOK'
    <2> SUFFICES ASSUME RingOK, [HttpNext]_httpVars PROVE RingOK'
      OBVIOUS
    <2>1. CASE UNCHANGED fifo
      BY <2>1 DEF fifo, RingOK
    <2> QED
      BY <2>1, RingMoves, PutAtEnd, TakeFirst
  <1> QED
    BY <1>1, <1>2, PTL DEF HttpSpec

\* The ring hands out the connections in the order they came in, for any number
\* of peers, polite or not, and any size (http.c:7-46).
THEOREM ServedInOrder == HttpSpec => FirstComeFirstServed
  <1>1. RingOK /\ [HttpNext]_httpVars => [InOrder]_httpVars
    <2> SUFFICES ASSUME RingOK, [HttpNext]_httpVars PROVE InOrder
      OBVIOUS
    <2>1. CASE UNCHANGED fifo
      BY <2>1 DEF fifo, Waiting, InOrder
    <2>2. ASSUME NEW p, Puts(p) PROVE InOrder
      BY <2>2, PutAtEnd DEF Puts, InOrder
    <2>3. CASE TakeNext /\ Takes
      <3>1. cur' = buffer[tail]
        BY <2>3 DEF TakeNext
      <3> QED
        BY <2>3, <3>1, TakeFirst DEF InOrder
    <2> QED
      BY <2>1, <2>2, <2>3, RingMoves
  <1> QED
    BY <1>1, RingInv, PTL DEF HttpSpec, FirstComeFirstServed

-----------------------------------------------------------------------------
(* The server.                                                              *)

ServingPlace == {"get_line", "line_poll", "send", "send_poll", "close"}

\* A connection is being served exactly between TakeNext and close_http; the
\* server lets main poll only when none waits (http.c:197).
Serving ==
    /\ pc \in ServingPlace => cur \in Pointer
    /\ pc \notin ServingPlace => cur = Free
    /\ pc \in {"open", "main_poll"} => count = 0

\* The parts of HttpTypeOK that the ring does not say.
ServerTypes ==
    /\ pc \in Place
    /\ line \in [len : 0 .. LineMax, get : BOOLEAN]
    /\ left \in 0 .. Response
    /\ rx \in [Slot -> Seq(Piece)]

HttpInv == RingOK /\ Serving /\ ServerTypes

\* A net_poll leaves the server where it is and keeps what is queued.
LEMMA PollTypes ==
    ASSUME HttpInv, net_poll
    PROVE  RingOK' /\ rx' \in [Slot -> Seq(Piece)]
  <1>1. CASE UNCHANGED <<vars, fifo, rx>>
    BY <1>1 DEF HttpInv, ServerTypes, RingOK, fifo
  <1>2. ASSUME NEW k \in Key, NEW seg \in Segment, NEW piece \in Piece, Receive(k, seg, piece)
        PROVE  RingOK' /\ rx' \in [Slot -> Seq(Piece)]
    <2>1. RingOK'
      <3>1. CASE UNCHANGED fifo
        BY <3>1 DEF fifo, RingOK, HttpInv
      <3> QED
        BY <1>2, <3>1, ReceivePuts, PutAtEnd DEF HttpInv
    <2>2. rx' \in [Slot -> Seq(Piece)]
      <3>1. ASSUME NEW s \in Slot PROVE rx[s] \in Seq(Piece) /\ Append(rx[s], piece) \in Seq(Piece)
        BY DEF HttpInv, ServerTypes
      <3>2. <<>> \in Seq(Piece)
        OBVIOUS
      <3> QED
        BY <1>2, <3>1, <3>2 DEF Receive
    <2> QED
      BY <2>1, <2>2
  <1>3. \A seg \in Segment : (IF seg.data THEN Arriving ELSE {"eol"}) \subseteq Piece
    BY ArrivingAssumption DEF Piece
  <1> QED
    BY <1>1, <1>2, <1>3 DEF net_poll

\* get_line ends a line of any length (http.c:48).
LEMMA LineEndTypes ==
    ASSUME LineEnds(line)
    PROVE  pc' \in {"close", "send"} /\ (left \in 0 .. Response => left' \in 0 .. Response)
  BY DEF LineEnds

\* The invariant of the server is inductive, whatever clients send.
LEMMA HttpNextInv ==
    ASSUME HttpInv, [HttpNext]_httpVars
    PROVE  HttpInv'
  <1> USE DEF ServingPlace
  <1>0. /\ LineMax \in Nat /\ Response \in Nat
        /\ pc \in Place /\ line \in [len : 0 .. LineMax, get : BOOLEAN]
        /\ left \in 0 .. Response /\ rx \in [Slot -> Seq(Piece)]
        /\ count \in Nat
    BY LineAssumption, Places DEF HttpInv, ServerTypes
  <1>1. RingOK'
    <2>1. CASE UNCHANGED fifo
      BY <2>1 DEF fifo, RingOK, HttpInv
    <2> QED
      BY <2>1, RingMoves, PutAtEnd, TakeFirst DEF HttpInv
  <1>2. CASE UNCHANGED httpVars
    BY <1>2 DEF httpVars, HttpInv, Serving, ServerTypes, RingOK
  <1>3. CASE http_server_open
    <2>1. pc' = "main_poll" /\ UNCHANGED <<fifo, serving, rx>> /\ pc = "open"
      BY <1>3 DEF http_server_open
    <2> QED
      BY <1>0, <1>1, <2>1 DEF HttpInv, Serving, ServerTypes, Place, fifo, serving
  <1>4. CASE MainPoll \/ LinePoll \/ SendPoll
    <2>1. /\ net_poll /\ UNCHANGED serving
          /\ \/ pc = "main_poll" /\ pc' = "fifo_out"
             \/ pc = "line_poll" /\ pc' = "get_line"
             \/ pc = "send_poll" /\ pc' \in {"close", "send"}
      BY <1>4 DEF MainPoll, LinePoll, SendPoll
    <2>2. rx' \in [Slot -> Seq(Piece)]
      BY <2>1, PollTypes
    <2> QED
      BY <1>0, <1>1, <2>1, <2>2 DEF HttpInv, Serving, ServerTypes, Place, serving
  <1>5. CASE NothingQueued
    BY <1>0, <1>1, <1>5 DEF NothingQueued, HttpInv, Serving, ServerTypes, Place, serving, fifo
  <1>6. CASE TakeNext
    <2>1. Takes
      BY <1>6 DEF TakeNext, Takes, http_fifo_out
    <2>2. cur' \in Pointer
      BY <1>6, <2>1, TakeFirst DEF TakeNext, HttpInv
    <2> QED
      BY <1>0, <1>1, <1>6, <2>2 DEF TakeNext, HttpInv, Serving, ServerTypes, Place
  <1>7. CASE GetLine
    <2>1. PICK c \in Readable :
            /\ rx' = IF c # "none" /\ Allocated(cur) THEN [rx EXCEPT ![cur.conn] = Tail(@)] ELSE rx
            /\ \/ LineEnds(line) /\ UNCHANGED line
               \/ line' = [len |-> line.len + 1, get |-> line.get \/ c = "get"]
                    /\ pc' = "line_poll" /\ UNCHANGED left
               \/ pc' = "line_poll" /\ UNCHANGED <<line, left>>
      BY <1>7 DEF GetLine
    <2>2. pc = "get_line" /\ line.len < LineMax /\ cur' = cur
      BY <1>7 DEF GetLine
    <2>3. cur \in Pointer /\ cur.conn \in Slot
      BY <2>2 DEF HttpInv, Serving, Pointer
    <2>4. rx' \in [Slot -> Seq(Piece)]
      <3>1. CASE c # "none" /\ Allocated(cur)
        <4>1. rx[cur.conn] # <<>> /\ rx[cur.conn] \in Seq(Piece)
          BY <1>0, <2>3, <3>1 DEF Readable
        <4>2. Tail(rx[cur.conn]) \in Seq(Piece)
          BY <4>1, HeadTailProperties
        <4> QED
          BY <1>0, <2>1, <3>1, <4>2
      <3> QED
        BY <1>0, <2>1, <3>1
    <2>5. /\ pc' \in {"close", "send", "line_poll"}
          /\ left' \in 0 .. Response
          /\ line' \in [len : 0 .. LineMax, get : BOOLEAN]
      <3>1. CASE LineEnds(line) /\ UNCHANGED line
        BY <1>0, <3>1, LineEndTypes
      <3>2. CASE /\ line' = [len |-> line.len + 1, get |-> line.get \/ c = "get"]
                 /\ pc' = "line_poll" /\ UNCHANGED left
        <4>1. line.len + 1 \in 0 .. LineMax
          BY <1>0, <2>2
        <4>2. (line.get \/ c = "get") \in BOOLEAN
          BY Zenon
        <4> QED
          BY <1>0, <3>2, <4>1, <4>2
      <3>3. CASE pc' = "line_poll" /\ UNCHANGED <<line, left>>
        BY <1>0, <3>3
      <3> QED
        BY <2>1, <3>1, <3>2, <3>3
    <2> QED
      BY <1>1, <2>2, <2>3, <2>4, <2>5 DEF HttpInv, Serving, ServerTypes, Place
  <1>8. CASE LineFull
    <2>1. LineEnds(line) /\ pc = "get_line" /\ UNCHANGED <<cur, line, rx>>
      BY <1>8 DEF LineFull
    <2> QED
      BY <1>0, <1>1, <2>1, LineEndTypes DEF HttpInv, Serving, ServerTypes, Place
  <1>9. CASE SendTaken \/ SendRefused
    <2>1. /\ pc = "send" /\ pc' = "send_poll" /\ UNCHANGED <<cur, line, rx>>
          /\ left > 0 /\ (left' = left - 1 \/ left' = left)
      BY <1>9 DEF SendTaken, SendRefused, serving
    <2>2. left' \in 0 .. Response
      BY <1>0, <2>1
    <2> QED
      BY <1>0, <1>1, <2>1, <2>2 DEF HttpInv, Serving, ServerTypes, Place
  <1>10. CASE close_http
    <2>1. cur' = Free /\ line' = NoLine /\ left' = 0 /\ pc' = "fifo_out" /\ rx' = rx
      BY <1>10 DEF close_http
    <2>2. NoLine \in [len : 0 .. LineMax, get : BOOLEAN]
      BY <1>0 DEF NoLine
    <2> QED
      BY <1>0, <1>1, <2>1, <2>2 DEF HttpInv, Serving, ServerTypes, Place
  <1> QED
    BY <1>2, <1>3, <1>4, <1>5, <1>6, <1>7, <1>8, <1>9, <1>10 DEF HttpNext, http_server_run

\* It holds in every reachable state.
LEMMA HttpInvariance == HttpSpec => []HttpInv
  <1>1. HttpInit => HttpInv
    <2> SUFFICES ASSUME HttpInit PROVE HttpInv
      OBVIOUS
    <2>1. FifoSize \in Nat /\ FifoSize > 0 /\ 0 % FifoSize = 0
      BY FifoAssumption, Around
    <2>2. RingOK
      BY <2>1 DEF HttpInit, RingOK, Index
    <2>3. NoLine \in [len : 0 .. LineMax, get : BOOLEAN]
      BY LineAssumption DEF NoLine
    <2> QED
      BY <2>2, <2>3, LineAssumption
         DEF HttpInit, HttpInv, Serving, ServingPlace, ServerTypes, Place
  <1>2. HttpInv /\ [HttpNext]_httpVars => HttpInv'
    BY HttpNextInv
  <1> QED
    BY <1>1, <1>2, PTL DEF HttpSpec

\* Types of the server, in particular the bounds of the line and of the ring.
THEOREM ServerIsTyped == HttpSpec => []HttpTypeOK
  <1>1. ASSUME HttpInv PROVE HttpTypeOK
    <2>1. front \in Index
      BY <1>1, Places DEF HttpInv
    <2>2. cur \in Pointer \cup {Free}
      BY <1>1 DEF HttpInv, Serving
    <2> QED
      BY <1>1, <2>1, <2>2 DEF HttpInv, HttpTypeOK, RingOK, ServerTypes, Index
  <1>2. HttpInv => HttpTypeOK
    BY <1>1
  <1> QED
    BY <1>2, HttpInvariance, PTL

-----------------------------------------------------------------------------
(* Peers that follow the protocol.                                          *)

\* What was accepted stays open until the server closes it.
LEMMA PoliteSegment ==
    ASSUME Inv, Patient, NEW k \in Key, NEW seg \in Segment, NEW piece, Receive(k, seg, piece),
           NEW u \in Slot, Established(u)
    PROVE  connect_table'[u] = connect_table[u] /\ connect'[u].state = "ESTABLISHED"
  <1>1. tcp_in(k, seg) /\ Behaves(k, seg)
    BY DEF Receive
  <1>2. CASE NoHandler(k) \/ NoRoom(k)
    BY <1>2 DEF NoHandler, NoRoom, Established
  <1>3. ASSUME NEW h \in PortSlot, NEW s \in Slot, OneSegment(k, seg, h, s)
        PROVE  connect_table'[u] = connect_table[u] /\ connect'[u].state = "ESTABLISHED"
    <2>1. TouchesOnly(k, s)
      BY <1>3, OneSlot
    <2>2. CASE u # s
      BY <2>1, <2>2 DEF TouchesOnly, Established
    <2>3. CASE u = s
      <3>1. connect_table[s] = k /\ connect[s].state = "ESTABLISHED"
        BY <2>1, <2>3 DEF TouchesOnly, Established
      <3>2. InState(k, {"SYN_RCVD", "ESTABLISHED"})
        BY <3>1 DEF InState
      <3>3. seg.in_seq /\ "rst" \notin seg.flags /\ "fin" \notin seg.flags
        BY <1>1, <3>1, <3>2 DEF Behaves
      <3>4. Entry(k, h, s).state = "ESTABLISHED"
        BY <3>1 DEF Entry
      <3>5. EstablishedData(k, seg, h, s) \/ Ignored(k, seg, h, s)
        BY <1>3, <3>1, <3>3, <3>4 DEF OneSegment, ListenRst, ListenReset, ListenSyn, OutOfSeq,
           EstablishedRst, OtherRst, SynRcvdAck, EstablishedFin, FinWait1FinAck, FinWait1Ack,
           FinWait2Fin, LastAckAck, Switch, In
      <3> QED
        BY <2>3, <3>1, <3>5 DEF EstablishedData, Ignored
    <2> QED
      BY <2>2, <2>3
  <1> QED
    BY <1>1, <1>2, <1>3 DEF tcp_in

\* A connection becomes established in one way only, and http_handler hears of
\* it (tcp.c:458-466).
LEMMA BecomesEstablished ==
    ASSUME Inv, NEW k \in Key, NEW seg \in Segment, tcp_in(k, seg)
    PROVE  \/ /\ ~ (called' # Free /\ called'.event = "CONNECTED")
              /\ \A u \in Slot : Established(u)' => Established(u)
           \/ \E s \in Slot :
                /\ called' # Free /\ called'.event = "CONNECTED"
                /\ called'.conn = s /\ called'.key = k /\ connect_table[s] = k
                /\ connect[s].state = "SYN_RCVD" /\ connect'[s].state = "ESTABLISHED"
                /\ connect_table' = connect_table
                /\ \A u \in Slot \ {s} : connect'[u] = connect[u]
  <1>0. connect \in [Slot -> Connect] /\ connect_table \in [Slot -> Key \cup {Free}]
    BY DEF Inv, TypeOK
  <1>1. CASE NoHandler(k) \/ NoRoom(k)
    BY <1>1 DEF NoHandler, NoRoom, Established
  <1>2. ASSUME NEW h \in PortSlot, NEW s \in Slot, OneSegment(k, seg, h, s),
               ~ SynRcvdAck(k, seg, h, s)
        PROVE  /\ ~ (called' # Free /\ called'.event = "CONNECTED")
               /\ \A u \in Slot : Established(u)' => Established(u)
    <2>1. TouchesOnly(k, s)
      BY <1>2, OneSlot
    <2>2. connect[s] \in Connect
      BY <1>0
    <2>3. \A c \in Connect : release_tcp_connect(c).state = "LISTEN"
      BY DEF release_tcp_connect, Connect
    <2>4. /\ ~ (called' # Free /\ called'.event = "CONNECTED")
          /\ connect'[s].state = "ESTABLISHED" =>
               connect[s].state = "ESTABLISHED" /\ connect_table[s] = k
      <3>1. CASE \/ ListenRst(k, seg, h, s) \/ ListenReset(k, seg, h, s) \/ ListenSyn(k, seg, h, s)
        <4>1. Entry(k, h, s) \in Connect /\ Entry(k, h, s).state = "LISTEN"
          BY <3>1, ListenEntry DEF ListenRst, ListenReset, ListenSyn
        <4>2. ListenSyn(k, seg, h, s) => connect'[s].state = "SYN_RCVD"
          BY <1>0, <4>1 DEF ListenSyn, Connect
        <4> QED
          BY <1>0, <2>3, <3>1, <4>1, <4>2 DEF ListenRst, ListenReset, ListenSyn, ResetConn
      <3>2. CASE \/ OutOfSeq(k, seg, h, s) \/ EstablishedRst(k, seg, h, s) \/ OtherRst(k, seg, h, s)
                 \/ FinWait1FinAck(k, seg, h, s) \/ FinWait2Fin(k, seg, h, s)
                 \/ LastAckAck(k, seg, h, s)
        <4>1. connect'[s].state = "LISTEN"
          BY <1>0, <2>2, <2>3, <3>2 DEF OutOfSeq, EstablishedRst, OtherRst, FinWait1FinAck,
             FinWait2Fin, LastAckAck, ResetConn, CloseInTcpIn
        <4>2. called' = Free \/ called' = Callback(s, k, "CLOSED", h)
          BY <3>2 DEF OutOfSeq, EstablishedRst, OtherRst, FinWait1FinAck, FinWait2Fin, LastAckAck
        <4> QED
          BY <4>1, <4>2 DEF Callback
      <3>3. CASE \/ EstablishedFin(k, seg, h, s) \/ FinWait1Ack(k, seg, h, s)
        <4>1. connect'[s].state # "ESTABLISHED" /\ called' = Free
          BY <1>0, <2>2, <3>3 DEF EstablishedFin, FinWait1Ack, Connect
        <4> QED
          BY <4>1
      <3>4. CASE \/ EstablishedData(k, seg, h, s) \/ Ignored(k, seg, h, s)
        <4>1. connect' = connect /\ connect_table[s] = k
          BY <3>4 DEF EstablishedData, Ignored, Switch, In
        <4>2. called' = Free \/ called' = Callback(s, k, "DATA_RECV", connect[s].handler)
          BY <3>4 DEF EstablishedData, Ignored
        <4> QED
          BY <4>1, <4>2 DEF Callback
      <3> QED
        BY <1>2, <3>1, <3>2, <3>3, <3>4 DEF OneSegment
    <2> QED
      BY <2>1, <2>4, FreeIsNoKey DEF TouchesOnly, Established
  <1>3. ASSUME NEW h \in PortSlot, NEW s \in Slot, SynRcvdAck(k, seg, h, s)
        PROVE  /\ called' # Free /\ called'.event = "CONNECTED"
               /\ called'.conn = s /\ called'.key = k /\ connect_table[s] = k
               /\ connect[s].state = "SYN_RCVD" /\ connect'[s].state = "ESTABLISHED"
               /\ connect_table' = connect_table
               /\ \A u \in Slot \ {s} : connect'[u] = connect[u]
    <2>1. /\ called' = Callback(s, k, "CONNECTED", connect[s].handler)
          /\ connect' = [connect EXCEPT ![s].state = "ESTABLISHED"]
          /\ connect_table' = connect_table /\ connect_table[s] = k
          /\ connect[s].state = "SYN_RCVD"
      BY <1>3 DEF SynRcvdAck, Switch, In
    <2>2. connect[s] \in Connect /\ connect[s].handler \in PortSlot \cup {Zero}
      BY <1>0 DEF Connect
    <2>3. called' # Free
      BY <2>1, <2>2, CallType, NoCallAssumption DEF Event
    <2>4. connect'[s].state = "ESTABLISHED" /\ \A u \in Slot \ {s} : connect'[u] = connect[u]
      BY <1>0, <2>1, <2>2 DEF Connect
    <2> QED
      BY <2>1, <2>3, <2>4 DEF Callback
  <1> QED
    BY <1>1, <1>2, <1>3 DEF tcp_in

Live(p) == connect_table[p.conn] = p.key /\ connect[p.conn].state = "ESTABLISHED"

\* What the server relies on: the pointers it holds are those of different
\* connections, all of them established.
HeldPointers ==
    /\ Inv /\ OwnerInv
    /\ \A i \in 1 .. count : Live(Waiting[i])
    /\ \A i, j \in 1 .. count : Waiting[i].conn = Waiting[j].conn => i = j
    /\ cur # Free => Live(cur) /\ \A i \in 1 .. count : Waiting[i].conn # cur.conn

\* A step forgets nobody, unless the ring is full and one more is accepted.
Remembers == \A s \in Slot : Forgotten(s)' => Forgotten(s) \/ (~ Established(s) /\ count >= FifoSize)

\* A pointer that is live stays so in a net_poll, if peers are patient.
LEMMA StaysLive ==
    ASSUME Inv, Patient, NEW k \in Key, NEW seg \in Segment, NEW piece, Receive(k, seg, piece),
           NEW p \in Pointer, Live(p)
    PROVE  Live(p)'
  <1>1. p.conn \in Slot /\ p.key \in Key /\ p.key # Free
    BY FreeIsNoKey DEF Pointer
  <1>2. Established(p.conn)
    BY <1>1 DEF Live, Established
  <1>3. connect_table'[p.conn] = connect_table[p.conn] /\ connect'[p.conn].state = "ESTABLISHED"
    BY <1>1, <1>2, PoliteSegment
  <1> QED
    BY <1>3 DEF Live

\* A step that leaves table, ring and server alone.
LEMMA HeldAsBefore ==
    ASSUME UNCHANGED <<connect_table, connect, fifo, cur>>
    PROVE  /\ HeldPointers /\ Inv' /\ OwnerInv' => HeldPointers'
           /\ Remembers
  BY DEF fifo, HeldPointers, Remembers, Forgotten, Live, Established, InService, Waiting

\* net_poll inside the server: segments of any peer, one of whom may connect.
LEMMA PollHeld ==
    ASSUME HttpInv, HeldPointers, Patient, NEW k \in Key, NEW seg \in Segment, NEW piece,
           Receive(k, seg, piece), cur' = cur, Inv', OwnerInv', cur \in Pointer \cup {Free}
    PROVE  HeldPointers' /\ Remembers
  <1>0. /\ tcp_in(k, seg) /\ Inv /\ RingOK
        /\ count \in Nat /\ FifoSize \in Nat
        /\ \A i \in 1 .. count : Waiting[i] \in Pointer /\ Live(Waiting[i])
        /\ cur # Free => Live(cur) /\ cur \in Pointer
    BY Places, WaitingSeq DEF HttpInv, Receive, HeldPointers
  <1>1. /\ \A i \in 1 .. count : \A p : p = Waiting[i] => Live(p)'
        /\ cur # Free => \A p : p = cur => Live(p)'
    <2>1. \A p \in Pointer : Live(p) => Live(p)'
      BY StaysLive DEF HeldPointers
    <2> QED
      BY <1>0, <2>1
  <1>2. CASE UNCHANGED fifo
    <2>1. Waiting' = Waiting /\ count' = count
      BY <1>2 DEF fifo, Waiting
    <2>2. HeldPointers'
      BY <1>1, <2>1 DEF HeldPointers, Live
    <2>3. InService' = InService
      BY <2>1 DEF InService
    <2>4. CASE called' # Free /\ called'.event = "CONNECTED" /\ count >= FifoSize
      <3>1. PICK s \in Slot :
              /\ connect[s].state = "SYN_RCVD" /\ connect_table' = connect_table
              /\ \A u \in Slot \ {s} : connect'[u] = connect[u]
        BY <1>0, <2>4, BecomesEstablished
      <3>2. \A u \in Slot : Established(u)' => Established(u) \/ (u = s /\ ~ Established(s))
        BY <3>1 DEF Established
      <3> QED
        BY <2>2, <2>3, <2>4, <3>2 DEF Remembers, Forgotten
    <2>5. CASE ~ (called' # Free /\ called'.event = "CONNECTED")
      <3>1. \A u \in Slot : Established(u)' => Established(u)
        BY <1>0, <2>5, BecomesEstablished
      <3> QED
        BY <2>2, <2>3, <3>1 DEF Remembers, Forgotten
    <2>6. CASE Puts(CalledPointer')
      <3>1. count' = count + 1
        BY <2>6 DEF Puts
      <3> QED
        BY <1>0, <2>1, <3>1
    <2> QED
      BY <1>0, <2>2, <2>4, <2>5, <2>6, ReceivePuts
  <1>3. CASE called' # Free /\ called'.event = "CONNECTED" /\ Puts(CalledPointer')
    <2>1. PICK s \in Slot :
            /\ called'.conn = s /\ called'.key = k /\ connect_table[s] = k
            /\ connect[s].state = "SYN_RCVD" /\ connect'[s].state = "ESTABLISHED"
            /\ connect_table' = connect_table
            /\ \A u \in Slot \ {s} : connect'[u] = connect[u]
      BY <1>0, <1>3, BecomesEstablished
    <2>2. PICK p : p = CalledPointer'
      OBVIOUS
    <2>3. p.conn = s /\ p.key = k
      BY <2>1, <2>2 DEF CalledPointer
    <2>4. /\ \A i \in 1 .. count : Waiting'[i] = Waiting[i]
          /\ Waiting'[count + 1] = p
          /\ count' = count + 1
      BY <1>0, <1>3, <2>2, PutAtEnd DEF Puts
    <2>5. \A i \in 1 .. count' : i \in 1 .. count \/ i = count + 1
      BY <1>0, <2>4
    <2>6. Live(p)'
      BY <2>1, <2>3 DEF Live
    <2>7. \A i \in 1 .. count : Waiting[i].conn # s
      BY <1>0, <2>1 DEF Live
    <2>8. cur # Free => cur.conn # s
      BY <1>0, <2>1 DEF Live
    <2>9. (\A i \in 1 .. count : Live(Waiting[i]))'
      <3> SUFFICES ASSUME NEW i \in 1 .. count' PROVE Live(Waiting[i])'
        OBVIOUS
      <3>1. PICK q : q = Waiting'[i]
        OBVIOUS
      <3>2. Live(q)'
        BY <1>1, <2>4, <2>5, <2>6, <3>1
      <3> QED
        BY <3>1, <3>2 DEF Live
    <2>10. (\A i, j \in 1 .. count : Waiting[i].conn = Waiting[j].conn => i = j)'
      <3> SUFFICES ASSUME NEW i \in 1 .. count', NEW j \in 1 .. count',
                          Waiting'[i].conn = Waiting'[j].conn
                   PROVE  i = j
        OBVIOUS
      <3> QED
        BY <2>3, <2>4, <2>5, <2>7 DEF HeldPointers
    <2>11. (cur # Free => Live(cur) /\ \A i \in 1 .. count : Waiting[i].conn # cur.conn)'
      <3>1. cur # Free => Live(cur)'
        BY <1>1 DEF Live
      <3>2. ASSUME cur # Free, NEW i \in 1 .. count' PROVE Waiting'[i].conn # cur.conn
        BY <2>3, <2>4, <2>5, <2>8, <3>2 DEF HeldPointers
      <3> QED
        BY <3>1, <3>2
    <2>12. HeldPointers'
      BY <2>9, <2>10, <2>11 DEF HeldPointers
    <2>13. Remembers
      <3>1. \A u \in Slot : Established(u)' => u = s \/ Established(u)
        BY <2>1 DEF Established
      <3>2. s \in InService'
        <4>1. count + 1 \in 1 .. count'
          BY <1>0, <2>4
        <4> QED
          BY <2>3, <2>4, <4>1 DEF InService
      <3>3. InService \subseteq InService'
        <4>1. \A i \in 1 .. count : i \in 1 .. count'
          BY <1>0, <2>4
        <4> QED
          BY <2>4, <4>1 DEF InService
      <3> QED
        BY <3>1, <3>2, <3>3 DEF Remembers, Forgotten
    <2> QED
      BY <2>12, <2>13
  <1> QED
    BY <1>0, <1>2, <1>3, ReceivePuts

\* A net_poll of main or of the server.
LEMMA PollStep ==
    ASSUME HttpInv, HeldPointers, Patient, net_poll, cur' = cur
    PROVE  HeldPointers' /\ Remembers
  <1>1. CASE UNCHANGED <<vars, fifo, rx>>
    <2>1. Inv' /\ OwnerInv'
      BY <1>1, NoCall DEF HeldPointers
    <2>2. UNCHANGED <<connect_table, connect, fifo, cur>>
      BY <1>1 DEF vars
    <2> QED
      BY <2>1, <2>2, HeldAsBefore
  <1>2. ASSUME NEW k \in Key, NEW seg \in Segment, NEW piece, Receive(k, seg, piece)
        PROVE  HeldPointers' /\ Remembers
    <2>1. Inv' /\ OwnerInv'
      BY <1>2, Segments DEF HeldPointers, Receive
    <2>2. cur \in Pointer \cup {Free}
      BY DEF HttpInv, Serving
    <2> QED
      BY <1>2, <2>1, <2>2, PollHeld
  <1> QED
    BY <1>1, <1>2 DEF net_poll

\* close_http closes the connection that was served, and no other (http.c:84).
LEMMA CloseStep ==
    ASSUME HttpInv, HeldPointers, close_http
    PROVE  HeldPointers' /\ Remembers
  <1>0. /\ cur \in Pointer /\ cur # Free /\ cur.conn \in Slot /\ Live(cur)
        /\ \A i \in 1 .. count : Waiting[i] \in Pointer /\ Live(Waiting[i])
        /\ \A i \in 1 .. count : Waiting[i].conn # cur.conn
        /\ connect \in [Slot -> Connect]
    <2>1. cur \in Pointer
      BY DEF HttpInv, Serving, ServingPlace, close_http
    <2>2. cur # Free /\ cur.conn \in Slot
      BY <2>1, NoPointerAssumption DEF Pointer
    <2>3. Live(cur) /\ \A i \in 1 .. count : Waiting[i].conn # cur.conn
      BY <2>2 DEF HeldPointers
    <2>4. count \in Nat /\ \A i \in 1 .. count : Waiting[i] \in Pointer
      <3>1. RingOK
        BY DEF HttpInv
      <3>2. Waiting \in Seq(Pointer) /\ Len(Waiting) = count
        BY <3>1, WaitingSeq
      <3> QED
        BY <3>2, ElementOfSeq, LenProperties
    <2>5. \A i \in 1 .. count : Live(Waiting[i])
      BY DEF HeldPointers
    <2>6. connect \in [Slot -> Connect]
      BY DEF HeldPointers, Inv, TypeOK
    <2> QED
      BY <2>1, <2>2, <2>3, <2>4, <2>5, <2>6
  <1>1. tcp_connect_close(cur.conn) /\ ~ Strays(cur.conn)
    BY <1>0 DEF close_http, Strays, Live
  <1>2. Inv' /\ OwnerInv'
    BY <1>0, <1>1, AppCloses DEF HeldPointers
  <1>3. /\ connect' = [connect EXCEPT ![cur.conn].state = "FIN_WAIT_1"]
        /\ connect_table' = connect_table
    BY <1>0 DEF close_http, tcp_connect_close, CloseEstablished, CloseOther, Live
  <1>4. /\ connect'[cur.conn].state = "FIN_WAIT_1"
        /\ \A u \in Slot \ {cur.conn} : connect'[u] = connect[u]
    <2>1. connect[cur.conn] \in Connect
      BY <1>0
    <2> QED
      BY <1>0, <1>3, <2>1 DEF Connect
  <1>5. cur' = Free /\ Waiting' = Waiting /\ count' = count
    BY DEF close_http, fifo, Waiting
  <1>6. \A p \in Pointer : Live(p) /\ p.conn # cur.conn => connect'[p.conn] = connect[p.conn]
    BY <1>4 DEF Pointer
  <1>7. HeldPointers'
    BY <1>0, <1>2, <1>3, <1>5, <1>6 DEF HeldPointers, Live
  <1>8. Remembers
    <2>1. \A u \in Slot : Established(u)' => Established(u) /\ u # cur.conn
      BY <1>3, <1>4 DEF Established
    <2>2. InService \subseteq InService' \cup {cur.conn}
      BY <1>5 DEF InService
    <2> QED
      BY <2>1, <2>2 DEF Remembers, Forgotten
  <1> QED
    BY <1>7, <1>8

\* http_fifo_out moves the first pointer from the ring to the server.
LEMMA TakeStep ==
    ASSUME HttpInv, HeldPointers, TakeNext
    PROVE  HeldPointers' /\ Remembers
  <1>0. /\ Takes /\ RingOK /\ count \in Nat /\ count > 0 /\ count' = count - 1
        /\ cur = Free /\ cur' = buffer[tail]
    BY Places DEF TakeNext, Takes, http_fifo_out, HttpInv, Serving, ServingPlace
  <1>1. /\ cur' = Waiting[1]
        /\ \A i \in 1 .. count' : Waiting'[i] = Waiting[i + 1]
    BY <1>0, TakeFirst
  <1>2. /\ 1 \in 1 .. count
        /\ \A i \in 1 .. count' : i + 1 \in 1 .. count /\ i + 1 # 1
        /\ \A j \in 1 .. count : j = 1 \/ \E i \in 1 .. count' : j = i + 1
    <2>1. ASSUME NEW j \in 1 .. count, j # 1 PROVE \E i \in 1 .. count' : j = i + 1
      <3>1. j - 1 \in 1 .. count' /\ j = (j - 1) + 1
        BY <1>0, <2>1
      <3> QED
        BY <3>1
    <2> QED
      BY <1>0, <2>1
  <1>3. UNCHANGED vars /\ Inv' /\ OwnerInv'
    BY NoCall DEF TakeNext, HeldPointers
  <1>4. \A p : Live(p) => (\A q : q = p => Live(q)')
    BY <1>3 DEF vars, Live
  <1>5. (\A i \in 1 .. count : Live(Waiting[i]))'
    BY <1>1, <1>2, <1>3 DEF vars, HeldPointers, Live
  <1>6. (\A i, j \in 1 .. count : Waiting[i].conn = Waiting[j].conn => i = j)'
    <2> SUFFICES ASSUME NEW i \in 1 .. count', NEW j \in 1 .. count',
                        Waiting'[i].conn = Waiting'[j].conn
                 PROVE  i = j
      OBVIOUS
    <2>1. i + 1 = j + 1
      BY <1>1, <1>2 DEF HeldPointers
    <2> QED
      BY <1>0, <2>1
  <1>7. (cur # Free => Live(cur) /\ \A i \in 1 .. count : Waiting[i].conn # cur.conn)'
    <2>1. Live(cur)'
      BY <1>1, <1>2, <1>3 DEF vars, HeldPointers, Live
    <2>2. ASSUME NEW i \in 1 .. count' PROVE Waiting'[i].conn # cur'.conn
      BY <1>1, <1>2 DEF HeldPointers
    <2> QED
      BY <2>1, <2>2
  <1>8. HeldPointers'
    BY <1>3, <1>5, <1>6, <1>7 DEF HeldPointers
  <1>9. Remembers
    <2>1. \A u \in Slot : Established(u)' => Established(u)
      BY <1>3 DEF vars, Established
    <2>2. cur' # Free
      BY <1>0, TakeFirst, NoPointerAssumption
    <2>3. ASSUME NEW u \in InService PROVE u \in InService'
      <3>1. PICK j \in 1 .. count : u = Waiting[j].conn
        BY <1>0, <2>3 DEF InService
      <3>2. CASE j = 1
        BY <1>1, <2>2, <3>1, <3>2 DEF InService
      <3>3. ASSUME NEW i \in 1 .. count', j = i + 1 PROVE u \in InService'
        <4>1. u = Waiting'[i].conn
          BY <1>1, <3>1, <3>3
        <4> QED
          BY <4>1 DEF InService
      <3> QED
        BY <1>2, <3>2, <3>3
    <2> QED
      BY <2>1, <2>3 DEF Remembers, Forgotten
  <1> QED
    BY <1>8, <1>9

\* Every step keeps what the server relies on.
LEMMA HeldStep ==
    ASSUME HttpInv, HeldPointers, Patient, [HttpNext]_httpVars
    PROVE  HeldPointers' /\ Remembers
  <1>1. CASE \/ UNCHANGED httpVars \/ NothingQueued \/ GetLine \/ LineFull \/ SendTaken
             \/ SendRefused
    <2>1. UNCHANGED <<vars, fifo, cur>>
      BY <1>1 DEF httpVars, fifo, NothingQueued, GetLine, LineFull, SendTaken, SendRefused, serving
    <2>2. Inv' /\ OwnerInv'
      BY <2>1, NoCall DEF HeldPointers
    <2>3. UNCHANGED <<connect_table, connect, fifo, cur>>
      BY <2>1 DEF vars
    <2> QED
      BY <2>2, <2>3, HeldAsBefore
  <1>2. CASE http_server_open
    <2>1. Inv' /\ OwnerInv'
      BY <1>2, OpenPort DEF http_server_open, HeldPointers
    <2>2. UNCHANGED <<connect_table, connect, fifo, cur>>
      BY <1>2 DEF http_server_open, tcp_open, serving
    <2> QED
      BY <2>1, <2>2, HeldAsBefore
  <1>3. CASE MainPoll \/ LinePoll \/ SendPoll
    <2>1. net_poll /\ cur' = cur
      BY <1>3 DEF MainPoll, LinePoll, SendPoll, serving
    <2> QED
      BY <2>1, PollStep
  <1>4. CASE TakeNext
    BY <1>4, TakeStep
  <1>5. CASE close_http
    BY <1>5, CloseStep
  <1> QED
    BY <1>1, <1>2, <1>3, <1>4, <1>5 DEF HttpNext, http_server_run

\* At the start nothing is held.
LEMMA HeldAtStart == HttpInit => HeldPointers
  <1> SUFFICES ASSUME HttpInit PROVE HeldPointers
    OBVIOUS
  <1>1. Inv /\ OwnerInv
    BY InitInv DEF HttpInit
  <1>2. count = 0 /\ cur = Free
    BY DEF HttpInit
  <1> QED
    BY <1>1, <1>2 DEF HeldPointers

\* For peers that follow the protocol: the connection being served is there,
\* under the key it was accepted with, however often net_poll runs inside the
\* request (http.c:50-79, 197).
THEOREM ServedIsLive == ASSUME Patient PROVE HttpSpec => []ServesLiveConnection
  <1>1. HttpInit => HeldPointers
    BY HeldAtStart
  <1>2. HttpInv /\ HeldPointers /\ [HttpNext]_httpVars => HeldPointers'
    BY HeldStep
  <1>3. HeldPointers => ServesLiveConnection
    BY DEF HeldPointers, Live, ServesLiveConnection
  <1> QED
    BY <1>1, <1>2, <1>3, HttpInvariance, PTL DEF HttpSpec

\* For peers that follow the protocol, any number of slots and any ring: every
\* connection that was accepted waits in the ring or is served, once, until it is
\* closed, but those accepted at a moment when the ring was full (http.c:19, 176).
THEOREM NobodyForgotten == ASSUME Patient PROVE HttpSpec => NobodyIsForgotten
  <1>1. HttpInit => HeldPointers
    BY HeldAtStart
  <1>2. HttpInv /\ HeldPointers /\ [HttpNext]_httpVars => HeldPointers' /\ [Remembers]_httpVars
    BY HeldStep
  <1>3. HeldPointers => HeldOnce
    BY DEF HeldPointers, HeldOnce
  <1>4. [Remembers]_httpVars
          <=> [\A s \in Slot : Forgotten(s)' => Forgotten(s) \/ (~ Established(s) /\ count >= FifoSize)]_httpVars
    BY DEF Remembers
  <1> QED
    BY <1>1, <1>2, <1>3, <1>4, HttpInvariance, PTL DEF HttpSpec, NobodyIsForgotten
=============================================================================
