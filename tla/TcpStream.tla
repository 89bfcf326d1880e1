----------------------------- MODULE TcpStream -----------------------------
(* The bytes of one established connection of src/tcp.c: its sequence       *)
(* numbers, its two buffers and the calls that move them.  A byte is only   *)
(* its position in the stream; a buffer is where its data starts in the     *)
(* payload array and how long it is.  The machine is scaled down: W stands  *)
(* for 2^16 and S for 2^32, and the arithmetic wraps where the code's does. *)
(* The peer follows the protocol: its segments come in order and it         *)
(* acknowledges what it was sent, or less when its answers are late.        *)
EXTENDS Integers

CONSTANTS
    W, S,        \* the number of values of uint16_t and of uint32_t
    U8,          \* UINT8_MAX
    Isn,         \* initial sequence numbers tried
    Win,         \* windows the peer may announce in its SYN
    Chunk,       \* bound: bytes in one call of the application
    Mss,         \* bound: bytes in one segment of the peer
    TxTotal,     \* bound: bytes the application writes
    App,         \* applications tried: "echo" is tcp_handler of main.c, "calls"
                 \* reads and writes between segments, as http.c does
    RxTotal      \* RxTotal[app], bound: bytes the peer sends to app

ASSUME ScaleAssumption ==
    /\ W \in Nat \ {0} /\ U8 \in 1 .. W - 1
    /\ S \in Nat /\ S > 4 * W
    /\ Win \subseteq 0 .. W - 1
    /\ Isn \subseteq 0 .. S - 1
ASSUME AppAssumption == App \subseteq {"echo", "calls"}
ASSUME BoundAssumption == {Chunk, Mss, TxTotal} \subseteq Nat /\ RxTotal \in [App -> Nat]

\* Mutant: room for one datagram only.
OneDatagram == (W - 1) + U8

BUF_MAX_LEN == 2 * (W - 1) + U8

\* Where buf_init puts the data, and the bytes of the array behind it.
Start == BUF_MAX_LEN \div 2
Room == BUF_MAX_LEN - Start

VARIABLES
    c,           \* the connection, see Connection
    state,       \* ESTABLISHED, FIN_WAIT_1 or LAST_ACK
    app          \* the application behind the handler of the port

vars == <<c, state, app>>

Min(a, b) == IF a < b THEN a ELSE b

\* The fields of tcp_connect_t, and history the code does not keep: bytes written
\* by the application, bytes dropped from tx_buf, bytes sent, bytes put into
\* rx_buf, bytes acknowledged to the peer, the last data segment, the FINs sent
\* (none or one) with the number of the last, and whether two things have happened
\* that no check prevents:
\*   broken  tcp_write_to_buf has counted the bytes in flight wrongly: there were
\*           W or more, or a FIN was among them;
\*   wild    tcp_read_from_buf has written behind the end of rx_buf's array.
NoSegment == [at |-> 0, first |-> 0, len |-> 0]
Established(isn, win) ==
    [base |-> (isn + 1) % S, unack_seq |-> (isn + 1) % S, next_seq |-> (isn + 1) % S,
     remote_win |-> win,
     tx |-> [data |-> Start, len |-> 0],
     rx |-> [data |-> Start, len |-> 0],
     written |-> 0, dropped |-> 0, sent |-> 0, stored |-> 0, acked |-> 0,
     segment |-> NoSegment, fin |-> 0, end |-> 0, broken |-> FALSE, wild |-> FALSE]

Init ==
    /\ state = "ESTABLISHED"
    /\ app \in App
    /\ \E isn \in Isn, win \in Win : c = Established(isn, win)

-----------------------------------------------------------------------------
(* buf.c, as far as the two buffers use it.                                 *)

Fits(b, n) == b.data + b.len + n < BUF_MAX_LEN          \* buf_add_padding
add_padding(b, n) == IF Fits(b, n) THEN [b EXCEPT !.len = @ + n] ELSE b
\* Mutant: the length is not reduced.
KeepLength(b, n) == IF b.len < n THEN b ELSE [data |-> b.data + n, len |-> b.len]
remove_header(b, n) == IF b.len < n THEN b ELSE [data |-> b.data + n, len |-> b.len - n]

-----------------------------------------------------------------------------
(* The functions of tcp.c on a connection x.                                *)

InFlight(x) == (x.next_seq - x.unack_seq) % S

\* The cases in which sent, below, is not the number of bytes in flight.
Miscounts(x) == InFlight(x) >= W \/ x.fin = 1

\* Mutants: what was sent is counted again; the data of the buffer is copied from
\* its start.
SendAgain(x) ==
    LET sent == InFlight(x) % W
        size == Min(x.tx.len, x.remote_win)
    IN  [x EXCEPT !.next_seq = (@ + size) % S,
                  !.sent = @ + size, !.broken = @ \/ Miscounts(x),
                  !.segment = IF size = 0 THEN @ ELSE
                      [at |-> (x.next_seq - x.base) % S, first |-> x.dropped + sent, len |-> size]]
CopyFromStart(x) ==
    LET sent == InFlight(x) % W
        size == Min((x.tx.len - sent) % S, x.remote_win)
    IN  [x EXCEPT !.next_seq = (@ + size) % S,
                  !.sent = @ + size, !.broken = @ \/ Miscounts(x),
                  !.segment = IF size = 0 THEN @ ELSE
                      [at |-> (x.next_seq - x.base) % S, first |-> x.dropped, len |-> size]]

\* tcp_write_to_buf: sent is a uint16_t, and the difference a size_t cut to 32 bits.
tcp_write_to_buf(x) ==
    LET sent == InFlight(x) % W
        size == Min((x.tx.len - sent) % S, x.remote_win)
    IN  [x EXCEPT !.next_seq = (@ + size) % S,
                  !.sent = @ + size, !.broken = @ \/ Miscounts(x),
                  !.segment = IF size = 0 THEN @ ELSE
                      [at |-> (x.next_seq - x.base) % S, first |-> x.dropped + sent, len |-> size]]

\* tcp_connect_read of at most n bytes.
Read(x, n) == [x EXCEPT !.rx = remove_header(@, Min(x.rx.len, n))]

\* tcp_connect_write of n bytes: refused by the window, or by the end of the
\* buffer, and then the data moves to the front and is sent.
Write(x, n) ==
    LET size == Min(BUF_MAX_LEN - (x.tx.data + x.tx.len), n) IN
    IF InFlight(x) + n >= x.remote_win THEN x
    ELSE IF Fits(x.tx, size) THEN [x EXCEPT !.tx = add_padding(@, size), !.written = @ + size]
    ELSE tcp_write_to_buf([x EXCEPT !.tx.data = 0])

\* Mutant: an acknowledgement that is older than the last one is taken too.
AcknowledgeOld(x, got) ==
    IF x.next_seq > got
    THEN LET n == got - x.unack_seq IN
         [x EXCEPT !.tx = remove_header(@, n), !.unack_seq = got,
                   !.dropped = IF x.tx.len < n THEN @ ELSE @ + n]
    ELSE x

\* The acknowledgement got of a segment, compared as plain numbers.
Acknowledge(x, got) ==
    IF x.unack_seq < got /\ x.next_seq > got
    THEN LET n == got - x.unack_seq IN
         [x EXCEPT !.tx = remove_header(@, n), !.unack_seq = got,
                   !.dropped = IF x.tx.len < n THEN @ ELSE @ + n]
    ELSE x

\* tcp_read_from_buf of n bytes: copied and acknowledged whether they fit or not.
tcp_read_from_buf(x, n) ==
    [x EXCEPT !.rx = add_padding(@, n), !.acked = @ + n,
              !.stored = IF Fits(x.rx, n) THEN @ + n ELSE @,
              !.wild = @ \/ x.rx.data + x.rx.len + n > BUF_MAX_LEN]

\* Mutant: the number is increased before it is written into the header.
CountFinFirst(x) ==
    [x EXCEPT !.next_seq = (@ + 1) % S, !.fin = 1, !.end = (x.next_seq + 1 - x.base) % S]

\* The part of tcp_send that a FIN adds: it has a number of its own.
SendFin(x) ==
    [x EXCEPT !.next_seq = (@ + 1) % S, !.fin = 1, !.end = (x.next_seq - x.base) % S]

\* tcp_handler of main.c: read into a buffer of 512 bytes, write it back.
Echo(x) ==
    LET n == Min(x.rx.len, Chunk) IN
    IF n = 0 THEN x ELSE Write(Read(x, n), n)

-----------------------------------------------------------------------------
(* Steps.  A write behind the end of the array is undefined behaviour, and  *)
(* the model ends there.                                                    *)

\* The application goes on when the peer has closed: http_send does not look.
Usable == ~ c.wild /\ state \in {"ESTABLISHED", "LAST_ACK"} /\ app = "calls"
Open == ~ c.wild /\ state = "ESTABLISHED"

AppRead ==
    /\ Usable
    /\ \E n \in 1 .. Chunk : c' = Read(c, n)
    /\ UNCHANGED <<state, app>>

AppWrite ==
    /\ Usable
    /\ \E n \in 1 .. Min(Chunk, TxTotal - c.written) : c' = Write(c, n)
    /\ UNCHANGED <<state, app>>

\* The peer may have seen everything sent, or not yet.
Acks == 0 .. c.sent
Number(a) == (c.base + a) % S

\* tcp_in, ESTABLISHED, no FIN: the ACK, the data, the application, the answer.
Segment(n, a) ==
    /\ Open
    /\ c.acked + n <= RxTotal[app]
    /\ LET x == tcp_read_from_buf(Acknowledge(c, Number(a)), n)
           y == IF app = "echo" THEN Echo(x) ELSE x
       IN  c' = IF n > 0 THEN tcp_write_to_buf(y) ELSE x
    /\ UNCHANGED <<state, app>>

\* tcp_in, ESTABLISHED, FIN: the answer is a FIN without data.
SegmentFin(n, a) ==
    /\ Open
    /\ c.acked + n <= RxTotal[app]
    /\ c' = SendFin(tcp_read_from_buf(Acknowledge(c, Number(a)), n))
    /\ state' = "LAST_ACK"
    /\ UNCHANGED app

\* tcp_connect_close: one segment of what is left, with the FIN.
Close ==
    /\ Open
    /\ c' = SendFin(tcp_write_to_buf(c))
    /\ state' = "FIN_WAIT_1"
    /\ UNCHANGED app

Next ==
    \/ AppRead \/ AppWrite
    \/ \E n \in 0 .. Mss, a \in Acks : Segment(n, a) \/ SegmentFin(n, a)
    \/ Close

Spec == Init /\ [][Next]_vars

\* The application writes until all is written, as http_send does, and the
\* peer acknowledges all it was sent.
Everything == Segment(0, c.sent)
FairSpec == Init /\ [][AppWrite \/ Everything]_vars /\ WF_vars(AppWrite) /\ WF_vars(Everything)

-----------------------------------------------------------------------------
(* Properties.                                                              *)

Buffer == [data : 0 .. BUF_MAX_LEN, len : 0 .. BUF_MAX_LEN]

TypeOK ==
    /\ state \in {"ESTABLISHED", "FIN_WAIT_1", "LAST_ACK"}
    /\ c.tx \in Buffer /\ c.rx \in Buffer
    /\ {c.base, c.unack_seq, c.next_seq} \subseteq 0 .. S - 1
    /\ app \in App
    /\ c.fin \in {0, 1} /\ {c.broken, c.wild} \subseteq BOOLEAN
    /\ c.written \in 0 .. TxTotal + RxTotal[app]

\* tcp.h:100: the first next_seq - unack_seq bytes of tx_buf are those already
\* sent and not acknowledged: they are in the buffer, and it starts with the
\* byte that unack_seq numbers.  A FIN counts as one more.
SentIsInBuffer ==
    ~ c.broken =>
        /\ InFlight(c) <= c.tx.len + c.fin
        /\ (c.unack_seq - c.base) % S = c.dropped % S
        /\ c.dropped + c.tx.len = c.written

\* The FIN follows the last byte that was sent (tcp.c:222, 511): the peer gets all
\* of them before it.
FinFollowsData ==
    c.fin = 1 =>
        /\ state # "ESTABLISHED"
        /\ c.end = c.sent % S
        /\ c.next_seq = (c.base + c.end + 1) % S
        /\ c.segment.first + c.segment.len <= c.sent

\* What goes out under a sequence number is the byte of the stream with that
\* number (tcp.c:175-179, 197), whatever was acknowledged, moved or cut before,
\* and the FIN has the number behind the last of them: until a segment is made
\* with W or more bytes in flight, or after the FIN (tcp.c:274).
NumbersMatchBytes ==
    ~ c.broken =>
        /\ c.segment.at = c.segment.first % S
        /\ c.segment.first + c.segment.len <= c.written
        /\ FinFollowsData

\* tcp.c:76 says that the data moves to the front of rx_buf when it reaches the
\* end.  It never does, tcp_connect_read only moves it on (tcp.c:244); but no
\* connection writes behind the array before Room bytes have come, in whatever
\* pieces they come and are read.
WildOnlyPastRoom == c.wild => c.acked > Room

\* The application sees two streams, module ByteStream: whatever the peer
\* acknowledges and however the numbers wrap, every byte it writes leaves once and
\* in order, no byte is dropped from tx_buf before it left, and every byte
\* acknowledged to the peer can be read, as long as fewer than Room came.  What was
\* read is what the start of rx_buf moved by.
Stream == INSTANCE ByteStream WITH
    written <- c.written, sent <- c.sent, forgotten <- c.dropped,
    window <- c.remote_win, segment <- c.segment, closed <- c.fin = 1,
    received <- c.acked, read <- c.rx.data - Start, unread <- c.rx.len,
    broken <- c.broken
ImplementsStream == Stream!Spec

\* docs/HTTP (line 9): calling tcp_connect_write in a loop until all data is
\* written ends.
AllIsWritten == <>(c.written = TxTotal)
=============================================================================
