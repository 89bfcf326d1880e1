----------------------------- MODULE HttpServer -----------------------------
(* src/http.c on top of the connection table of Tcp, driven by the loop of  *)
(* main.c: net_poll, then http_server_run, for ever.  There is one thread,  *)
(* but http_server_run calls net_poll itself whenever it waits for a        *)
(* request or for room to write, so segments of any peer are handled, and   *)
(* connections released, while the server is in the middle of a request.    *)
(* The queue and the server hold pointers to slots of connect_table.        *)
(*                                                                          *)
(* The text of a request is abstracted to what the server tells apart: a    *)
(* piece with a GET, a piece without, and the end of the line.              *)
EXTENDS Tcp, FiniteSets

CONSTANTS
    FifoSize,    \* TCP_FIFO_SIZE
    Arriving,    \* the pieces considered, of Piece
    LineMax,     \* size of rx_buffer: pieces get_line takes at most
    RxMax,       \* bound: pieces a peer has in its rx_buf at most
    RxBusy,      \* bound: peers that have pieces in their rx_buf at a time
    Response,    \* bound: calls of tcp_connect_write that a response takes at most
    Patient      \* TRUE: peers send nothing unexpected and let the server close

ASSUME FifoAssumption == FifoSize \in Nat \ {0}
ASSUME LineAssumption == LineMax \in Nat /\ RxMax \in Nat /\ RxBusy \in Nat /\ Response \in Nat
ASSUME PatientAssumption == Patient \in BOOLEAN

VARIABLES
    buffer, front, tail, count,   \* http_fifo_v
    pc,       \* what main or http_server_run does next
    cur,      \* the connection being served, or Free
    line,     \* what get_line has put into rx_buffer
    left,     \* calls of tcp_connect_write the response still needs
    rx        \* rx[s]: the pieces waiting in the rx_buf of slot s

fifo == <<buffer, front, tail, count>>
serving == <<cur, line, left>>
httpVars == <<vars, buffer, front, tail, count, pc, cur, line, left, rx>>

Piece == {"get", "text", "eol"}
ASSUME ArrivingAssumption == Arriving \subseteq Piece

Place == {"open", "main_poll", "fifo_out", "get_line", "line_poll", "send", "send_poll", "close"}

\* A queued pointer; key is not in the code, it is the peer the pointer meant
\* when it was queued.
Pointer == [conn : Slot, key : Key]

ASSUME NoPointerAssumption == Free \notin Pointer

NoLine == [len |-> 0, get |-> FALSE]

HttpInit ==
    /\ Init
    /\ buffer = [i \in 0 .. FifoSize - 1 |-> Free]
    /\ front = 0 /\ tail = 0 /\ count = 0
    /\ pc = "open"
    /\ cur = Free
    /\ line = NoLine
    /\ left = 0
    /\ rx = [s \in Slot |-> <<>>]

-----------------------------------------------------------------------------
(* The ring buffer of connections to serve.                                 *)

\* Mutant: wraps one too late.
WrapLate(i) == IF i + 1 > FifoSize THEN 0 ELSE i + 1

Wrap(i) == IF i + 1 >= FifoSize THEN 0 ELSE i + 1

\* Mutants: full one too early; the wrong end.
FullEarly(p) ==
    IF count + 1 >= FifoSize
    THEN UNCHANGED fifo
    ELSE /\ buffer' = [buffer EXCEPT ![front] = p]
         /\ front' = Wrap(front)
         /\ count' = count + 1
         /\ UNCHANGED tail
InAtTail(p) ==
    IF count >= FifoSize
    THEN UNCHANGED fifo
    ELSE /\ buffer' = [buffer EXCEPT ![tail] = p]
         /\ front' = Wrap(front)
         /\ count' = count + 1
         /\ UNCHANGED tail

\* http_fifo_in: a full queue returns -1, which http_handler ignores.
http_fifo_in(p) ==
    IF count >= FifoSize
    THEN UNCHANGED fifo
    ELSE /\ buffer' = [buffer EXCEPT ![front] = p]
         /\ front' = Wrap(front)
         /\ count' = count + 1
         /\ UNCHANGED tail

\* Mutant: the tail does not move.
OutWithoutTail ==
    /\ count > 0
    /\ count' = count - 1
    /\ UNCHANGED <<buffer, front, tail>>

http_fifo_out ==
    /\ count > 0
    /\ tail' = Wrap(tail)
    /\ count' = count - 1
    /\ UNCHANGED <<buffer, front>>

-----------------------------------------------------------------------------
(* One net_poll: nothing has arrived, or one segment goes through tcp_in,   *)
(* which may call http_handler and fills or resets the rx_buf.              *)

Accepts(k, seg, s) ==
    /\ connect_table[s] = k
    /\ connect[s].state = "ESTABLISHED"
    /\ seg.in_seq /\ "rst" \notin seg.flags
    /\ seg.flags \cap {"ack", "fin"} # {}
    /\ seg.data

\* A patient peer sends a SYN first, then only what the server expects, and no
\* FIN before the server's.
Behaves(k, seg) ==
    /\ "rst" \notin seg.flags
    /\ (\E s \in Slot : connect_table[s] = k) => seg.in_seq /\ "syn" \notin seg.flags
    /\ (\A s \in Slot : connect_table[s] # k) => "syn" \in seg.flags
    /\ InState(k, {"SYN_RCVD", "ESTABLISHED"}) => "fin" \notin seg.flags

\* http_handler: a new connection is queued, nothing is done on the other events.
http_handler ==
    IF called' # Free /\ called'.event = "CONNECTED"
    THEN http_fifo_in([conn |-> called'.conn, key |-> called'.key])
    ELSE UNCHANGED fifo

Receive(k, seg, piece) ==
    /\ Patient => Behaves(k, seg)
    /\ \A s \in Slot : Accepts(k, seg, s) =>
         Len(rx[s]) < RxMax /\ Cardinality({t \in Slot \ {s} : rx[t] # <<>>}) < RxBusy
    /\ tcp_in(k, seg)
    /\ rx' = [s \in Slot |->
                IF bufs'[s] # bufs[s] THEN <<>>
                ELSE IF Accepts(k, seg, s) THEN Append(rx[s], piece)
                ELSE rx[s]]
    /\ http_handler

net_poll ==
    \/ UNCHANGED <<vars, fifo, rx>>
    \/ \E k \in Key, seg \in Segment :
         \E piece \in IF seg.data THEN Arriving ELSE {"eol"} : Receive(k, seg, piece)

-----------------------------------------------------------------------------
(* main                                                                     *)

\* http_server_open: tcp_open returns 0 and so the queue is left as it is,
\* zeroed like every static variable.
http_server_open ==
    /\ pc = "open"
    /\ \E p \in LocalPort, f \in Handler : tcp_open(p, f)
    /\ pc' = "main_poll"
    /\ UNCHANGED <<fifo, serving, rx>>

MainPoll ==
    /\ pc = "main_poll" /\ running
    /\ net_poll
    /\ pc' = "fifo_out"
    /\ UNCHANGED serving

-----------------------------------------------------------------------------
(* http_server_run                                                          *)

NothingQueued ==
    /\ pc = "fifo_out" /\ running
    /\ count = 0
    /\ pc' = "main_poll"
    /\ UNCHANGED <<vars, fifo, serving, rx>>

TakeNext ==
    /\ pc = "fifo_out" /\ running
    /\ http_fifo_out
    /\ cur' = buffer[tail]
    /\ pc' = "get_line"
    /\ UNCHANGED <<vars, line, left, rx>>

\* The buffers the pointer leads to are still those of a live connection.
Allocated(p) == connect[p.conn].state # "LISTEN"

\* What tcp_connect_read finds: the next piece, or nothing.  Buffers that were
\* freed hold anything.
Readable == IF Allocated(cur) THEN {IF rx[cur.conn] = <<>> THEN "none" ELSE Head(rx[cur.conn])}
                              ELSE Piece \cup {"none"}

\* The end of get_line: no line, no GET, or a request to answer in n writes
\* (none for an empty path).
LineEnds(l) ==
    \/ /\ l.len = 0 \/ ~ l.get
       /\ pc' = "close"
       /\ UNCHANGED left
    \/ /\ l.len > 0 /\ l.get
       /\ \E n \in 0 .. Response :
            /\ left' = n
            /\ pc' = IF n = 0 THEN "close" ELSE "send"

\* One turn of the loop in get_line, up to its net_poll.
GetLine ==
    /\ pc = "get_line" /\ running
    /\ line.len < LineMax
    /\ \E c \in Readable :
         /\ rx' = IF c # "none" /\ Allocated(cur) THEN [rx EXCEPT ![cur.conn] = Tail(@)] ELSE rx
         /\ \/ c = "eol" /\ LineEnds(line) /\ UNCHANGED line
            \/ c \in {"get", "text"} /\ line' = [len |-> line.len + 1, get |-> line.get \/ c = "get"]
                                     /\ pc' = "line_poll" /\ UNCHANGED left
            \/ c = "none" /\ pc' = "line_poll" /\ UNCHANGED <<line, left>>
    /\ UNCHANGED <<vars, fifo, cur>>

\* rx_buffer is full.
LineFull ==
    /\ pc = "get_line" /\ running
    /\ line.len >= LineMax
    /\ LineEnds(line)
    /\ UNCHANGED <<vars, fifo, cur, line, rx>>

LinePoll ==
    /\ pc = "line_poll" /\ running
    /\ net_poll
    /\ pc' = "get_line"
    /\ UNCHANGED serving

\* One turn of the loop in http_send: the window has room, or it has not.
SendTaken ==
    /\ pc = "send" /\ running
    /\ left > 0
    /\ left' = left - 1
    /\ pc' = "send_poll"
    /\ UNCHANGED <<vars, fifo, cur, line, rx>>

SendRefused ==
    /\ pc = "send" /\ running
    /\ left > 0
    /\ pc' = "send_poll"
    /\ UNCHANGED <<vars, fifo, serving, rx>>

SendPoll ==
    /\ pc = "send_poll" /\ running
    /\ net_poll
    /\ pc' = IF left = 0 THEN "close" ELSE "send"
    /\ UNCHANGED serving

\* close_http, wherever the pointer leads to by now.
close_http ==
    /\ pc = "close"
    /\ tcp_connect_close(cur.conn)
    /\ cur' = Free /\ line' = NoLine /\ left' = 0
    /\ pc' = "fifo_out"
    /\ UNCHANGED <<fifo, rx>>

http_server_run ==
    \/ NothingQueued \/ TakeNext
    \/ GetLine \/ LineFull \/ LinePoll
    \/ SendTaken \/ SendRefused \/ SendPoll
    \/ close_http

HttpNext == http_server_open \/ MainPoll \/ http_server_run

HttpSpec == HttpInit /\ [][HttpNext]_httpVars

-----------------------------------------------------------------------------
(* Properties.                                                              *)

HttpTypeOK ==
    /\ buffer \in [0 .. FifoSize - 1 -> Pointer \cup {Free}]
    /\ front \in 0 .. FifoSize - 1
    /\ tail \in 0 .. FifoSize - 1
    /\ count \in 0 .. FifoSize
    /\ pc \in Place
    /\ cur \in Pointer \cup {Free}
    /\ line \in [len : 0 .. LineMax, get : BOOLEAN]
    /\ left \in 0 .. Response
    /\ rx \in [Slot -> Seq(Piece)]

\* The queued pointers, the next one to serve first.
Waiting == [i \in 1 .. count |-> buffer[(tail + i - 1) % FifoSize]]

InOrder ==
    \/ Waiting' = Waiting
    \/ \E p \in Pointer : Waiting' = Append(Waiting, p)
    \/ Waiting # <<>> /\ cur' = Head(Waiting) /\ Waiting' = Tail(Waiting)

\* http.c:7-46: the ring hands out the connections in the order they came in,
\* none twice and none skipped, while net_poll adds to it inside a request.
FirstComeFirstServed == [][InOrder]_httpVars

InService == {Waiting[i].conn : i \in 1 .. count} \cup (IF cur = Free THEN {} ELSE {cur.conn})

HeldOnce ==
    /\ \A i, j \in 1 .. count : Waiting[i].conn = Waiting[j].conn => i = j
    /\ cur # Free => \A i \in 1 .. count : Waiting[i].conn # cur.conn

Established(s) == connect_table[s] # Free /\ connect[s].state = "ESTABLISHED"
Forgotten(s) == Established(s) /\ s \notin InService

\* http.c:176, 197: a connection that was accepted waits in the queue or is being
\* served until it is closed, once, however many others are accepted inside its
\* request.  The only one that is never served is one that was accepted at a
\* moment when the ring was full: http_handler ignores the -1 of http_fifo_in.
NobodyIsForgotten ==
    /\ []HeldOnce
    /\ [][\A s \in Slot : Forgotten(s)' => Forgotten(s) \/ (~ Established(s) /\ count >= FifoSize)]_httpVars

\* tcp.h:63-65: the other fields of a connection in LISTEN are not valid.  The
\* server works on the buffers of the connection it took from the queue, so
\* that one must still be there, and be the same peer's.
ServesLiveConnection ==
    cur # Free => connect_table[cur.conn] = cur.key /\ connect[cur.conn].state # "LISTEN"
=============================================================================
