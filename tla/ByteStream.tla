----------------------------- MODULE ByteStream -----------------------------
(* What an application relies on when it calls tcp_connect_write and        *)
(* tcp_connect_read: two streams of bytes, counted from 0.  A step is a     *)
(* call of tcp.h or a segment that arrives, with what is sent in answer.    *)
EXTENDS Integers

CONSTANTS
    S,              \* sequence numbers wrap here
    W,              \* bytes in flight are counted up to here
    Room            \* bytes received that are kept for certain, and one more

VARIABLES
    written,        \* bytes the application has written
    sent,           \* of these, bytes that have left
    forgotten,      \* of these, bytes that are not kept any longer
    window,         \* bytes that fit into one segment, for the peer
    segment,        \* the last segment with data: its number, its bytes
    closed,         \* whether the end of the stream was sent
    received,       \* bytes the peer was told have arrived
    read, unread,   \* of these, bytes the application has, and can have
    broken          \* TRUE: nothing is promised any more of what leaves

vars == <<written, sent, forgotten, window, segment, closed, received, read, unread, broken>>

Init ==
    /\ written = 0 /\ sent = 0 /\ forgotten = 0
    /\ window \in Nat
    /\ segment = [at |-> 0, first |-> 0, len |-> 0]
    /\ closed = FALSE
    /\ received = 0 /\ read = 0 /\ unread = 0
    /\ broken = FALSE

\* Bytes are added at the end, and only what has left is forgotten.
Write == written' >= written
Forget == forgotten' \in forgotten .. sent

\* The bytes that leave are the next ones, each once, under their own number, and
\* none behind the end.
Silent == UNCHANGED <<sent, segment>>
Send ==
    /\ ~ closed
    /\ sent' \in sent + 1 .. written' /\ sent' - sent <= window
    /\ segment' = [at |-> sent % S, first |-> sent, len |-> sent' - sent]

\* The promise ends where a segment is made with W or more bytes in flight, or
\* behind the end of the stream.
Break == broken \/ closed \/ sent - forgotten >= W

\* What was read is read once, and nothing arrives after the end.  While fewer than
\* Room bytes came, all that the peer was told have arrived can be read.
Receive == received' >= received /\ (closed => received' = received)
Read ==
    /\ read' >= read /\ read' + unread' <= received'
    /\ received' < Room => read' + unread' = received'

Next ==
    /\ Write /\ Receive /\ Read
    /\ \/ ~ broken /\ ~ broken' /\ Forget /\ (Silent \/ Send)
       \/ Break /\ broken'
    /\ closed => closed'
    /\ UNCHANGED window

Spec == Init /\ [][Next]_vars
=============================================================================
