---------------------------- MODULE MCHttpServer ----------------------------
(* Small instances of HttpServer for TLC.                                   *)
EXTENDS HttpServer, TLC

CONSTANTS r1, r2, r3, r4

\* Peers are interchangeable.
PeerSymmetry == Permutations(RemotePort)

\* Without what the last call sent and to whom, without what applications were
\* given, and without what is left in slots that hold no connection: only a close
\* of a connection that is gone would read that, and ServesLiveConnection, whose
\* operands the view keeps, says that there is none.
InUse(s) == connect_table[s] # Free \/ connect[s].state # "LISTEN"
ServerView == <<tcp_table, handlers, connect_table, bufs, running, fifo, pc, serving, rx,
                [s \in Slot |-> IF InUse(s) THEN connect[s] ELSE Blank]>>

Seg(flags, in_seq, data) == [flags |-> flags, in_seq |-> in_seq, data |-> data]

\* What peers that follow the protocol send.
PoliteSegments == {
    Seg({"syn"}, FALSE, FALSE),
    Seg({"ack"}, TRUE, FALSE),
    Seg({"ack"}, TRUE, TRUE),
    Seg({"ack", "fin"}, TRUE, FALSE)}

\* Peers that also reset, or are out of step.
RudeSegments == PoliteSegments \cup {
    Seg({"rst"}, TRUE, FALSE),
    Seg({"ack"}, FALSE, FALSE)}

=============================================================================
