------------------------------- MODULE MCTcp -------------------------------
(* Small instances of Tcp for TLC.                                          *)
EXTENDS Tcp, TLC

CONSTANTS r1, r2, p1, p2

\* Peers are interchangeable, and so are the functions the applications register.
PeerSymmetry == Permutations(RemotePort) \cup Permutations(Handler)

\* One segment per way through tcp_in: the flags that take it, and no other.
Seg(flags, in_seq, data) == [flags |-> flags, in_seq |-> in_seq, data |-> data]
Segments == {
    Seg({"syn"}, FALSE, FALSE),
    Seg({"rst"}, TRUE, FALSE),
    Seg({"rst"}, FALSE, FALSE),
    Seg({}, TRUE, TRUE),
    Seg({"ack"}, TRUE, FALSE),
    Seg({"ack"}, TRUE, TRUE),
    Seg({"ack"}, FALSE, TRUE),
    Seg({"fin"}, TRUE, FALSE),
    Seg({"ack", "fin"}, TRUE, TRUE)}

=============================================================================
