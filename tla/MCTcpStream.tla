---------------------------- MODULE MCTcpStream ----------------------------
(* Small instances of TcpStream for TLC.                                    *)
EXTENDS TcpStream

\* A window as large as uint16_t allows, one in the middle, a small one.
Windows == {W - 1, W \div 2, 2}

\* The largest window only.
FullWindow == {W - 1}

\* Bytes the peer sends: more to the echo application than rx_buf has room for
\* behind the place where its data starts.
SomeBytes == [a \in App |-> IF a = "echo" THEN Room + 2 ELSE 3]
NoBytes == [a \in App |-> 0]

\* Initial numbers in the middle of the range, so that no number wraps.
MiddleIsn == {S \div 2}

\* Initial numbers next to the end of the range too.
AnyIsn == {0, S \div 2, S - 3, S - 1}
=============================================================================
