----------------------------- MODULE TcpService -----------------------------
(* What the TCP server promises its applications about each connection,     *)
(* with no tables, slots or buffers: a life cycle per peer, and news that   *)
(* come in the order of that life cycle.                                    *)
CONSTANTS Conn,      \* the connections a peer may ask for
          Groups,    \* sets of connections that may end together
          Nothing    \* no news

VARIABLES phase,     \* phase[c]: where connection c is in its life
          news       \* the last callback, or Nothing

vars == <<phase, news>>

Phase == {"none", "handshake", "open", "peer_closed", "app_closed"}
News == [conn : Conn, event : {"CONNECTED", "DATA_RECV", "CLOSED"}]

Init == phase = [c \in Conn |-> "none"] /\ news = Nothing

\* c goes from one phase to the next and the application hears n.
Move(c, from, to, n) ==
    /\ phase[c] = from
    /\ phase' = [phase EXCEPT ![c] = to]
    /\ news' = n

Tell(c, event) == [conn |-> c, event |-> event]

Request(c)     == Move(c, "none", "handshake", Nothing)
Opened(c)      == Move(c, "handshake", "open", Tell(c, "CONNECTED"))
Data(c)        == Move(c, "open", "open", Tell(c, "DATA_RECV"))
PeerCloses(c)  == Move(c, "open", "peer_closed", Nothing)
AppCloses(c)   == Move(c, "open", "app_closed", Nothing)
PeerIsDone(c)  == Move(c, "peer_closed", "none", Tell(c, "CLOSED"))

\* A reset, the end of a close of this side, or a port that is closed: the
\* application is not told.
Dropped(D) ==
    /\ phase' = [c \in Conn |-> IF c \in D THEN "none" ELSE phase[c]]
    /\ news' = Nothing

\* Neither the peer nor the application notices.
Quiet == UNCHANGED phase /\ news' = Nothing

Next ==
    \/ \E c \in Conn :
         \/ Request(c) \/ Opened(c) \/ Data(c)
         \/ PeerCloses(c) \/ AppCloses(c) \/ PeerIsDone(c)
         \/ Dropped({c})
    \/ \E D \in Groups : Dropped(D)
    \/ Quiet

Spec == Init /\ [][Next]_vars
=============================================================================
