-------------------------------- MODULE Tcp --------------------------------
(* The connection table of src/tcp.c: which connections the server knows,   *)
(* in which state each of them is, who owns their two heap buffers, and     *)
(* what one call of tcp_in does to all of this.                             *)
(*                                                                          *)
(* Sequence numbers, windows and payloads are abstracted: an incoming       *)
(* segment either carries the expected sequence number or not, and either   *)
(* has a payload or not (TcpStream models the numbers and the bytes).       *)
(* Segments that fail the length test or the checksum never get here.       *)
(* The two maps are modelled slot by slot, because pointers into their      *)
(* slots are kept by the code (connect->handler, and the applications'      *)
(* tcp_connect_t pointers) and outlive the entry they were taken from.      *)
EXTENDS Integers, Sequences

CONSTANTS
    Ip,          \* addresses of the peers
    RemotePort,  \* ports of the peers
    LocalPort,   \* ports an application may open here
    Closable,    \* the ones it may also close with tcp_close
    Handler,     \* callback functions of the applications
    ConnMax,     \* capacity of connect_table
    PortMax,     \* capacity of tcp_table
    Segment,     \* the segments considered, see SegmentType
    Careful,     \* TRUE: no application closes a connection its peer has replaced
    LeakMax,     \* bound: buffer pairs lost in one slot before the next such close
    Free,        \* marks a slot of a map that holds no valid entry
    Zero         \* what memset(connect, 0, ...) leaves in a field

Key  == [ip : Ip, src_port : RemotePort, dst_port : LocalPort]
Slot == 1 .. ConnMax
PortSlot == 1 .. PortMax

Flag == {"syn", "ack", "fin", "rst"}
SegmentType == [flags : SUBSET Flag, in_seq : BOOLEAN, data : BOOLEAN]

ASSUME CapacityAssumption == ConnMax \in Nat /\ PortMax \in Nat
ASSUME SegmentAssumption == Segment \subseteq SegmentType
ASSUME CarefulAssumption == Careful \in BOOLEAN /\ LeakMax \in Nat
ASSUME ClosableAssumption == Closable \subseteq LocalPort
ASSUME FreeAssumption ==
    /\ Free \notin [ip : Ip \cup {Zero}, src_port : RemotePort \cup {Zero},
                   dst_port : LocalPort \cup {Zero}]
    /\ Free \notin LocalPort
ASSUME ZeroAssumption ==
    /\ Zero \notin Ip
    /\ Zero \notin RemotePort \cup LocalPort
    /\ Zero \notin Handler
    /\ Zero \notin PortSlot

VARIABLES
    tcp_table,      \* tcp_table[i]: the port registered in slot i, or Free
    handlers,       \* the handler stored in slot i; kept when the slot is freed
    connect_table,  \* connect_table[s]: the key stored in slot s, or Free
    connect,        \* the tcp_connect_t in slot s; kept when the slot is freed
    bufs,           \* rx/tx buffer pairs allocated for slot s and not yet freed
    sent,           \* the segments the last call sent, in order
    called,         \* the application callback the last call made, or Free
    from,           \* whose segment the last call handled; Free: an application's call
    given,          \* the slots whose address a callback has given to an application
    running         \* FALSE once an Assert has stopped the program

vars == <<tcp_table, handlers, connect_table, connect, bufs, sent, called, from, given, running>>

-----------------------------------------------------------------------------
(* The struct tcp_connect_t, without its sequence numbers and windows.      *)
State == {"LISTEN", "SYN_RCVD", "ESTABLISHED", "LAST_ACK", "FIN_WAIT_1", "FIN_WAIT_2"}
Connect == [state       : State,
            local_port  : LocalPort \cup {Zero},
            remote_port : RemotePort \cup {Zero},
            ip          : Ip \cup {Zero},
            handler     : PortSlot \cup {Zero}]

\* A slot of a map nothing was ever stored in.
Blank == [state |-> "LISTEN", local_port |-> Zero, remote_port |-> Zero,
          ip |-> Zero, handler |-> Zero]

\* Mutants: the address is not copied; the first registered handler is taken.
NewWithoutIp(k, h) == [Blank EXCEPT !.handler = h]
NewWithFirstHandler(k, h) == [Blank EXCEPT !.ip = k.ip, !.handler = 1]

\* What tcp_in stores for a key it does not know; the ports stay zero.
NewConnect(k, h) == [Blank EXCEPT !.ip = k.ip, !.handler = h]

\* The key tcp_connect_close builds from the fields of the connection.
new_tcp_key(c) == [ip |-> c.ip, src_port |-> c.remote_port, dst_port |-> c.local_port]

Event == {"CONNECTED", "DATA_RECV", "CLOSED"}
Packet == [ip       : Ip \cup {Zero},
           src_port : LocalPort \cup {Zero},
           dst_port : RemotePort \cup {Zero},
           flags    : SUBSET Flag]
Call == [conn : Slot, key : Key, event : Event, handler : Handler \cup {Zero}]

ASSUME NoCallAssumption == Free \notin Call

tcp_send(c, flags) ==
    [ip |-> c.ip, src_port |-> c.local_port, dst_port |-> c.remote_port, flags |-> flags]

\* A call of the function that slot h of tcp_table holds at this moment.
Callback(s, k, event, h) ==
    [conn |-> s, key |-> k, event |-> event,
     handler |-> IF h = Zero THEN Zero ELSE handlers[h]]

-----------------------------------------------------------------------------
(* map.c as the two tables use it: no timeout, first matching slot.         *)
FirstFree(t, i) == t[i] = Free /\ \A j \in 1 .. (i - 1) : t[j] # Free
map_get(t, k, i) == t[i] = k /\ \A j \in 1 .. (i - 1) : t[j] # k
Known(t, k) == \E i \in DOMAIN t : t[i] = k
\* Mutant: keys compared by address only.
DeleteByIp(t, k) == [i \in DOMAIN t |-> IF t[i] # Free /\ t[i].ip = k.ip THEN Free ELSE t[i]]
map_delete(t, k) == [i \in DOMAIN t |-> IF map_get(t, k, i) THEN Free ELSE t[i]]

\* Mutant: inserts without having looked.
InsertBlindly(t, k, i) == map_get(t, k, i) \/ FirstFree(t, i)

\* The slot a lookup followed, if need be, by an insertion ends in.
Lookup(t, k, i) == map_get(t, k, i) \/ (~ Known(t, k) /\ FirstFree(t, i))

-----------------------------------------------------------------------------
Init ==
    /\ tcp_table = [i \in PortSlot |-> Free]
    /\ handlers = [i \in PortSlot |-> Zero]
    /\ connect_table = [s \in Slot |-> Free]
    /\ connect = [s \in Slot |-> Blank]
    /\ bufs = [s \in Slot |-> 0]
    /\ sent = <<>>
    /\ called = Free
    /\ from = Free
    /\ given = {}
    /\ running = TRUE

-----------------------------------------------------------------------------
(* Calls of the applications.                                               *)

\* tcp_open: register a handler, or replace the one the port has.
tcp_open(p, f) ==
    /\ running
    /\ \E i \in PortSlot :
         /\ Lookup(tcp_table, p, i)
         /\ tcp_table' = [tcp_table EXCEPT ![i] = p]
         /\ handlers' = [handlers EXCEPT ![i] = f]
    /\ sent' = <<>>
    /\ called' = Free
    /\ from' = Free
    /\ UNCHANGED <<connect_table, connect, bufs, given, running>>

\* Mutants: a state the program has no buffers for; the state is not reset; the
\* buffers are freed in any state.
ReleaseToClosed(c) == [c EXCEPT !.state = "CLOSED"]
ReleaseWithoutReset(c) == c
FreedAlways(c) == 1

\* release_tcp_connect on the struct c: nothing is freed in state LISTEN.
release_tcp_connect(c) == [c EXCEPT !.state = "LISTEN"]
Freed(c) == IF c.state = "LISTEN" THEN 0 ELSE 1

\* Mutant: the port is forgotten, its connections are not.
ClosePortOnly(p) ==
    /\ running
    /\ tcp_table' = map_delete(tcp_table, p)
    /\ sent' = <<>>
    /\ called' = Free
    /\ from' = Free
    /\ UNCHANGED <<handlers, connect_table, connect, bufs, given, running>>

\* tcp_close: release every connection of the port, forget the port.
\* The entries stay in connect_table.
tcp_close(p) ==
    /\ running
    /\ LET hit(s) == connect_table[s] # Free /\ connect_table[s].dst_port = p IN
         /\ connect' = [s \in Slot |->
                          IF hit(s) THEN release_tcp_connect(connect[s]) ELSE connect[s]]
         /\ bufs' = [s \in Slot |-> IF hit(s) THEN bufs[s] - Freed(connect[s]) ELSE bufs[s]]
    /\ tcp_table' = map_delete(tcp_table, p)
    /\ sent' = <<>>
    /\ called' = Free
    /\ from' = Free
    /\ UNCHANGED <<handlers, connect_table, given, running>>

\* tcp_connect_close in state ESTABLISHED: FIN, with what is left to send.
CloseEstablished(s) ==
    /\ connect[s].state = "ESTABLISHED"
    /\ connect' = [connect EXCEPT ![s].state = "FIN_WAIT_1"]
    /\ sent' = <<tcp_send(connect[s], {"ack", "fin"})>>
    /\ UNCHANGED <<connect_table, bufs>>

\* tcp_connect_close in any other state: free it and forget its own key.
CloseOther(s) ==
    /\ connect[s].state # "ESTABLISHED"
    /\ connect' = [connect EXCEPT ![s] = release_tcp_connect(@)]
    /\ bufs' = [bufs EXCEPT ![s] = @ - Freed(connect[s])]
    /\ connect_table' = map_delete(connect_table, new_tcp_key(connect[s]))
    /\ sent' = <<>>

tcp_connect_close(s) ==
    /\ running
    /\ CloseEstablished(s) \/ CloseOther(s)
    /\ called' = Free
    /\ from' = Free
    /\ UNCHANGED <<tcp_table, handlers, given, running>>

\* The connection in s is gone, and its peer has come back in another slot: the
\* key that tcp_connect_close builds from what is left in s is the key of that one.
Strays(s) ==
    /\ connect[s].state = "LISTEN"
    /\ \E t \in Slot : /\ connect_table[t] = new_tcp_key(connect[s])
                       /\ connect[t].state # "LISTEN"

\* An application closes a connection it was given at some time.  It is not told
\* when that one is reset or released (only LAST_ACK ends with a callback), so
\* the slot may hold anything by now.
AppClose(s) ==
    /\ s \in given
    /\ Strays(s) => ~ Careful /\ \A t \in Slot : bufs[t] <= LeakMax
    /\ tcp_connect_close(s)

-----------------------------------------------------------------------------
(* tcp_in, for the segment seg of the connection k = (ip, source port,      *)
(* destination port): one action per way through the handler.  In each of   *)
(* them h is the slot of tcp_table the destination port was found in and s  *)
(* the slot of connect_table the connection was found in or put into.       *)

Arrives(k, h, s) ==
    /\ running
    /\ map_get(tcp_table, k.dst_port, h)
    /\ Lookup(connect_table, k, s)

Entry(k, h, s) == IF connect_table[s] = k THEN connect[s] ELSE NewConnect(k, h)

\* The states other than LISTEN, in which the entry is never a new one.
In(k, h, s, state) ==
    /\ Arrives(k, h, s)
    /\ connect_table[s] = k
    /\ connect[s].state = state

\* The label reset_tcp: answer with RST, release, forget the key.
ResetConn(s, c, before) ==
    /\ connect' = [connect EXCEPT ![s] = release_tcp_connect(c)]
    /\ bufs' = [bufs EXCEPT ![s] = @ - Freed(c)]
    /\ sent' = before \o <<tcp_send(c, {"ack", "rst"})>>

\* No application listens on the port: dropped.
NoHandler(k) ==
    /\ running
    /\ ~ Known(tcp_table, k.dst_port)
    /\ sent' = <<>>
    /\ called' = Free
    /\ UNCHANGED <<tcp_table, handlers, connect_table, connect, bufs, running>>

\* A new connection and no room for it: the Assert around map_set fails.
NoRoom(k) ==
    /\ running
    /\ Known(tcp_table, k.dst_port)
    /\ ~ Known(connect_table, k)
    /\ ~ Known(connect_table, Free)
    /\ running' = FALSE
    /\ sent' = <<>>
    /\ called' = Free
    /\ UNCHANGED <<tcp_table, handlers, connect_table, connect, bufs>>

\* RST as the first segment: tcp_connect_close on an entry in state LISTEN.
ListenRst(k, seg, h, s) ==
    /\ Arrives(k, h, s)
    /\ "rst" \in seg.flags
    /\ LET c == Entry(k, h, s) IN
         /\ c.state = "LISTEN"
         /\ connect' = [connect EXCEPT ![s] = c]
         /\ connect_table' = map_delete([connect_table EXCEPT ![s] = k], new_tcp_key(c))
    /\ sent' = <<>>
    /\ called' = Free
    /\ UNCHANGED <<tcp_table, handlers, bufs, running>>

\* Anything else that is no SYN as the first segment.
ListenReset(k, seg, h, s) ==
    /\ Arrives(k, h, s)
    /\ seg.flags \cap {"rst", "syn"} = {}
    /\ Entry(k, h, s).state = "LISTEN"
    /\ ResetConn(s, Entry(k, h, s), <<>>)
    /\ connect_table' = map_delete([connect_table EXCEPT ![s] = k], k)
    /\ called' = Free
    /\ UNCHANGED <<tcp_table, handlers, running>>

\* SYN: init_tcp_connect_rcvd, fill in the entry, answer SYN+ACK.
ListenSyn(k, seg, h, s) ==
    /\ Arrives(k, h, s)
    /\ "rst" \notin seg.flags
    /\ "syn" \in seg.flags
    /\ Entry(k, h, s).state = "LISTEN"
    /\ LET c == [Entry(k, h, s) EXCEPT !.state = "SYN_RCVD", !.local_port = k.dst_port,
                                       !.remote_port = k.src_port, !.ip = k.ip] IN
         /\ connect' = [connect EXCEPT ![s] = c]
         /\ sent' = <<tcp_send(c, {"ack", "syn"})>>
    /\ connect_table' = [connect_table EXCEPT ![s] = k]
    /\ bufs' = [bufs EXCEPT ![s] = @ + 1]
    /\ called' = Free
    /\ UNCHANGED <<tcp_table, handlers, running>>

\* Not the expected sequence number, in any state but LISTEN.
OutOfSeq(k, seg, h, s) ==
    /\ \E state \in State \ {"LISTEN"} : In(k, h, s, state)
    /\ ~ seg.in_seq
    /\ ResetConn(s, connect[s], <<>>)
    /\ connect_table' = map_delete(connect_table, k)
    /\ called' = Free
    /\ UNCHANGED <<tcp_table, handlers, running>>

\* RST in an established connection: tcp_connect_close sends a FIN, and then
\* reset_tcp answers the RST with a RST.
EstablishedRst(k, seg, h, s) ==
    /\ In(k, h, s, "ESTABLISHED")
    /\ seg.in_seq /\ "rst" \in seg.flags
    /\ ResetConn(s, connect[s], <<tcp_send(connect[s], {"ack", "fin"})>>)
    /\ connect_table' = map_delete(connect_table, k)
    /\ called' = Free
    /\ UNCHANGED <<tcp_table, handlers, running>>

\* RST in the other states: tcp_connect_close releases the connection and
\* deletes its entry, reset_tcp finds it in state LISTEN and answers with RST.
OtherRst(k, seg, h, s) ==
    /\ \E state \in State \ {"LISTEN", "ESTABLISHED"} : In(k, h, s, state)
    /\ seg.in_seq /\ "rst" \in seg.flags
    /\ ResetConn(s, connect[s], <<>>)
    /\ connect_table' = map_delete(map_delete(connect_table, new_tcp_key(connect[s])), k)
    /\ called' = Free
    /\ UNCHANGED <<tcp_table, handlers, running>>

\* The switch is reached: the expected number and no RST.
Switch(k, seg, h, s, state) ==
    /\ In(k, h, s, state)
    /\ seg.in_seq
    /\ "rst" \notin seg.flags

\* Mutant: the application is told, the state stays.
CalledWithoutState(k, seg, h, s) ==
    /\ Switch(k, seg, h, s, "SYN_RCVD")
    /\ "ack" \in seg.flags
    /\ called' = Callback(s, k, "CONNECTED", connect[s].handler)
    /\ sent' = <<>>
    /\ UNCHANGED <<tcp_table, handlers, connect_table, connect, bufs, running>>

\* The last ACK of the handshake.
SynRcvdAck(k, seg, h, s) ==
    /\ Switch(k, seg, h, s, "SYN_RCVD")
    /\ "ack" \in seg.flags
    /\ connect' = [connect EXCEPT ![s].state = "ESTABLISHED"]
    /\ called' = Callback(s, k, "CONNECTED", connect[s].handler)
    /\ sent' = <<>>
    /\ UNCHANGED <<tcp_table, handlers, connect_table, bufs, running>>

\* The peer closes: no CLOSE_WAIT, the FIN of this side goes out at once.
EstablishedFin(k, seg, h, s) ==
    /\ Switch(k, seg, h, s, "ESTABLISHED")
    /\ "fin" \in seg.flags
    /\ connect' = [connect EXCEPT ![s].state = "LAST_ACK"]
    /\ sent' = <<tcp_send(connect[s], {"ack", "fin"})>>
    /\ called' = Free
    /\ UNCHANGED <<tcp_table, handlers, connect_table, bufs, running>>

\* Data: the application is called, then an ACK with its answer goes out.
EstablishedData(k, seg, h, s) ==
    /\ Switch(k, seg, h, s, "ESTABLISHED")
    /\ "ack" \in seg.flags /\ "fin" \notin seg.flags /\ seg.data
    /\ called' = Callback(s, k, "DATA_RECV", connect[s].handler)
    /\ sent' = <<tcp_send(connect[s], {"ack"})>>
    /\ UNCHANGED <<tcp_table, handlers, connect_table, connect, bufs, running>>

\* tcp_connect_close from tcp_in, in the states that follow ESTABLISHED.
CloseInTcpIn(s) ==
    /\ connect' = [connect EXCEPT ![s] = release_tcp_connect(@)]
    /\ bufs' = [bufs EXCEPT ![s] = @ - Freed(connect[s])]
    /\ connect_table' = map_delete(connect_table, new_tcp_key(connect[s]))

FinWait1FinAck(k, seg, h, s) ==
    /\ Switch(k, seg, h, s, "FIN_WAIT_1")
    /\ {"fin", "ack"} \subseteq seg.flags
    /\ CloseInTcpIn(s)
    /\ sent' = <<>>
    /\ called' = Free
    /\ UNCHANGED <<tcp_table, handlers, running>>

FinWait1Ack(k, seg, h, s) ==
    /\ Switch(k, seg, h, s, "FIN_WAIT_1")
    /\ "ack" \in seg.flags /\ "fin" \notin seg.flags
    /\ connect' = [connect EXCEPT ![s].state = "FIN_WAIT_2"]
    /\ sent' = <<>>
    /\ called' = Free
    /\ UNCHANGED <<tcp_table, handlers, connect_table, bufs, running>>

FinWait2Fin(k, seg, h, s) ==
    /\ Switch(k, seg, h, s, "FIN_WAIT_2")
    /\ "fin" \in seg.flags
    /\ CloseInTcpIn(s)
    /\ sent' = <<tcp_send(connect[s], {"ack"})>>
    /\ called' = Free
    /\ UNCHANGED <<tcp_table, handlers, running>>

\* The only close the application hears of, through the handler just looked up.
LastAckAck(k, seg, h, s) ==
    /\ Switch(k, seg, h, s, "LAST_ACK")
    /\ "ack" \in seg.flags
    /\ CloseInTcpIn(s)
    /\ called' = Callback(s, k, "CLOSED", h)
    /\ sent' = <<>>
    /\ UNCHANGED <<tcp_table, handlers, running>>

\* The segments a state leaves without an answer; a bare ACK in ESTABLISHED
\* only moves numbers.
Ignored(k, seg, h, s) ==
    /\ \/ Switch(k, seg, h, s, "SYN_RCVD") /\ "ack" \notin seg.flags
       \/ Switch(k, seg, h, s, "ESTABLISHED") /\ "fin" \notin seg.flags
                                             /\ ("ack" \in seg.flags => ~ seg.data)
       \/ Switch(k, seg, h, s, "FIN_WAIT_1") /\ "ack" \notin seg.flags
       \/ Switch(k, seg, h, s, "FIN_WAIT_2") /\ "fin" \notin seg.flags
       \/ Switch(k, seg, h, s, "LAST_ACK") /\ "ack" \notin seg.flags
    /\ sent' = <<>>
    /\ called' = Free
    /\ UNCHANGED <<tcp_table, handlers, connect_table, connect, bufs, running>>

OneSegment(k, seg, h, s) ==
    \/ ListenRst(k, seg, h, s)
    \/ ListenReset(k, seg, h, s)
    \/ ListenSyn(k, seg, h, s)
    \/ OutOfSeq(k, seg, h, s)
    \/ EstablishedRst(k, seg, h, s)
    \/ OtherRst(k, seg, h, s)
    \/ SynRcvdAck(k, seg, h, s)
    \/ EstablishedFin(k, seg, h, s)
    \/ EstablishedData(k, seg, h, s)
    \/ FinWait1FinAck(k, seg, h, s)
    \/ FinWait1Ack(k, seg, h, s)
    \/ FinWait2Fin(k, seg, h, s)
    \/ LastAckAck(k, seg, h, s)
    \/ Ignored(k, seg, h, s)

tcp_in(k, seg) ==
    /\ from' = k
    /\ \/ NoHandler(k)
       \/ NoRoom(k)
       \/ \E h \in PortSlot, s \in Slot : Arrives(k, h, s) /\ OneSegment(k, seg, h, s)
    /\ given' = IF called' = Free THEN given ELSE given \cup {called'.conn}

Next ==
    \/ \E p \in LocalPort, f \in Handler : tcp_open(p, f)
    \/ \E p \in Closable : tcp_close(p)
    \/ \E s \in Slot : AppClose(s)
    \/ \E k \in Key, seg \in Segment : tcp_in(k, seg)

Spec == Init /\ [][Next]_vars
-----------------------------------------------------------------------------
(* Properties.                                                              *)

TypeOK ==
    /\ tcp_table \in [PortSlot -> LocalPort \cup {Free}]
    /\ handlers \in [PortSlot -> Handler \cup {Zero}]
    /\ connect_table \in [Slot -> Key \cup {Free}]
    /\ connect \in [Slot -> Connect]
    /\ bufs \in [Slot -> Int]
    /\ sent \in Seq(Packet)
    /\ called \in Call \cup {Free}
    /\ from \in Key \cup {Free}
    /\ given \subseteq Slot
    /\ running \in BOOLEAN

\* Whatever the order of segments, closes and re-opened ports: a connection
\* that is not in LISTEN owns exactly one pair of buffers and a slot in LISTEN
\* owns none.  A pair leaked or freed twice breaks this: the release guard
\* (tcp.c:98) and the malloc guard (tcp.c:82) must agree, and nobody may forget
\* the entry of a connection that still has buffers (tcp.c:227-229).  So it is for
\* applications that are Careful; others lose pairs.
BufsMatchState ==
    \A s \in Slot : bufs[s] = IF connect[s].state = "LISTEN" THEN 0 ELSE 1

\* A connection that is not in LISTEN has a pair that was not freed, whatever
\* connections the applications close and however late (tcp.c:82, 98): a pair
\* may be lost, but none is freed twice or used after it was freed.
LiveHasBuffers ==
    \A s \in Slot : bufs[s] >= IF connect[s].state = "LISTEN" THEN 0 ELSE 1

\* One peer never has two entries, and a lookup is never ambiguous (map.c:71).
KeysUnique ==
    \A s, t \in Slot : connect_table[s] = connect_table[t] /\ connect_table[s] # Free => s = t

\* A connection holding buffers can always be found again under the key built
\* from its own fields: tcp_connect_close (tcp.c:227) deletes the right entry
\* and no slot that still owns buffers is handed to another peer.  Claimed for
\* Careful applications.
LiveIsKnown ==
    \A s \in Slot : connect[s].state # "LISTEN" => connect_table[s] = new_tcp_key(connect[s])

\* No connection outlives its port: tcp_close (tcp.c:145) reaches every one of
\* them, else segments for it would be dropped and its buffers kept for ever.
\* Claimed for Careful applications.
LivePortIsOpen ==
    \A s \in Slot : connect[s].state # "LISTEN" => Known(tcp_table, connect[s].local_port)

\* The fields of an entry are those of its key, or the ports are still zero
\* (tcp.c:357-358 leave them so until the SYN).
EntryFields ==
    \A s \in Slot : connect_table[s] # Free =>
        \/ new_tcp_key(connect[s]) = connect_table[s]
        \/ /\ connect[s].state = "LISTEN"
           /\ connect[s].ip = connect_table[s].ip
           /\ connect[s].local_port = Zero
           /\ connect[s].remote_port = Zero

\* The inductive invariant: what one call needs of the calls before it, and
\* what it can rely on in addition as long as no close goes astray.
TableInv == KeysUnique /\ EntryFields /\ LiveHasBuffers
OwnerInv == BufsMatchState /\ LiveIsKnown /\ LivePortIsOpen

\* The callback an application gets is the one registered for the port of the
\* connection (tcp.c:62), although the code follows a pointer into a slot of
\* tcp_table taken when the entry was made.
CallbackGoesToPort ==
    called # Free =>
        \E i \in PortSlot : /\ tcp_table[i] = called.key.dst_port
                            /\ handlers[i] = called.handler

Peer(pkt) == [ip |-> pkt.ip, src_port |-> pkt.dst_port, dst_port |-> pkt.src_port]

\* One segment in, answers only to the peer it came from: the fields an answer
\* is addressed with (tcp.c:195-196) belong to the connection looked up.  The
\* one exception is the reset of a new entry, sent before the ports are known.
AnswersSender ==
    from # Free =>
        \A i \in DOMAIN sent :
            \/ Peer(sent[i]) = from
            \/ sent[i].ip = from.ip /\ sent[i].src_port = Zero

\* What a connection is to its application, see TcpService.
InState(k, states) ==
    \E s \in Slot : connect_table[s] = k /\ connect[s].state \in states
PhaseOf(k) ==
    IF InState(k, {"SYN_RCVD"}) THEN "handshake"
    ELSE IF InState(k, {"ESTABLISHED"}) THEN "open"
    ELSE IF InState(k, {"LAST_ACK"}) THEN "peer_closed"
    ELSE IF InState(k, {"FIN_WAIT_1", "FIN_WAIT_2"}) THEN "app_closed"
    ELSE "none"

Service == INSTANCE TcpService WITH
    Conn <- Key,
    Groups <- {{k \in Key : k.dst_port = p} : p \in Closable},
    Nothing <- Free,
    phase <- [k \in Key |-> PhaseOf(k)],
    news <- IF called = Free THEN Free ELSE [conn |-> called.key, event |-> called.event]

\* The table of slots, pointers and buffers gives every peer the life cycle of
\* TcpService, as if it were the only one: no step on one connection shows on
\* another, and an application hears CONNECTED, DATA_RECV and CLOSED in order.
ImplementsService == Service!Spec
=============================================================================
