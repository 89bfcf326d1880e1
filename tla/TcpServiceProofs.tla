-------------------------- MODULE TcpServiceProofs --------------------------
(* Proofs about what an application and a peer see of Tcp: who is answered, *)
(* which callback is made, and that the table of slots implements           *)
(* TcpService.  They rest on the invariant of TcpProofs.                    *)
EXTENDS TcpProofs

\* A segment sent for a connection goes to the peer in its fields (tcp.c:191).
LEMMA PeerOfPacket ==
    ASSUME NEW d, NEW fl
    PROVE  /\ Peer(tcp_send(d, fl)) = new_tcp_key(d)
           /\ tcp_send(d, fl).ip = d.ip
           /\ tcp_send(d, fl).src_port = d.local_port
  BY DEF Peer, tcp_send, new_tcp_key

\* Two segments in one call: a FIN and the RST after it (tcp.c:214, 572).
LEMMA TwoElements ==
    ASSUME NEW x, NEW y
    PROVE  \A i \in DOMAIN (<<x>> \o <<y>>) :
               (<<x>> \o <<y>>)[i] = x \/ (<<x>> \o <<y>>)[i] = y
  <1> DEFINE T == {x, y}
             z == <<x>> \o <<y>>
  <1>1. <<x>> \in Seq(T) /\ <<y>> \in Seq(T)
    OBVIOUS
  <1> HIDE DEF T
  <1>2. z \in Seq(T)
    BY <1>1
  <1> HIDE DEF z
  <1>3. \A i \in DOMAIN z : z[i] \in T
    BY <1>2
  <1> QED
    BY <1>3 DEF T, z

\* What one segment makes the server send (tcp.c:350-576).
LEMMA AnswersOf ==
    ASSUME Inv, NEW k \in Key, NEW seg \in Segment, NEW h \in PortSlot, NEW s \in Slot,
           OneSegment(k, seg, h, s)
    PROVE  \A i \in DOMAIN sent' :
               \/ Peer(sent'[i]) = k
               \/ sent'[i].ip = k.ip /\ sent'[i].src_port = Zero
  <1>1. ASSUME connect_table[s] = k, connect[s].state # "LISTEN", NEW fl
        PROVE  Peer(tcp_send(connect[s], fl)) = k
    BY <1>1, PeerOfPacket, LiveEntry, FreeIsNoKey
  <1>2. CASE sent' = <<>>
    BY <1>2
  <1>3. CASE ListenReset(k, seg, h, s)
    <2> DEFINE d == Entry(k, h, s)
    <2>1. Arrives(k, h, s) /\ d.state = "LISTEN"
      BY <1>3 DEF ListenReset
    <2>2. new_tcp_key(d) = k \/ (d.ip = k.ip /\ d.local_port = Zero)
      BY <2>1, ListenEntry
    <2>3. sent' = <<tcp_send(d, {"ack", "rst"})>>
      BY <1>3 DEF ListenReset, ResetConn
    <2> HIDE DEF d
    <2> QED
      BY <2>2, <2>3, PeerOfPacket
  <1>4. CASE ListenSyn(k, seg, h, s)
    <2> DEFINE d == [Entry(k, h, s) EXCEPT !.state = "SYN_RCVD", !.local_port = k.dst_port,
                                           !.remote_port = k.src_port, !.ip = k.ip]
    <2>1. Arrives(k, h, s) /\ Entry(k, h, s).state = "LISTEN"
      BY <1>4 DEF ListenSyn
    <2>2. Entry(k, h, s) \in Connect
      BY <2>1, ListenEntry
    <2>3. new_tcp_key(d) = k
      BY <2>2 DEF Connect, new_tcp_key, Key
    <2>4. sent' = <<tcp_send(d, {"ack", "syn"})>>
      BY <1>4 DEF ListenSyn
    <2> HIDE DEF d
    <2> QED
      BY <2>3, <2>4, PeerOfPacket
  <1>5. CASE OutOfSeq(k, seg, h, s) \/ OtherRst(k, seg, h, s)
    <2>1. /\ connect_table[s] = k /\ connect[s].state # "LISTEN"
          /\ sent' = <<tcp_send(connect[s], {"ack", "rst"})>>
      BY <1>5 DEF OutOfSeq, OtherRst, In, ResetConn
    <2> QED
      BY <2>1, <1>1
  <1>6. CASE EstablishedRst(k, seg, h, s)
    <2> DEFINE fin == tcp_send(connect[s], {"ack", "fin"})
               rst == tcp_send(connect[s], {"ack", "rst"})
    <2>1. /\ connect_table[s] = k /\ connect[s].state # "LISTEN"
          /\ sent' = <<fin>> \o <<rst>>
      BY <1>6 DEF EstablishedRst, In, ResetConn
    <2>2. Peer(fin) = k /\ Peer(rst) = k
      BY <2>1, <1>1
    <2> HIDE DEF fin, rst
    <2>3. ASSUME NEW i \in DOMAIN sent' PROVE sent'[i] = fin \/ sent'[i] = rst
      BY <2>1, TwoElements
    <2> QED
      BY <2>2, <2>3
  <1>7. CASE \/ EstablishedFin(k, seg, h, s) \/ EstablishedData(k, seg, h, s)
             \/ FinWait2Fin(k, seg, h, s)
    <2>1. PICK fl : /\ connect_table[s] = k /\ connect[s].state # "LISTEN"
                    /\ sent' = <<tcp_send(connect[s], fl)>>
      BY <1>7 DEF EstablishedFin, EstablishedData, FinWait2Fin, Switch, In
    <2> QED
      BY <2>1, <1>1
  <1>8. CASE \/ ListenRst(k, seg, h, s) \/ SynRcvdAck(k, seg, h, s)
             \/ FinWait1FinAck(k, seg, h, s) \/ FinWait1Ack(k, seg, h, s)
             \/ LastAckAck(k, seg, h, s) \/ Ignored(k, seg, h, s)
    BY <1>8, <1>2 DEF ListenRst, SynRcvdAck, FinWait1FinAck, FinWait1Ack, LastAckAck, Ignored
  <1> QED
    BY <1>3, <1>4, <1>5, <1>6, <1>7, <1>8 DEF OneSegment

\* One segment in, answers only to the peer it came from (tcp.c:195), for any
\* peers, ports and segments, also those of peers without a connection.
THEOREM OnlySenderIsAnswered == Spec => []AnswersSender
  <1>1. Init => AnswersSender
    BY DEF Init, AnswersSender
  <1>2. Inv /\ AnswersSender /\ [Next]_vars => AnswersSender'
    <2> SUFFICES ASSUME Inv, AnswersSender, [Next]_vars PROVE AnswersSender'
      OBVIOUS
    <2>1. CASE UNCHANGED vars
      BY <2>1 DEF vars, AnswersSender
    <2>2. CASE from' = Free
      BY <2>2 DEF AnswersSender
    <2>3. ASSUME NEW k \in Key, NEW seg \in Segment, tcp_in(k, seg) PROVE AnswersSender'
      <3>1. from' = k
        BY <2>3 DEF tcp_in
      <3>2. CASE NoHandler(k) \/ NoRoom(k)
        BY <3>2 DEF NoHandler, NoRoom, AnswersSender
      <3>3. ASSUME NEW h \in PortSlot, NEW s \in Slot, OneSegment(k, seg, h, s)
            PROVE  AnswersSender'
        BY <3>1, <3>3, AnswersOf DEF AnswersSender
      <3> QED
        BY <2>3, <3>2, <3>3 DEF tcp_in
    <2> QED
      BY <2>1, <2>2, <2>3 DEF Next, tcp_open, tcp_close, AppClose, tcp_connect_close
  <1> QED
    BY <1>1, <1>2, Invariance, PTL DEF Spec

-----------------------------------------------------------------------------
(* One segment concerns one slot.                                           *)

\* The step changes no slot but s, which is and stays that of k or free.
TouchesOnly(k, s) ==
    /\ connect_table[s] \in {k, Free}
    /\ connect_table'[s] \in {k, Free}
    /\ \A u \in Slot \ {s} : /\ connect_table[u] # k
                             /\ connect_table'[u] = connect_table[u]
                             /\ connect'[u] = connect[u]

\* What is left when the key of slot s is deleted, once or twice (tcp.c:145,
\* 229, 574).
LEMMA DeletesOnly ==
    ASSUME Inv, NEW s \in Slot, connect_table[s] # Free
    PROVE  LET one == map_delete(connect_table, connect_table[s])
               two == map_delete(one, connect_table[s])
           IN  /\ one[s] \in {connect_table[s], Free}
               /\ two = one
               /\ \A u \in Slot \ {s} : connect_table[u] # connect_table[s]
               /\ \A u \in Slot \ {s} : one[u] = connect_table[u]
  <1>1. connect_table \in [Slot -> Key \cup {Free}]
    BY DEF Inv, TypeOK
  <1>2. \A u \in Slot \ {s} : connect_table[u] # connect_table[s]
    BY DEF Inv, TableInv, KeysUnique
  <1> QED
    BY <1>1, <1>2, MapDelete, DeleteTwice

\* Every way through tcp_in with a slot at hand changes that slot only.
LEMMA OneSlot ==
    ASSUME Inv, NEW k \in Key, NEW seg \in Segment, NEW h \in PortSlot, NEW s \in Slot,
           OneSegment(k, seg, h, s)
    PROVE  TouchesOnly(k, s)
  <1>0. /\ connect \in [Slot -> Connect]
        /\ connect_table \in [Slot -> Key \cup {Free}]
        /\ k # Free
    BY FreeIsNoKey DEF Inv, TypeOK
  <1>1. CASE ListenRst(k, seg, h, s) \/ ListenReset(k, seg, h, s) \/ ListenSyn(k, seg, h, s)
    <2> DEFINE e == Entry(k, h, s)
               put == [connect_table EXCEPT ![s] = k]
    <2>1. Arrives(k, h, s) /\ e.state = "LISTEN"
      BY <1>1 DEF ListenRst, ListenReset, ListenSyn
    <2>2. /\ e \in Connect
          /\ connect_table[s] \in {k, Free}
          /\ \A u \in Slot \ {s} : connect_table[u] # k
      BY <2>1, ListenEntry
    <2>3. \A u \in Slot \ {s} : connect'[u] = connect[u]
      BY <1>0, <1>1 DEF ListenRst, ListenReset, ListenSyn, ResetConn
    <2>4. \/ connect_table' = put
          \/ \E x : connect_table' = map_delete(put, x) /\ (x = k \/ x \notin Key \cup {Free})
      <3>1. new_tcp_key(e) = k \/ new_tcp_key(e) \notin Key \cup {Free}
        <4>1. new_tcp_key(e) = k \/ (e.local_port = Zero)
          BY <2>1, ListenEntry
        <4>2. new_tcp_key(e).dst_port = e.local_port /\ new_tcp_key(e) # Free
          BY <2>2, KeyIsNotFree DEF new_tcp_key
        <4> QED
          BY <4>1, <4>2, ZeroAssumption DEF Key
      <3>2. \/ connect_table' = put
            \/ connect_table' = map_delete(put, k)
            \/ connect_table' = map_delete(put, new_tcp_key(e))
        BY <1>1 DEF ListenRst, ListenReset, ListenSyn
      <3> QED
        BY <3>1, <3>2
    <2> HIDE DEF e
    <2>5. /\ connect_table'[s] \in {k, Free}
          /\ \A u \in Slot \ {s} : connect_table'[u] = connect_table[u]
      BY <1>0, <2>2, <2>4, PutAndDelete
    <2> QED
      BY <2>2, <2>3, <2>5 DEF TouchesOnly
  <1>2. CASE \/ OutOfSeq(k, seg, h, s) \/ EstablishedRst(k, seg, h, s) \/ OtherRst(k, seg, h, s)
             \/ FinWait1FinAck(k, seg, h, s) \/ FinWait2Fin(k, seg, h, s)
             \/ LastAckAck(k, seg, h, s)
    <2>1. /\ connect' = [connect EXCEPT ![s] = release_tcp_connect(connect[s])]
          /\ connect_table[s] = k
          /\ connect[s].state # "LISTEN"
      BY <1>2 DEF OutOfSeq, EstablishedRst, OtherRst, FinWait1FinAck, FinWait2Fin, LastAckAck,
         ResetConn, CloseInTcpIn, Switch, In
    <2>2. new_tcp_key(connect[s]) = k
      BY <2>1, LiveEntry, FreeIsNoKey
    <2>3. \/ connect_table' = map_delete(connect_table, k)
          \/ connect_table' = map_delete(map_delete(connect_table, k), k)
      BY <1>2, <2>2 DEF OutOfSeq, EstablishedRst, OtherRst, FinWait1FinAck, FinWait2Fin,
         LastAckAck, CloseInTcpIn
    <2> QED
      BY <1>0, <2>1, <2>3, DeletesOnly DEF TouchesOnly
  <1>3. CASE \/ SynRcvdAck(k, seg, h, s) \/ EstablishedFin(k, seg, h, s)
             \/ EstablishedData(k, seg, h, s) \/ FinWait1Ack(k, seg, h, s) \/ Ignored(k, seg, h, s)
    <2>1. connect_table' = connect_table /\ connect_table[s] = k
      BY <1>3 DEF SynRcvdAck, EstablishedFin, EstablishedData, FinWait1Ack, Ignored, Switch, In
    <2>2. \A u \in Slot \ {s} : connect'[u] = connect[u]
      BY <1>0, <1>3 DEF SynRcvdAck, EstablishedFin, EstablishedData, FinWait1Ack, Ignored
    <2> QED
      BY <1>0, <2>1, <2>2, DeletesOnly DEF TouchesOnly
  <1> QED
    BY <1>1, <1>2, <1>3 DEF OneSegment

-----------------------------------------------------------------------------
(* Callbacks.                                                               *)

\* The pointer an entry keeps (tcp.c:354) leads to the port of its key.  It is
\* not so once ports are closed: the slot may be given to another port.
HandlerOfPort ==
    \A s \in Slot : connect_table[s] # Free =>
        /\ connect[s].handler \in PortSlot
        /\ tcp_table[connect[s].handler] = connect_table[s].dst_port

\* Steps that move no pointer and store no new key.
LEMMA PointersStay ==
    ASSUME HandlerOfPort, tcp_table' = tcp_table,
           \A u \in Slot : /\ connect_table'[u] \in {connect_table[u], Free}
                           /\ connect'[u].handler = connect[u].handler
    PROVE  HandlerOfPort'
  BY DEF HandlerOfPort

\* release_tcp_connect and a change of state keep the pointer (tcp.c:97-103).
LEMMA ReleaseKeepsHandler ==
    ASSUME Inv, NEW s \in Slot,
           \/ connect' = connect
           \/ connect' = [connect EXCEPT ![s] = release_tcp_connect(connect[s])]
           \/ \E x : connect' = [connect EXCEPT ![s].state = x]
    PROVE  \A u \in Slot : connect'[u].handler = connect[u].handler
  <1>1. connect \in [Slot -> Connect] /\ connect[s] \in Connect
    BY DEF Inv, TypeOK
  <1>2. CASE connect' = [connect EXCEPT ![s] = release_tcp_connect(connect[s])]
    <2>1. release_tcp_connect(connect[s]).handler = connect[s].handler
      BY <1>1 DEF release_tcp_connect, Connect
    <2> QED
      BY <1>1, <1>2, <2>1
  <1>3. ASSUME NEW x, connect' = [connect EXCEPT ![s].state = x]
        PROVE  \A u \in Slot : connect'[u].handler = connect[u].handler
    <2> DEFINE d == [connect[s] EXCEPT !.state = x]
    <2>1. d.handler = connect[s].handler
      BY <1>1 DEF Connect
    <2>2. connect' = [connect EXCEPT ![s] = d]
      BY <1>3
    <2> HIDE DEF d
    <2> QED
      BY <1>1, <2>1, <2>2
  <1> QED
    BY <1>2, <1>3

\* The pointer of the entry that tcp_in finds or makes (tcp.c:350-359).
LEMMA EntryHandler ==
    ASSUME Inv, HandlerOfPort, NEW k \in Key, NEW h \in PortSlot, NEW s \in Slot,
           Arrives(k, h, s)
    PROVE  /\ Entry(k, h, s).handler \in PortSlot
           /\ tcp_table[Entry(k, h, s).handler] = k.dst_port
  <1>1. tcp_table[h] = k.dst_port
    BY DEF Arrives, map_get
  <1>2. NewConnect(k, h).handler = h
    BY DEF NewConnect, Blank
  <1>3. CASE connect_table[s] = k
    BY <1>3, FreeIsNoKey DEF Entry, HandlerOfPort
  <1>4. CASE connect_table[s] # k
    BY <1>1, <1>2, <1>4 DEF Entry
  <1> QED
    BY <1>3, <1>4

\* Storing an entry with its pointer.
LEMMA PointerStored ==
    ASSUME HandlerOfPort, NEW k \in Key, NEW s \in Slot, NEW d,
           connect \in [Slot -> Connect],
           connect' = [connect EXCEPT ![s] = d],
           d.handler \in PortSlot,
           tcp_table[d.handler] = k.dst_port,
           connect_table'[s] \in {k, Free},
           \A u \in Slot \ {s} : connect_table'[u] = connect_table[u],
           tcp_table' = tcp_table
    PROVE  HandlerOfPort'
  <1>1. connect'[s] = d /\ \A u \in Slot \ {s} : connect'[u] = connect[u]
    OBVIOUS
  <1> QED
    BY <1>1 DEF HandlerOfPort

\* One segment keeps the pointers right and calls through the right one.
LEMMA CallbackAt ==
    ASSUME Inv, HandlerOfPort, NEW k \in Key, NEW seg \in Segment,
           NEW h \in PortSlot, NEW s \in Slot, OneSegment(k, seg, h, s)
    PROVE  HandlerOfPort' /\ CallbackGoesToPort'
  <1>0. /\ connect \in [Slot -> Connect]
        /\ connect_table \in [Slot -> Key \cup {Free}]
    BY DEF Inv, TypeOK
  <1>1. ASSUME called' = Free PROVE CallbackGoesToPort'
    BY <1>1 DEF CallbackGoesToPort
  <1>2. ASSUME NEW e, NEW g \in PortSlot, tcp_table[g] = k.dst_port,
               tcp_table' = tcp_table, handlers' = handlers,
               called' = Callback(s, k, e, g)
        PROVE  CallbackGoesToPort'
    BY <1>2, ZeroAssumption DEF CallbackGoesToPort, Callback
  <1>4. CASE ListenRst(k, seg, h, s) \/ ListenReset(k, seg, h, s) \/ ListenSyn(k, seg, h, s)
    <2> DEFINE e == Entry(k, h, s)
    <2>1. Arrives(k, h, s) /\ e.state = "LISTEN" /\ tcp_table' = tcp_table /\ called' = Free
      BY <1>4 DEF ListenRst, ListenReset, ListenSyn
    <2>2. /\ e \in Connect
          /\ e.handler \in PortSlot
          /\ tcp_table[e.handler] = k.dst_port
      BY <2>1, ListenEntry, EntryHandler
    <2>3. TouchesOnly(k, s)
      BY OneSlot
    <2>5. PICK d : connect' = [connect EXCEPT ![s] = d] /\ d.handler = e.handler
      <3>1. CASE ListenRst(k, seg, h, s)
        BY <3>1 DEF ListenRst
      <3>2. CASE ListenReset(k, seg, h, s)
        <4>1. connect' = [connect EXCEPT ![s] = release_tcp_connect(e)]
          BY <3>2 DEF ListenReset, ResetConn
        <4>2. release_tcp_connect(e).handler = e.handler
          BY <2>2 DEF release_tcp_connect, Connect
        <4> QED
          BY <4>1, <4>2
      <3>3. CASE ListenSyn(k, seg, h, s)
        <4> DEFINE n == [e EXCEPT !.state = "SYN_RCVD", !.local_port = k.dst_port,
                                  !.remote_port = k.src_port, !.ip = k.ip]
        <4>1. connect' = [connect EXCEPT ![s] = n]
          BY <3>3 DEF ListenSyn
        <4>2. n.handler = e.handler
          BY <2>2 DEF Connect
        <4> QED
          BY <4>1, <4>2
      <3> QED
        BY <1>4, <3>1, <3>2, <3>3
    <2> HIDE DEF e
    <2>6. d.handler \in PortSlot /\ tcp_table[d.handler] = k.dst_port
      BY <2>2, <2>5
    <2>7. HandlerOfPort'
      BY <1>0, <2>1, <2>3, <2>5, <2>6, PointerStored DEF TouchesOnly
    <2> QED
      BY <1>1, <2>1, <2>7
  <1>5. CASE \/ OutOfSeq(k, seg, h, s) \/ EstablishedRst(k, seg, h, s) \/ OtherRst(k, seg, h, s)
             \/ FinWait1FinAck(k, seg, h, s) \/ FinWait2Fin(k, seg, h, s)
             \/ LastAckAck(k, seg, h, s)
    <2>1. connect' = [connect EXCEPT ![s] = release_tcp_connect(connect[s])]
      BY <1>5 DEF OutOfSeq, EstablishedRst, OtherRst, FinWait1FinAck, FinWait2Fin, LastAckAck,
         ResetConn, CloseInTcpIn
    <2>2. tcp_table' = tcp_table /\ handlers' = handlers
      BY <1>5 DEF OutOfSeq, EstablishedRst, OtherRst, FinWait1FinAck, FinWait2Fin, LastAckAck
    <2>3. \A u \in Slot : connect_table'[u] \in {connect_table[u], Free}
      <3>1. connect_table[s] = k
        BY <1>5 DEF OutOfSeq, EstablishedRst, OtherRst, FinWait1FinAck, FinWait2Fin, LastAckAck,
           Switch, In
      <3> QED
        BY <3>1, OneSlot DEF TouchesOnly
    <2>4. HandlerOfPort'
      BY <2>1, <2>2, <2>3, ReleaseKeepsHandler, PointersStay
    <2>5. CallbackGoesToPort'
      <3>1. CASE called' = Free
        BY <3>1, <1>1
      <3>2. CASE LastAckAck(k, seg, h, s)
        <4>1. tcp_table[h] = k.dst_port /\ called' = Callback(s, k, "CLOSED", h)
          BY <3>2 DEF LastAckAck, Switch, In, Arrives, map_get
        <4> QED
          BY <4>1, <2>2, <1>2
      <3> QED
        BY <1>5, <3>1, <3>2 DEF OutOfSeq, EstablishedRst, OtherRst, FinWait1FinAck, FinWait2Fin
    <2> QED
      BY <2>4, <2>5
  <1>6. CASE \/ SynRcvdAck(k, seg, h, s) \/ EstablishedFin(k, seg, h, s)
             \/ EstablishedData(k, seg, h, s) \/ FinWait1Ack(k, seg, h, s) \/ Ignored(k, seg, h, s)
    <2>1. connect' = connect \/ \E x : connect' = [connect EXCEPT ![s].state = x]
      BY <1>6 DEF SynRcvdAck, EstablishedFin, EstablishedData, FinWait1Ack, Ignored
    <2>2. tcp_table' = tcp_table /\ handlers' = handlers /\ connect_table' = connect_table
      BY <1>6 DEF SynRcvdAck, EstablishedFin, EstablishedData, FinWait1Ack, Ignored
    <2>3. \A u \in Slot : connect'[u].handler = connect[u].handler
      BY <2>1, ReleaseKeepsHandler
    <2>4. HandlerOfPort'
      BY <2>2, <2>3, PointersStay
    <2>5. CallbackGoesToPort'
      <3>1. CASE called' = Free
        BY <3>1, <1>1
      <3>2. CASE SynRcvdAck(k, seg, h, s) \/ EstablishedData(k, seg, h, s)
        <4>1. connect_table[s] = k
          BY <3>2 DEF SynRcvdAck, EstablishedData, Switch, In
        <4>2. connect[s].handler \in PortSlot /\ tcp_table[connect[s].handler] = k.dst_port
          BY <4>1, FreeIsNoKey DEF HandlerOfPort
        <4>3. PICK e : called' = Callback(s, k, e, connect[s].handler)
          BY <3>2 DEF SynRcvdAck, EstablishedData
        <4> QED
          BY <4>2, <4>3, <2>2, <1>2
      <3> QED
        BY <1>6, <3>1, <3>2 DEF EstablishedFin, FinWait1Ack, Ignored
    <2> QED
      BY <2>4, <2>5
  <1> QED
    BY <1>4, <1>5, <1>6 DEF OneSegment

\* The invariant that callbacks need, when no port is ever closed.
LEMMA PointersInv ==
    ASSUME Closable = {}, Inv, HandlerOfPort, CallbackGoesToPort, [Next]_vars
    PROVE  HandlerOfPort' /\ CallbackGoesToPort'
  <1>0. /\ connect \in [Slot -> Connect]
        /\ connect_table \in [Slot -> Key \cup {Free}]
        /\ tcp_table \in [PortSlot -> LocalPort \cup {Free}]
    BY DEF Inv, TypeOK
  <1>1. CASE UNCHANGED vars
    BY <1>1 DEF vars, HandlerOfPort, CallbackGoesToPort
  <1>2. ASSUME called' = Free PROVE CallbackGoesToPort'
    BY <1>2 DEF CallbackGoesToPort
  <1>3. ASSUME NEW p \in LocalPort, NEW f \in Handler, tcp_open(p, f)
        PROVE  HandlerOfPort' /\ CallbackGoesToPort'
    <2>1. PICK i \in PortSlot : Lookup(tcp_table, p, i) /\ tcp_table' = [tcp_table EXCEPT ![i] = p]
      BY <1>3 DEF tcp_open
    <2>2. tcp_table[i] \in {p, Free}
      BY <2>1 DEF Lookup, map_get, FirstFree
    <2>3. connect_table' = connect_table /\ connect' = connect /\ called' = Free
      BY <1>3 DEF tcp_open
    <2>4. \A s \in Slot : connect_table[s] # Free => connect_table[s].dst_port # Free
      BY <1>0, FreeAssumption DEF Key
    <2>5. HandlerOfPort'
      BY <1>0, <2>1, <2>2, <2>3, <2>4 DEF HandlerOfPort
    <2> QED
      BY <1>2, <2>3, <2>5
  <1>4. ASSUME NEW s \in Slot, AppClose(s) PROVE HandlerOfPort' /\ CallbackGoesToPort'
    <2>1. called' = Free /\ tcp_table' = tcp_table
      BY <1>4 DEF AppClose, tcp_connect_close
    <2>2. \A u \in Slot : connect_table'[u] \in {connect_table[u], Free}
      BY <1>0, <1>4, MapDelete DEF AppClose, tcp_connect_close, CloseEstablished, CloseOther
    <2>3. \/ connect' = [connect EXCEPT ![s] = release_tcp_connect(connect[s])]
          \/ \E x : connect' = [connect EXCEPT ![s].state = x]
      BY <1>4 DEF AppClose, tcp_connect_close, CloseEstablished, CloseOther
    <2>4. \A u \in Slot : connect'[u].handler = connect[u].handler
      BY <2>3, ReleaseKeepsHandler
    <2> QED
      BY <1>2, <2>1, <2>2, <2>4, PointersStay
  <1>5. ASSUME NEW k \in Key, NEW seg \in Segment, tcp_in(k, seg)
        PROVE  HandlerOfPort' /\ CallbackGoesToPort'
    <2>1. CASE NoHandler(k) \/ NoRoom(k)
      <3>1. /\ called' = Free /\ tcp_table' = tcp_table
            /\ connect_table' = connect_table /\ connect' = connect
        BY <2>1 DEF NoHandler, NoRoom
      <3> QED
        BY <3>1, <1>2 DEF HandlerOfPort
    <2>2. ASSUME NEW h \in PortSlot, NEW s \in Slot, OneSegment(k, seg, h, s)
          PROVE  HandlerOfPort' /\ CallbackGoesToPort'
      BY <2>2, CallbackAt
    <2> QED
      BY <1>5, <2>1, <2>2 DEF tcp_in
  <1> QED
    BY <1>1, <1>3, <1>4, <1>5 DEF Next

\* An application is called through the handler its port has at that moment, as
\* long as no port is ever closed (tcp.c:62, 354).
THEOREM CallbacksGoToPort == ASSUME Closable = {} PROVE Spec => []CallbackGoesToPort
  <1>1. Init => HandlerOfPort /\ CallbackGoesToPort
    BY DEF Init, HandlerOfPort, CallbackGoesToPort
  <1>2. Inv /\ HandlerOfPort /\ CallbackGoesToPort /\ [Next]_vars
            => HandlerOfPort' /\ CallbackGoesToPort'
    BY PointersInv
  <1> QED
    BY <1>1, <1>2, Invariance, PTL DEF Spec

-----------------------------------------------------------------------------
(* The refinement.                                                          *)

\* What the state of a connection is to its application.
PhaseIn(state) ==
    IF state = "SYN_RCVD" THEN "handshake"
    ELSE IF state = "ESTABLISHED" THEN "open"
    ELSE IF state = "LAST_ACK" THEN "peer_closed"
    ELSE IF state \in {"FIN_WAIT_1", "FIN_WAIT_2"} THEN "app_closed"
    ELSE "none"

PhaseAt(k, s) == IF connect_table[s] = k THEN PhaseIn(connect[s].state) ELSE "none"

PhaseFound ==
    \A k \in Key : \A s \in Slot :
        (\A u \in Slot \ {s} : connect_table[u] # k) => PhaseOf(k) = PhaseAt(k, s)

\* The phase of a connection is found in the only slot that may hold its key.
LEMMA PhaseIsHere == PhaseFound
  <1> SUFFICES ASSUME NEW k \in Key, NEW s \in Slot, \A u \in Slot \ {s} : connect_table[u] # k
               PROVE  PhaseOf(k) = PhaseAt(k, s)
    BY DEF PhaseFound
  <1>1. \A X : InState(k, X) <=> connect_table[s] = k /\ connect[s].state \in X
    BY DEF InState
  <1> QED
    BY <1>1 DEF PhaseOf, PhaseAt, PhaseIn

\* A step on one slot shows on one connection.
LEMMA PhaseMoves ==
    ASSUME NEW k \in Key, NEW s \in Slot, TouchesOnly(k, s)
    PROVE  /\ \A q \in Key \ {k} : PhaseOf(q)' = PhaseOf(q)
           /\ PhaseOf(k) = PhaseAt(k, s)
           /\ PhaseOf(k)' = PhaseAt(k, s)'
  <1>1. \A q \in Key \ {k} : \A X : InState(q, X)' <=> InState(q, X)
    BY FreeIsNoKey DEF InState, TouchesOnly
  <1>2. \A q \in Key \ {k} : PhaseOf(q)' = PhaseOf(q)
    BY <1>1 DEF PhaseOf
  <1>3. PhaseOf(k) = PhaseAt(k, s)
    BY PhaseIsHere DEF TouchesOnly, PhaseFound
  <1>4. (\A u \in Slot \ {s} : connect_table[u] # k)'
    BY DEF TouchesOnly
  <1>5. PhaseOf(k)' = PhaseAt(k, s)'
    <2>1. PhaseFound'
      BY PhaseIsHere, PTL
    <2> QED
      BY <1>4, <2>1 DEF PhaseFound
  <1> QED
    BY <1>2, <1>3, <1>5

NewsNow == IF called = Free THEN Free ELSE [conn |-> called.key, event |-> called.event]

\* The ways a step can look to the applications.
LEMMA LooksLikeMove ==
    ASSUME NEW k \in Key, NEW p, NEW q, NEW n,
           PhaseOf(k) = p, PhaseOf(k)' = q, NewsNow' = n,
           \A j \in Key \ {k} : PhaseOf(j)' = PhaseOf(j)
    PROVE  Service!Move(k, p, q, n)
  BY DEF Service!Move, NewsNow

\* Several connections end without a callback (tcp_close).
LEMMA LooksLikeDrop ==
    ASSUME NEW D, called' = Free,
           \A j \in Key : PhaseOf(j)' = IF j \in D THEN "none" ELSE PhaseOf(j)
    PROVE  Service!Dropped(D)
  BY DEF Service!Dropped

\* Nothing an application can see.
LEMMA LooksQuiet ==
    ASSUME called' = Free, \A j \in Key : PhaseOf(j)' = PhaseOf(j)
    PROVE  Service!Quiet
  BY DEF Service!Quiet

\* One segment is one step of the service, or shows on nobody.
LEMMA ServiceAt ==
    ASSUME Inv, NEW k \in Key, NEW seg \in Segment, NEW h \in PortSlot, NEW s \in Slot,
           OneSegment(k, seg, h, s)
    PROVE  Service!Next
  <1>0. /\ connect \in [Slot -> Connect]
        /\ connect[s] \in Connect
        /\ connect_table \in [Slot -> Key \cup {Free}]
        /\ k # Free
    BY FreeIsNoKey DEF Inv, TypeOK
  <1>1. /\ \A q \in Key \ {k} : PhaseOf(q)' = PhaseOf(q)
        /\ PhaseOf(k) = PhaseAt(k, s)
        /\ PhaseOf(k)' = PhaseAt(k, s)'
    BY OneSlot, PhaseMoves
  <1>2. ASSUME NEW e \in Event, NEW g \in PortSlot \cup {Zero}, called' = Callback(s, k, e, g)
        PROVE  NewsNow' = Service!Tell(k, e)
    <2>1. called' # Free
      BY <1>2, CallType, NoCallAssumption
    <2>2. called'.key = k /\ called'.event = e
      BY <1>2 DEF Callback
    <2> QED
      BY <2>1, <2>2 DEF NewsNow, Service!Tell
  <1>3. ASSUME called' = Free PROVE NewsNow' = Free
    BY <1>3 DEF NewsNow
  <1>4. ASSUME called' = Free, connect'[s].state = "LISTEN" PROVE Service!Dropped({k})
    <2>1. PhaseOf(k)' = "none"
      BY <1>1, <1>4 DEF PhaseAt, PhaseIn
    <2> QED
      BY <1>1, <1>4, <2>1, LooksLikeDrop
  <1>5. ASSUME NEW c \in Connect PROVE release_tcp_connect(c).state = "LISTEN"
    BY DEF release_tcp_connect, Connect
  <1>6. CASE ListenRst(k, seg, h, s) \/ ListenReset(k, seg, h, s)
    <2>1. /\ Entry(k, h, s) \in Connect /\ Entry(k, h, s).state = "LISTEN"
      BY <1>6, ListenEntry DEF ListenRst, ListenReset
    <2>2. connect'[s].state = "LISTEN"
      BY <1>0, <1>5, <1>6, <2>1 DEF ListenRst, ListenReset, ResetConn
    <2>3. called' = Free
      BY <1>6 DEF ListenRst, ListenReset
    <2> QED
      BY <1>4, <2>2, <2>3 DEF Service!Next
  <1>7. CASE ListenSyn(k, seg, h, s)
    <2>1. /\ Entry(k, h, s) \in Connect
          /\ connect_table[s] = k => connect[s].state = "LISTEN"
      BY <1>7, ListenEntry DEF ListenSyn
    <2>2. connect'[s].state = "SYN_RCVD" /\ connect_table'[s] = k /\ called' = Free
      BY <1>0, <1>7, <2>1 DEF ListenSyn, Connect
    <2>3. PhaseOf(k) = "none" /\ PhaseOf(k)' = "handshake"
      BY <1>1, <2>1, <2>2 DEF PhaseAt, PhaseIn
    <2> QED
      BY <1>1, <1>3, <2>2, <2>3, LooksLikeMove DEF Service!Next, Service!Request
  <1>8. CASE \/ OutOfSeq(k, seg, h, s) \/ EstablishedRst(k, seg, h, s) \/ OtherRst(k, seg, h, s)
             \/ FinWait1FinAck(k, seg, h, s) \/ FinWait2Fin(k, seg, h, s)
    <2>1. /\ connect' = [connect EXCEPT ![s] = release_tcp_connect(connect[s])]
          /\ called' = Free
      BY <1>8 DEF OutOfSeq, EstablishedRst, OtherRst, FinWait1FinAck, FinWait2Fin,
         ResetConn, CloseInTcpIn
    <2> QED
      BY <1>0, <1>4, <1>5, <2>1 DEF Service!Next
  <1>9. CASE SynRcvdAck(k, seg, h, s)
    <2>1. /\ connect_table[s] = k /\ connect[s].state = "SYN_RCVD"
          /\ connect' = [connect EXCEPT ![s].state = "ESTABLISHED"]
          /\ connect_table' = connect_table
          /\ called' = Callback(s, k, "CONNECTED", connect[s].handler)
      BY <1>9 DEF SynRcvdAck, Switch, In
    <2>2. connect'[s].state = "ESTABLISHED"
      BY <1>0, <2>1 DEF Connect
    <2>3. PhaseOf(k) = "handshake" /\ PhaseOf(k)' = "open"
      BY <1>1, <2>1, <2>2 DEF PhaseAt, PhaseIn
    <2>4. NewsNow' = Service!Tell(k, "CONNECTED")
      BY <1>0, <1>2, <2>1 DEF Event, Connect
    <2> QED
      BY <1>1, <2>3, <2>4, LooksLikeMove DEF Service!Next, Service!Opened
  <1>10. CASE EstablishedFin(k, seg, h, s)
    <2>1. /\ connect_table[s] = k /\ connect[s].state = "ESTABLISHED"
          /\ connect' = [connect EXCEPT ![s].state = "LAST_ACK"]
          /\ connect_table' = connect_table
          /\ called' = Free
      BY <1>10 DEF EstablishedFin, Switch, In
    <2>2. connect'[s].state = "LAST_ACK"
      BY <1>0, <2>1 DEF Connect
    <2>3. PhaseOf(k) = "open" /\ PhaseOf(k)' = "peer_closed"
      BY <1>1, <2>1, <2>2 DEF PhaseAt, PhaseIn
    <2> QED
      BY <1>1, <1>3, <2>1, <2>3, LooksLikeMove DEF Service!Next, Service!PeerCloses
  <1>11. CASE EstablishedData(k, seg, h, s)
    <2>1. /\ connect_table[s] = k /\ connect[s].state = "ESTABLISHED"
          /\ connect' = connect
          /\ connect_table' = connect_table
          /\ called' = Callback(s, k, "DATA_RECV", connect[s].handler)
      BY <1>11 DEF EstablishedData, Switch, In
    <2>2. PhaseOf(k) = "open" /\ PhaseOf(k)' = "open"
      BY <1>1, <2>1 DEF PhaseAt, PhaseIn
    <2>3. NewsNow' = Service!Tell(k, "DATA_RECV")
      BY <1>0, <1>2, <2>1 DEF Event, Connect
    <2> QED
      BY <1>1, <2>2, <2>3, LooksLikeMove DEF Service!Next, Service!Data
  <1>12. CASE FinWait1Ack(k, seg, h, s)
    <2>1. /\ connect_table[s] = k /\ connect[s].state = "FIN_WAIT_1"
          /\ connect' = [connect EXCEPT ![s].state = "FIN_WAIT_2"]
          /\ connect_table' = connect_table
          /\ called' = Free
      BY <1>12 DEF FinWait1Ack, Switch, In
    <2>2. connect'[s].state = "FIN_WAIT_2"
      BY <1>0, <2>1 DEF Connect
    <2>3. PhaseOf(k) = "app_closed" /\ PhaseOf(k)' = "app_closed"
      BY <1>1, <2>1, <2>2 DEF PhaseAt, PhaseIn
    <2> QED
      BY <1>1, <2>1, <2>3, LooksQuiet DEF Service!Next
  <1>13. CASE LastAckAck(k, seg, h, s)
    <2>1. /\ connect_table[s] = k /\ connect[s].state = "LAST_ACK"
          /\ connect' = [connect EXCEPT ![s] = release_tcp_connect(connect[s])]
          /\ called' = Callback(s, k, "CLOSED", h)
      BY <1>13 DEF LastAckAck, Switch, In, CloseInTcpIn
    <2>2. connect'[s].state = "LISTEN"
      BY <1>0, <1>5, <2>1
    <2>3. PhaseOf(k) = "peer_closed" /\ PhaseOf(k)' = "none"
      BY <1>1, <2>1, <2>2 DEF PhaseAt, PhaseIn
    <2>4. NewsNow' = Service!Tell(k, "CLOSED")
      BY <1>2, <2>1 DEF Event
    <2> QED
      BY <1>1, <2>3, <2>4, LooksLikeMove DEF Service!Next, Service!PeerIsDone
  <1>14. CASE Ignored(k, seg, h, s)
    <2>1. connect' = connect /\ connect_table' = connect_table /\ called' = Free
      BY <1>14 DEF Ignored
    <2>2. PhaseOf(k)' = PhaseOf(k)
      BY <1>1, <2>1 DEF PhaseAt
    <2> QED
      BY <1>1, <2>1, <2>2, LooksQuiet DEF Service!Next
  <1> QED
    BY <1>6, <1>7, <1>8, <1>9, <1>10, <1>11, <1>12, <1>13, <1>14 DEF OneSegment

\* The FIN of an application shows on the connection it closes (tcp.c:221-226),
\* and on nobody if that one has no entry any more.
LEMMA ServiceCloseEstablished ==
    ASSUME Inv, NEW s \in Slot, tcp_connect_close(s), CloseEstablished(s)
    PROVE  Service!Next
  <1>0. /\ connect \in [Slot -> Connect]
        /\ connect[s] \in Connect
        /\ connect_table \in [Slot -> Key \cup {Free}]
        /\ connect_table' = connect_table
        /\ connect[s].state = "ESTABLISHED"
        /\ called' = Free
        /\ Free \notin Key
    BY FreeIsNoKey DEF Inv, TypeOK, tcp_connect_close, CloseEstablished
  <1>1. /\ connect'[s].state = "FIN_WAIT_1"
        /\ \A u \in Slot \ {s} : connect'[u] = connect[u]
    BY <1>0 DEF CloseEstablished, Connect
  <1>2. CASE connect_table[s] = Free
    <2>1. \A q \in Key : \A X : InState(q, X)' <=> InState(q, X)
      BY <1>0, <1>1, <1>2 DEF InState
    <2>2. \A q \in Key : PhaseOf(q)' = PhaseOf(q)
      BY <2>1 DEF PhaseOf
    <2> QED
      BY <1>0, <2>2, LooksQuiet DEF Service!Next
  <1>3. ASSUME NEW k \in Key, connect_table[s] = k PROVE Service!Next
    <2>1. TouchesOnly(k, s)
      BY <1>0, <1>1, <1>3, DeletesOnly DEF TouchesOnly
    <2>2. /\ \A q \in Key \ {k} : PhaseOf(q)' = PhaseOf(q)
          /\ PhaseOf(k) = PhaseAt(k, s)
          /\ PhaseOf(k)' = PhaseAt(k, s)'
      BY <2>1, PhaseMoves
    <2>3. PhaseOf(k) = "open" /\ PhaseOf(k)' = "app_closed"
      BY <1>0, <1>1, <1>3, <2>2 DEF PhaseAt, PhaseIn
    <2>4. NewsNow' = Free
      BY <1>0 DEF NewsNow
    <2> QED
      BY <2>2, <2>3, <2>4, LooksLikeMove DEF Service!Next, Service!AppCloses
  <1> QED
    BY <1>0, <1>2, <1>3

\* In every other state the close shows on the connection whose key is made of
\* what is left in the slot, whichever slot holds that key by now (tcp.c:227-229).
LEMMA ServiceCloseOther ==
    ASSUME Inv, NEW s \in Slot, tcp_connect_close(s), CloseOther(s)
    PROVE  Service!Next
  <1>a. PICK x : x = new_tcp_key(connect[s])
    OBVIOUS
  <1>0. /\ connect \in [Slot -> Connect] /\ connect[s] \in Connect
        /\ connect_table \in [Slot -> Key \cup {Free}]
        /\ connect' = [connect EXCEPT ![s] = release_tcp_connect(connect[s])]
        /\ connect_table' = map_delete(connect_table, x)
        /\ called' = Free
        /\ Free \notin Key /\ x # Free
    BY <1>a, FreeIsNoKey, KeyIsNotFree DEF Inv, TypeOK, tcp_connect_close, CloseOther
  <1>1. /\ connect'[s].state = "LISTEN"
        /\ \A u \in Slot \ {s} : connect'[u] = connect[u]
    BY <1>0 DEF release_tcp_connect, Connect
  <1>2. \A u \in Slot : connect_table[u] # x => connect_table'[u] = connect_table[u]
    BY <1>0, MapDelete
  <1>3. \A u \in Slot : connect_table'[u] # x
    <2> SUFFICES ASSUME NEW u \in Slot, connect_table[u] = x PROVE connect_table'[u] = Free
      BY <1>0, <1>2
    <2>1. \A j \in 1 .. (u - 1) : j \in Slot /\ j # u
      BY CapacityAssumption DEF Slot
    <2>2. \A j \in 1 .. (u - 1) : connect_table[j] # x
      BY <1>0, <2>1 DEF Inv, TableInv, KeysUnique
    <2> QED
      BY <1>0, <2>2, MapDelete
  <1>4. connect_table[s] \notin {x, Free} => connect[s].state = "LISTEN"
    BY <1>a, LiveEntry
  <1>5. \A q \in Key \ {x} : \A X : InState(q, X)' <=> InState(q, X)
    <2> SUFFICES ASSUME NEW q \in Key \ {x}, NEW X, NEW u \in Slot
                 PROVE  (connect_table'[u] = q /\ connect'[u].state \in X)
                          <=> (connect_table[u] = q /\ connect[u].state \in X)
      BY DEF InState
    <2>1. connect_table'[u] = q <=> connect_table[u] = q
      BY <1>0, <1>2, <1>3, MapDelete
    <2>2. connect_table[u] = q => connect'[u].state = connect[u].state
      BY <1>0, <1>1, <1>4
    <2> QED
      BY <2>1, <2>2
  <1>6. \A q \in Key \ {x} : PhaseOf(q)' = PhaseOf(q)
    BY <1>5 DEF PhaseOf
  <1>7. x \in Key => PhaseOf(x)' = "none"
    <2>1. \A X : ~ InState(x, X)'
      BY <1>3 DEF InState
    <2> QED
      BY <2>1 DEF PhaseOf
  <1>8. CASE x \in Key
    <2>1. Service!Dropped({x})
      BY <1>0, <1>6, <1>7, <1>8, LooksLikeDrop
    <2> QED
      BY <1>8, <2>1 DEF Service!Next
  <1>9. CASE x \notin Key
    BY <1>0, <1>6, <1>9, LooksQuiet DEF Service!Next
  <1> QED
    BY <1>8, <1>9

\* tcp_close ends the connections of its port and no other (tcp.c:143-155).
LEMMA ServiceClosePort ==
    ASSUME Inv, NEW p \in Closable, tcp_close(p)
    PROVE  Service!Next
  <1> DEFINE D == {k \in Key : k.dst_port = p}
  <1>0. /\ \A u \in Slot : connect[u] \in Connect
        /\ connect_table' = connect_table /\ called' = Free
    BY DEF Inv, TypeOK, tcp_close
  <1>1. \A c \in Connect : release_tcp_connect(c).state = "LISTEN"
    BY DEF release_tcp_connect, Connect
  <1>2. ASSUME NEW k \in Key, NEW u \in Slot, connect_table[u] = k
        PROVE  IF k.dst_port = p THEN connect'[u].state = "LISTEN" ELSE connect'[u] = connect[u]
    BY <1>0, <1>1, <1>2, FreeIsNoKey DEF tcp_close
  <1>3. ASSUME NEW k \in Key PROVE PhaseOf(k)' = IF k \in D THEN "none" ELSE PhaseOf(k)
    <2>1. CASE k \in D
      <3>1. \A X \in SUBSET (State \ {"LISTEN"}) : ~ InState(k, X)'
        BY <1>0, <1>2, <2>1 DEF InState
      <3>2. ~ InState(k, {"SYN_RCVD"})' /\ ~ InState(k, {"ESTABLISHED"})'
            /\ ~ InState(k, {"LAST_ACK"})' /\ ~ InState(k, {"FIN_WAIT_1", "FIN_WAIT_2"})'
        BY <3>1 DEF State
      <3> QED
        BY <2>1, <3>2 DEF PhaseOf
    <2>2. CASE k \notin D
      <3>1. \A X : InState(k, X)' <=> InState(k, X)
        BY <1>0, <1>2, <2>2 DEF InState
      <3> QED
        BY <2>2, <3>1 DEF PhaseOf
    <2> QED
      BY <2>1, <2>2
  <1>4. Service!Dropped(D)
    BY <1>0, <1>3, LooksLikeDrop
  <1> QED
    BY <1>4 DEF Service!Next

\* Steps that leave the connections alone.
LEMMA ServiceQuiet ==
    ASSUME called' = Free, connect' = connect, connect_table' = connect_table
    PROVE  Service!Next
  <1>1. \A k \in Key : PhaseOf(k)' = PhaseOf(k)
    BY DEF PhaseOf, InState
  <1> QED
    BY <1>1, LooksQuiet DEF Service!Next

\* Every step of the table is a step of the service.
LEMMA ServiceStep == Inv /\ [Next]_vars => [Service!Next]_(Service!vars)
  <1> SUFFICES ASSUME Inv, [Next]_vars PROVE [Service!Next]_(Service!vars)
    OBVIOUS
  <1>1. CASE UNCHANGED vars
    <2>1. \A k \in Key : PhaseOf(k)' = PhaseOf(k)
      BY <1>1 DEF vars, PhaseOf, InState
    <2>2. UNCHANGED (Service!vars)
      BY <1>1, <2>1 DEF vars, Service!vars
    <2> QED
      BY <2>2
  <1>2. ASSUME NEW p \in LocalPort, NEW f \in Handler, tcp_open(p, f) PROVE Service!Next
    BY <1>2, ServiceQuiet DEF tcp_open
  <1>3. ASSUME NEW p \in Closable, tcp_close(p) PROVE Service!Next
    BY <1>3, ServiceClosePort
  <1>4. ASSUME NEW s \in Slot, AppClose(s) PROVE Service!Next
    BY <1>4, ServiceCloseEstablished, ServiceCloseOther DEF AppClose, tcp_connect_close
  <1>5. ASSUME NEW k \in Key, NEW seg \in Segment, tcp_in(k, seg) PROVE Service!Next
    <2>1. CASE NoHandler(k) \/ NoRoom(k)
      BY <2>1, ServiceQuiet DEF NoHandler, NoRoom
    <2>2. ASSUME NEW h \in PortSlot, NEW s \in Slot, OneSegment(k, seg, h, s)
          PROVE  Service!Next
      BY <2>2, ServiceAt
    <2> QED
      BY <1>5, <2>1, <2>2 DEF tcp_in
  <1> QED
    BY <1>1, <1>2, <1>3, <1>4, <1>5 DEF Next

\* The table of slots, with its pointers and buffers, gives every peer the life
\* cycle of TcpService as if it were alone, for any number of peers and slots.
THEOREM TableIsService == Spec => ImplementsService
  <1>1. Init => Service!Init
    BY DEF Init, Service!Init, PhaseOf, InState, Blank
  <1>2. Inv /\ [Next]_vars => [Service!Next]_(Service!vars)
    BY ServiceStep
  <1> QED
    BY <1>1, <1>2, Invariance, PTL DEF Spec, ImplementsService, Service!Spec
=============================================================================
