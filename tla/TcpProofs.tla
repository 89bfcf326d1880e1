----------------------------- MODULE TcpProofs -----------------------------
(* Proofs about Tcp, for every number of peers, ports, handlers and slots.  *)
(* The inductive invariant is TypeOK /\ TableInv; OwnerInv is kept by every *)
(* step but the close of a connection that its peer has replaced (Strays).  *)
(* Most ways through tcp_in change the table in one of three ways, each a   *)
(* lemma: a connection changes state, a connection is released and its key  *)
(* deleted, nothing.                                                        *)
EXTENDS Tcp, TLAPS

Inv == TypeOK /\ TableInv

\* map_delete (map.c:119) frees at most the slots that hold the key, and with
\* one such slot exactly that one.
LEMMA MapDelete ==
    ASSUME NEW t, NEW k
    PROVE  /\ DOMAIN map_delete(t, k) = DOMAIN t
           /\ \A i \in DOMAIN t : map_delete(t, k)[i] \in {t[i], Free}
           /\ \A i \in DOMAIN t : t[i] # k => map_delete(t, k)[i] = t[i]
           /\ \A i \in DOMAIN t : (t[i] = k /\ \A j \in 1 .. (i - 1) : t[j] # k)
                                     => map_delete(t, k)[i] = Free
  BY DEF map_delete, map_get

\* What is left is a table of the same type.
LEMMA MapDeleteType ==
    ASSUME NEW D, NEW V, NEW t \in [D -> V \cup {Free}], NEW k
    PROVE  map_delete(t, k) \in [D -> V \cup {Free}]
  BY DEF map_delete

\* A key built from the fields of a connection is no free slot.
LEMMA KeyIsNotFree == \A c \in Connect : new_tcp_key(c) # Free
  BY FreeAssumption DEF new_tcp_key, Connect

\* Neither is the key of a peer, nor the port of an application.
LEMMA FreeIsNoKey == Free \notin Key
  BY FreeAssumption DEF Key

\* The initial tables satisfy the invariant.
LEMMA InitInv == Init => Inv /\ OwnerInv
  BY ZeroAssumption DEF Init, Inv, TypeOK, TableInv, OwnerInv, KeysUnique, BufsMatchState, LiveIsKnown,
     LivePortIsOpen, LiveHasBuffers, EntryFields, Blank, Connect, State, Slot, PortSlot

\* Keys, buffers and fields are untouched when a connection holding buffers
\* goes to another state that holds them.
LEMMA StateChange ==
    ASSUME Inv, NEW s \in Slot, NEW x \in State \ {"LISTEN"},
           connect[s].state # "LISTEN",
           connect' = [connect EXCEPT ![s].state = x],
           UNCHANGED <<tcp_table, handlers, connect_table, bufs, running>>
    PROVE  /\ TableInv' /\ connect' \in [Slot -> Connect]
           /\ OwnerInv => OwnerInv'
  <1>1. \A u \in Slot : connect[u] \in Connect
    BY DEF Inv, TypeOK
  <1>2. connect' \in [Slot -> Connect]
    BY DEF Inv, TypeOK, Connect
  <1>3. \A u \in Slot : /\ (connect'[u].state = "LISTEN") = (connect[u].state = "LISTEN")
                        /\ connect'[u].local_port = connect[u].local_port
                        /\ new_tcp_key(connect'[u]) = new_tcp_key(connect[u])
                        /\ connect'[u].ip = connect[u].ip
                        /\ connect'[u].remote_port = connect[u].remote_port
    BY <1>1 DEF new_tcp_key, Connect, Inv, TypeOK
  <1> QED
    BY <1>2, <1>3 DEF Inv, TableInv, OwnerInv, KeysUnique, BufsMatchState, LiveIsKnown,
       LivePortIsOpen, LiveHasBuffers, EntryFields

\* Releasing a connection and deleting a key keeps the invariant: the slot
\* ends in LISTEN with one pair less, and no entry is added.  If the key is that
\* of the slot, no other slot is touched.
LEMMA Release ==
    ASSUME Inv, NEW s \in Slot, NEW x,
           connect[s].state # "LISTEN",
           connect' = [connect EXCEPT ![s] = release_tcp_connect(connect[s])],
           bufs' = [bufs EXCEPT ![s] = @ - Freed(connect[s])],
           connect_table' = map_delete(connect_table, x),
           UNCHANGED <<tcp_table, handlers, running>>
    PROVE  /\ TableInv'
           /\ connect' \in [Slot -> Connect]
           /\ bufs' \in [Slot -> Int]
           /\ connect_table' \in [Slot -> Key \cup {Free}]
           /\ OwnerInv /\ x = connect_table[s] => OwnerInv'
  <1>0. /\ connect_table \in [Slot -> Key \cup {Free}]
        /\ bufs \in [Slot -> Int]
        /\ \A u \in Slot : connect[u] \in Connect
    BY DEF Inv, TypeOK
  <1>1. /\ connect_table' \in [Slot -> Key \cup {Free}]
        /\ \A u \in Slot : connect_table'[u] \in {connect_table[u], Free}
        /\ \A u \in Slot : connect_table[u] # x => connect_table'[u] = connect_table[u]
    BY <1>0, MapDelete, MapDeleteType
  <1>2. /\ connect' \in [Slot -> Connect] /\ bufs' \in [Slot -> Int]
        /\ connect'[s].state = "LISTEN"
        /\ new_tcp_key(connect'[s]) = new_tcp_key(connect[s])
        /\ bufs'[s] = bufs[s] - 1
        /\ \A u \in Slot \ {s} : connect'[u] = connect[u] /\ bufs'[u] = bufs[u]
    <2>1. /\ release_tcp_connect(connect[s]) \in Connect
          /\ release_tcp_connect(connect[s]).state = "LISTEN"
          /\ new_tcp_key(release_tcp_connect(connect[s])) = new_tcp_key(connect[s])
      BY <1>0 DEF Connect, release_tcp_connect, State, new_tcp_key
    <2>2. Freed(connect[s]) = 1
      BY DEF Freed
    <2> QED
      BY <2>1, <2>2, <1>0 DEF Inv, TypeOK
  <1>3. KeysUnique'
    BY <1>1 DEF Inv, TableInv, KeysUnique
  <1>4. LiveHasBuffers'
    BY <1>0, <1>2 DEF Inv, TableInv, LiveHasBuffers
  <1>5. EntryFields'
    <2> SUFFICES ASSUME NEW u \in Slot, connect_table'[u] # Free
                 PROVE  \/ new_tcp_key(connect'[u]) = connect_table'[u]
                        \/ /\ connect'[u].state = "LISTEN"
                           /\ connect'[u].ip = connect_table'[u].ip
                           /\ connect'[u].local_port = Zero
                           /\ connect'[u].remote_port = Zero
      BY DEF EntryFields
    <2>1. connect_table'[u] = connect_table[u]
      BY <1>1
    <2> QED
      BY <1>2, <2>1 DEF Inv, TableInv, EntryFields
  <1>6. ASSUME OwnerInv, x = connect_table[s] PROVE OwnerInv'
    <2>1. connect_table[s] # Free
      BY <1>0, <1>6, KeyIsNotFree DEF OwnerInv, LiveIsKnown
    <2>2. \A u \in Slot \ {s} : connect_table'[u] = connect_table[u]
      BY <1>1, <1>6, <2>1 DEF Inv, TableInv, KeysUnique
    <2>3. BufsMatchState' /\ LiveIsKnown'
      BY <1>0, <1>2, <1>6, <2>2 DEF OwnerInv, BufsMatchState, LiveIsKnown, new_tcp_key
    <2>4. LivePortIsOpen'
      BY <1>2, <1>6 DEF OwnerInv, LivePortIsOpen, Known
    <2> QED
      BY <2>3, <2>4 DEF OwnerInv
  <1> QED
    BY <1>1, <1>2, <1>3, <1>4, <1>5, <1>6 DEF TableInv

\* The key of an entry that is not in LISTEN is in its fields (tcp.c:377-379).
LEMMA LiveEntry ==
    ASSUME Inv, NEW s \in Slot, connect_table[s] # Free, connect[s].state # "LISTEN"
    PROVE  new_tcp_key(connect[s]) = connect_table[s]
  BY DEF Inv, TableInv, EntryFields

\* What tcp_in finds or makes for a peer without a connection (tcp.c:350-372).
LEMMA ListenEntry ==
    ASSUME Inv, NEW k \in Key, NEW h \in PortSlot, NEW s \in Slot,
           Arrives(k, h, s), Entry(k, h, s).state = "LISTEN"
    PROVE  /\ Entry(k, h, s) \in Connect
           /\ connect_table[s] = k => connect[s].state = "LISTEN"
           /\ OwnerInv => connect[s].state = "LISTEN"
           /\ connect_table[s] \in {k, Free}
           /\ \A u \in Slot \ {s} : connect_table[u] # k
           /\ \/ new_tcp_key(Entry(k, h, s)) = k
              \/ /\ Entry(k, h, s).ip = k.ip
                 /\ Entry(k, h, s).local_port = Zero
                 /\ Entry(k, h, s).remote_port = Zero
  <1>0. /\ connect_table \in [Slot -> Key \cup {Free}]
        /\ \A u \in Slot : connect[u] \in Connect
    BY DEF Inv, TypeOK
  <1>1. k # Free
    BY FreeIsNoKey
  <1>2. connect_table[s] = k \/ (connect_table[s] = Free /\ \A u \in Slot : connect_table[u] # k)
    BY <1>0 DEF Arrives, Lookup, map_get, Known, FirstFree
  <1>3. \A u \in Slot \ {s} : connect_table[u] # k
    BY <1>1, <1>2 DEF Inv, TableInv, KeysUnique
  <1>4. CASE connect_table[s] = k
    <2>1. Entry(k, h, s) = connect[s]
      BY <1>4 DEF Entry
    <2> QED
      BY <2>1, <1>0, <1>1, <1>3, <1>4 DEF Inv, TableInv, EntryFields
  <1>5. CASE connect_table[s] # k
    <2>1. Entry(k, h, s) = NewConnect(k, h)
      BY <1>5 DEF Entry
    <2>2. /\ NewConnect(k, h) \in Connect
          /\ NewConnect(k, h).ip = k.ip
          /\ NewConnect(k, h).local_port = Zero
          /\ NewConnect(k, h).remote_port = Zero
      BY DEF NewConnect, Blank, Connect, Key, State
    <2>3. OwnerInv => connect[s].state = "LISTEN"
      BY <1>0, <1>2, <1>5, KeyIsNotFree DEF OwnerInv, LiveIsKnown
    <2> QED
      BY <2>1, <2>2, <2>3, <1>2, <1>3, <1>5
  <1> QED
    BY <1>4, <1>5

\* Storing k in slot s and deleting k again, or a key no slot holds.
LEMMA PutAndDelete ==
    ASSUME Inv, NEW k \in Key, NEW s \in Slot, NEW x,
           \A u \in Slot \ {s} : connect_table[u] # k,
           x = k \/ x \notin Key \cup {Free},
           connect_table' = map_delete([connect_table EXCEPT ![s] = k], x)
    PROVE  /\ connect_table' \in [Slot -> Key \cup {Free}]
           /\ connect_table'[s] \in {k, Free}
           /\ \A u \in Slot \ {s} : connect_table'[u] = connect_table[u]
  <1> DEFINE put == [connect_table EXCEPT ![s] = k]
  <1>1. /\ put \in [Slot -> Key \cup {Free}]
        /\ put[s] = k
        /\ \A u \in Slot \ {s} : put[u] = connect_table[u]
    BY DEF Inv, TypeOK
  <1>2. connect_table' = map_delete(put, x)
    OBVIOUS
  <1> HIDE DEF put
  <1>3. ASSUME NEW u \in Slot \ {s} PROVE put[u] # x
    <2>1. put[u] # k /\ put[u] \in Key \cup {Free}
      BY <1>1
    <2> QED
      BY <2>1
  <1>4. connect_table' \in [Slot -> Key \cup {Free}]
    <2>1. map_delete(put, x) \in [Slot -> Key \cup {Free}]
      BY <1>1, MapDeleteType
    <2> QED
      BY <1>2, <2>1
  <1>5. \A u \in Slot \ {s} : connect_table'[u] = connect_table[u]
    BY <1>1, <1>2, <1>3, MapDelete
  <1>6. connect_table'[s] \in {k, Free}
    BY <1>1, <1>2, MapDelete
  <1> QED
    BY <1>4, <1>5, <1>6

\* An entry that stays in LISTEN, or leaves the table, disturbs no other.
LEMMA StoreListen ==
    ASSUME Inv, NEW k \in Key, NEW s \in Slot, NEW d \in Connect,
           OwnerInv => connect[s].state = "LISTEN",
           d.state = "LISTEN",
           \/ new_tcp_key(d) = k
           \/ d.ip = k.ip /\ d.local_port = Zero /\ d.remote_port = Zero,
           connect' = [connect EXCEPT ![s] = d],
           bufs' = bufs,
           \A u \in Slot \ {s} : connect_table[u] # k,
           connect_table'[s] \in {k, Free},
           \A u \in Slot \ {s} : connect_table'[u] = connect_table[u],
           UNCHANGED <<tcp_table, handlers>>
    PROVE  /\ TableInv' /\ connect' \in [Slot -> Connect]
           /\ OwnerInv => OwnerInv'
  <1>1. /\ connect' \in [Slot -> Connect]
        /\ connect'[s] = d
        /\ \A u \in Slot \ {s} : connect'[u] = connect[u]
        /\ bufs \in [Slot -> Int]
    BY DEF Inv, TypeOK
  <1>2. KeysUnique'
    BY <1>1 DEF Inv, TableInv, KeysUnique
  <1>3. LiveHasBuffers'
    BY <1>1 DEF Inv, TableInv, LiveHasBuffers
  <1>4. EntryFields'
    BY <1>1 DEF Inv, TableInv, EntryFields, new_tcp_key
  <1>5. ASSUME OwnerInv PROVE OwnerInv'
    <2>1. BufsMatchState'
      BY <1>1, <1>5 DEF OwnerInv, BufsMatchState
    <2>2. LiveIsKnown'
      BY <1>1, <1>5 DEF OwnerInv, LiveIsKnown, new_tcp_key
    <2>3. LivePortIsOpen'
      BY <1>1, <1>5 DEF OwnerInv, LivePortIsOpen, Known
    <2> QED
      BY <2>1, <2>2, <2>3 DEF OwnerInv
  <1> QED
    BY <1>1, <1>2, <1>3, <1>4, <1>5 DEF TableInv

-----------------------------------------------------------------------------
\* What is sent and who is called is well typed (tcp.c:191, 464, 509, 555).
LEMMA PacketType ==
    ASSUME NEW c \in Connect, NEW fl \in SUBSET Flag
    PROVE  tcp_send(c, fl) \in Packet
  BY DEF tcp_send, Packet, Connect

\* The record of a callback.
LEMMA CallType ==
    ASSUME Inv, NEW s \in Slot, NEW k \in Key, NEW e \in Event, NEW h \in PortSlot \cup {Zero}
    PROVE  Callback(s, k, e, h) \in Call
  BY ZeroAssumption DEF Callback, Call, Inv, TypeOK

\* Deleting a key twice is deleting it once (tcp.c:229, then tcp.c:574).
LEMMA DeleteTwice ==
    ASSUME Inv, NEW s \in Slot, connect_table[s] # Free
    PROVE  map_delete(map_delete(connect_table, connect_table[s]), connect_table[s])
             = map_delete(connect_table, connect_table[s])
  <1> DEFINE k == connect_table[s]
             one == map_delete(connect_table, k)
  <1>1. connect_table \in [Slot -> Key \cup {Free}]
    BY DEF Inv, TypeOK
  <1>2. one \in [Slot -> Key \cup {Free}]
    BY <1>1, MapDeleteType
  <1>3. \A u \in Slot : one[u] # k
    <2>1. \A j \in 1 .. (s - 1) : j \in Slot /\ j # s
      BY CapacityAssumption DEF Slot
    <2>2. \A u \in Slot \ {s} : connect_table[u] # k
      BY DEF Inv, TableInv, KeysUnique
    <2>3. one[s] = Free
      BY <1>1, <2>1, <2>2, MapDelete
    <2>4. \A u \in Slot \ {s} : one[u] = connect_table[u]
      BY <1>1, <2>2, MapDelete
    <2> QED
      BY <2>2, <2>3, <2>4
  <1>4. map_delete(one, k) \in [Slot -> Key \cup {Free}]
    BY <1>2, MapDeleteType
  <1>5. \A u \in Slot : map_delete(one, k)[u] = one[u]
    BY <1>2, <1>3, MapDelete
  <1> QED
    BY <1>2, <1>4, <1>5

\* tcp_close releases every connection of its port and no other.
LEMMA ClosePort ==
    ASSUME Inv, NEW p \in LocalPort, tcp_close(p)
    PROVE  Inv' /\ (OwnerInv => OwnerInv')
  <1> DEFINE hit(s) == connect_table[s] # Free /\ connect_table[s].dst_port = p
  <1>0. /\ connect_table \in [Slot -> Key \cup {Free}]
        /\ tcp_table \in [PortSlot -> LocalPort \cup {Free}]
        /\ bufs \in [Slot -> Int]
        /\ \A u \in Slot : connect[u] \in Connect
    BY DEF Inv, TypeOK
  <1>1. /\ connect' = [s \in Slot |->
                         IF hit(s) THEN release_tcp_connect(connect[s]) ELSE connect[s]]
        /\ bufs' = [s \in Slot |-> IF hit(s) THEN bufs[s] - Freed(connect[s]) ELSE bufs[s]]
        /\ tcp_table' = map_delete(tcp_table, p)
        /\ connect_table' = connect_table
    BY DEF tcp_close
  <1>2. \A c \in Connect : /\ release_tcp_connect(c) \in Connect
                           /\ release_tcp_connect(c).state = "LISTEN"
                           /\ release_tcp_connect(c).ip = c.ip
                           /\ release_tcp_connect(c).local_port = c.local_port
                           /\ release_tcp_connect(c).remote_port = c.remote_port
                           /\ new_tcp_key(release_tcp_connect(c)) = new_tcp_key(c)
    BY DEF release_tcp_connect, Connect, State, new_tcp_key
  <1>3. TypeOK'
    <2>1. tcp_table' \in [PortSlot -> LocalPort \cup {Free}]
      BY <1>0, <1>1, MapDeleteType
    <2>2. connect' \in [Slot -> Connect] /\ bufs' \in [Slot -> Int]
      BY <1>0, <1>1, <1>2 DEF Freed
    <2> QED
      BY <2>1, <2>2, <1>1 DEF Inv, TypeOK, tcp_close
  <1>4. \A u \in Slot : hit(u) => /\ connect'[u].state = "LISTEN"
                                   /\ bufs'[u] = bufs[u] - Freed(connect[u])
                                   /\ connect'[u].ip = connect[u].ip
                                   /\ connect'[u].local_port = connect[u].local_port
                                   /\ connect'[u].remote_port = connect[u].remote_port
                                   /\ new_tcp_key(connect'[u]) = new_tcp_key(connect[u])
    BY <1>0, <1>1, <1>2
  <1>5. \A u \in Slot : ~ hit(u) => connect'[u] = connect[u] /\ bufs'[u] = bufs[u]
    BY <1>1
  <1> HIDE DEF hit
  <1>6. KeysUnique'
    BY <1>1 DEF Inv, TableInv, KeysUnique
  <1>7. LiveHasBuffers'
    BY <1>0, <1>4, <1>5 DEF Inv, TableInv, LiveHasBuffers, Freed
  <1>8. OwnerInv => BufsMatchState' /\ LiveIsKnown'
    BY <1>0, <1>1, <1>4, <1>5 DEF OwnerInv, BufsMatchState, LiveIsKnown, Freed
  <1>9. ASSUME OwnerInv PROVE LivePortIsOpen'
    <2> SUFFICES ASSUME NEW u \in Slot, connect'[u].state # "LISTEN"
                 PROVE  Known(tcp_table', connect'[u].local_port)
      BY DEF LivePortIsOpen
    <2>1. ~ hit(u) /\ connect'[u] = connect[u]
      BY <1>4, <1>5
    <2>2. connect_table[u] = new_tcp_key(connect[u]) /\ connect_table[u] # Free
      BY <2>1, <1>0, <1>9, KeyIsNotFree DEF OwnerInv, LiveIsKnown
    <2>3. connect[u].local_port # p
      BY <2>1, <2>2 DEF hit, new_tcp_key
    <2>4. Known(tcp_table, connect[u].local_port)
      BY <2>1, <1>9 DEF OwnerInv, LivePortIsOpen
    <2>5. PICK i \in PortSlot : tcp_table[i] = connect[u].local_port
      BY <2>4, <1>0 DEF Known
    <2>6. tcp_table'[i] = connect[u].local_port /\ DOMAIN tcp_table' = PortSlot
      BY <2>3, <2>5, <1>0, <1>1, MapDelete
    <2> QED
      BY <2>1, <2>6 DEF Known
  <1>10. EntryFields'
    BY <1>1, <1>4, <1>5 DEF Inv, TableInv, EntryFields
  <1> QED
    BY <1>3, <1>6, <1>7, <1>8, <1>9, <1>10 DEF Inv, TableInv, OwnerInv

\* tcp_open only adds a port or replaces a handler.
LEMMA OpenPort ==
    ASSUME Inv, NEW p \in LocalPort, NEW f \in Handler, tcp_open(p, f)
    PROVE  Inv' /\ (OwnerInv => OwnerInv')
  <1>0. tcp_table \in [PortSlot -> LocalPort \cup {Free}] /\ handlers \in [PortSlot -> Handler \cup {Zero}]
    BY DEF Inv, TypeOK
  <1>1. PICK i \in PortSlot : /\ Lookup(tcp_table, p, i)
                             /\ tcp_table' = [tcp_table EXCEPT ![i] = p]
                             /\ handlers' = [handlers EXCEPT ![i] = f]
    BY DEF tcp_open
  <1>2. UNCHANGED <<connect_table, connect, bufs, running>>
    BY DEF tcp_open
  <1>3. TypeOK'
    BY <1>0, <1>1, <1>2 DEF Inv, TypeOK, tcp_open
  <1>4. tcp_table[i] \in {p, Free}
    BY <1>1 DEF Lookup, map_get, FirstFree
  <1>5. \A q \in LocalPort : Known(tcp_table, q) => Known(tcp_table', q)
    <2> SUFFICES ASSUME NEW q \in LocalPort, NEW j \in PortSlot, tcp_table[j] = q
                 PROVE  Known(tcp_table', q)
      BY <1>0 DEF Known
    <2>1. tcp_table'[j] = q /\ DOMAIN tcp_table' = PortSlot
      BY <1>0, <1>1, <1>4, FreeAssumption
    <2> QED
      BY <2>1 DEF Known
  <1>6. ASSUME OwnerInv PROVE LivePortIsOpen'
    <2> SUFFICES ASSUME NEW u \in Slot, connect[u].state # "LISTEN"
                 PROVE  Known(tcp_table', connect[u].local_port)
      BY <1>2 DEF LivePortIsOpen
    <2>1. connect_table[u] = new_tcp_key(connect[u]) /\ connect_table[u] # Free
      BY <1>6, KeyIsNotFree DEF Inv, TypeOK, OwnerInv, LiveIsKnown
    <2>2. connect[u].local_port \in LocalPort
      BY <2>1 DEF Inv, TypeOK, Key, new_tcp_key
    <2> QED
      BY <2>2, <1>5, <1>6 DEF OwnerInv, LivePortIsOpen
  <1>7. TableInv'
    BY <1>2 DEF Inv, TableInv, KeysUnique, LiveHasBuffers, EntryFields
  <1>8. OwnerInv => BufsMatchState' /\ LiveIsKnown'
    BY <1>2 DEF OwnerInv, BufsMatchState, LiveIsKnown
  <1> QED
    BY <1>3, <1>6, <1>7, <1>8 DEF Inv, OwnerInv

\* tcp_connect_close on any slot, as an application may call it (tcp.c:220).
LEMMA AppCloses ==
    ASSUME Inv, NEW s \in Slot, tcp_connect_close(s)
    PROVE  Inv' /\ (OwnerInv /\ ~ Strays(s) => OwnerInv')
  <1>0. /\ connect \in [Slot -> Connect] /\ connect[s] \in Connect
        /\ connect_table \in [Slot -> Key \cup {Free}]
        /\ bufs \in [Slot -> Int]
    BY DEF Inv, TypeOK
  <1>1. CASE CloseEstablished(s)
    <2>1. /\ connect' = [connect EXCEPT ![s].state = "FIN_WAIT_1"]
          /\ "FIN_WAIT_1" \in State \ {"LISTEN"}
          /\ connect[s].state # "LISTEN"
          /\ UNCHANGED <<tcp_table, handlers, connect_table, bufs, running>>
      BY <1>1 DEF CloseEstablished, tcp_connect_close, State
    <2>2. /\ TableInv' /\ connect' \in [Slot -> Connect]
          /\ OwnerInv => OwnerInv'
      BY <1>0, <2>1, StateChange
    <2>3. sent' \in Seq(Packet)
      BY <1>0, <1>1, PacketType DEF CloseEstablished, Flag
    <2> QED
      BY <2>1, <2>2, <2>3 DEF Inv, TypeOK, tcp_connect_close
  <1>2. CASE CloseOther(s)
    <2> DEFINE x == new_tcp_key(connect[s])
    <2>1. /\ connect' = [connect EXCEPT ![s] = release_tcp_connect(connect[s])]
          /\ bufs' = [bufs EXCEPT ![s] = @ - Freed(connect[s])]
          /\ connect_table' = map_delete(connect_table, x)
          /\ UNCHANGED <<tcp_table, handlers, given, running>>
          /\ sent' = <<>> /\ called' = Free /\ from' = Free
      BY <1>2 DEF CloseOther, tcp_connect_close
    <2>2. CASE connect[s].state # "LISTEN"
      <3>1. OwnerInv => x = connect_table[s]
        BY <2>2 DEF OwnerInv, LiveIsKnown
      <3> HIDE DEF x
      <3>2. /\ TableInv'
            /\ connect' \in [Slot -> Connect]
            /\ bufs' \in [Slot -> Int]
            /\ connect_table' \in [Slot -> Key \cup {Free}]
            /\ OwnerInv => OwnerInv'
        BY <2>1, <2>2, <3>1, Release
      <3> QED
        BY <2>1, <3>2 DEF Inv, TypeOK
    <2>3. CASE connect[s].state = "LISTEN"
      <3>1. release_tcp_connect(connect[s]) = connect[s] /\ Freed(connect[s]) = 0
        BY <1>0, <2>3 DEF release_tcp_connect, Freed, Connect
      <3>2. connect' = connect /\ bufs' = bufs
        BY <1>0, <2>1, <3>1
      <3> HIDE DEF x
      <3>3. /\ connect_table' \in [Slot -> Key \cup {Free}]
            /\ \A u \in Slot : connect_table'[u] \in {connect_table[u], Free}
            /\ \A u \in Slot : connect_table[u] # x => connect_table'[u] = connect_table[u]
        BY <1>0, <2>1, MapDelete, MapDeleteType
      <3>4. TableInv'
        BY <3>2, <3>3 DEF Inv, TableInv, KeysUnique, LiveHasBuffers, EntryFields
      <3>5. ASSUME OwnerInv, ~ Strays(s) PROVE OwnerInv'
        <4>1. \A u \in Slot : connect[u].state # "LISTEN" => connect_table[u] # x
          BY <2>3, <3>5 DEF Strays, x
        <4>2. LiveIsKnown'
          BY <3>2, <3>3, <3>5, <4>1 DEF OwnerInv, LiveIsKnown
        <4>3. BufsMatchState' /\ LivePortIsOpen'
          BY <2>1, <3>2, <3>5 DEF OwnerInv, BufsMatchState, LivePortIsOpen
        <4> QED
          BY <4>2, <4>3 DEF OwnerInv
      <3>6. /\ UNCHANGED <<tcp_table, handlers, given, running>>
            /\ sent' = <<>> /\ called' = Free /\ from' = Free
        BY <2>1
      <3>7. sent' \in Seq(Packet)
        BY <3>6
      <3>8. TypeOK'
        BY <3>2, <3>3, <3>6, <3>7 DEF Inv, TypeOK
      <3> QED
        BY <3>4, <3>5, <3>8 DEF Inv
    <2> QED
      BY <2>2, <2>3
  <1> QED
    BY <1>1, <1>2 DEF tcp_connect_close

\* What one call does once the slots h and s are found.
LEMMA SegmentAt ==
    ASSUME Inv, NEW k \in Key, NEW seg \in Segment, NEW h \in PortSlot, NEW s \in Slot,
           OneSegment(k, seg, h, s), from' = k, given' \subseteq Slot
    PROVE  Inv' /\ (OwnerInv => OwnerInv')
  <1> USE DEF Event
  <1>0. connect[s] \in Connect /\ from' \in Key \cup {Free}
    BY DEF Inv, TypeOK
  <1>01. connect[s].handler \in PortSlot \cup {Zero} /\ h \in PortSlot \cup {Zero}
    BY <1>0 DEF Connect
  <1>1. CASE ListenRst(k, seg, h, s)
    <2> DEFINE d == Entry(k, h, s)
    <2>1. Arrives(k, h, s) /\ d.state = "LISTEN"
      BY <1>1 DEF ListenRst
    <2>2. /\ d \in Connect
          /\ OwnerInv => connect[s].state = "LISTEN"
          /\ connect_table[s] \in {k, Free}
          /\ \A u \in Slot \ {s} : connect_table[u] # k
          /\ \/ new_tcp_key(d) = k
             \/ d.ip = k.ip /\ d.local_port = Zero /\ d.remote_port = Zero
      BY <2>1, ListenEntry
    <2>3. /\ connect' = [connect EXCEPT ![s] = d]
          /\ connect_table' = map_delete([connect_table EXCEPT ![s] = k], new_tcp_key(d))
          /\ bufs' = bufs
          /\ UNCHANGED <<tcp_table, handlers, running>>
          /\ sent' = <<>> /\ called' = Free
      BY <1>1 DEF ListenRst
    <2>31. d.state = "LISTEN"
      BY <2>1
    <2> HIDE DEF d
    <2>4. new_tcp_key(d) = k \/ new_tcp_key(d) \notin Key \cup {Free}
      BY <2>2, KeyIsNotFree, ZeroAssumption DEF new_tcp_key, Key
    <2>5. /\ connect_table' \in [Slot -> Key \cup {Free}]
          /\ connect_table'[s] \in {k, Free}
          /\ \A u \in Slot \ {s} : connect_table'[u] = connect_table[u]
      BY <2>2, <2>3, <2>4, PutAndDelete
    <2>6. /\ TableInv' /\ connect' \in [Slot -> Connect]
          /\ OwnerInv => OwnerInv'
      BY <2>2, <2>31, <2>3, <2>5, StoreListen
    <2>7. sent' \in Seq(Packet) /\ UNCHANGED <<tcp_table, handlers, bufs, running>> /\ called' = Free
      BY <2>3
    <2> QED
      BY <1>0, <2>5, <2>6, <2>7 DEF Inv, TypeOK
  <1>2. CASE ListenReset(k, seg, h, s)
    <2> DEFINE c == Entry(k, h, s)
               d == release_tcp_connect(c)
    <2>1. Arrives(k, h, s) /\ c.state = "LISTEN"
      BY <1>2 DEF ListenReset
    <2>2. /\ c \in Connect
          /\ OwnerInv => connect[s].state = "LISTEN"
          /\ connect_table[s] \in {k, Free}
          /\ \A u \in Slot \ {s} : connect_table[u] # k
          /\ \/ new_tcp_key(c) = k
             \/ c.ip = k.ip /\ c.local_port = Zero /\ c.remote_port = Zero
      BY <2>1, ListenEntry
    <2>3. /\ connect' = [connect EXCEPT ![s] = d]
          /\ connect_table' = map_delete([connect_table EXCEPT ![s] = k], k)
          /\ bufs' = [bufs EXCEPT ![s] = @ - Freed(c)]
          /\ UNCHANGED <<tcp_table, handlers, running>>
          /\ sent' = <<>> \o <<tcp_send(c, {"ack", "rst"})>> /\ called' = Free
      BY <1>2 DEF ListenReset, ResetConn
    <2> HIDE DEF c
    <2>4. /\ d \in Connect /\ d.state = "LISTEN"
          /\ d.ip = c.ip /\ d.local_port = c.local_port /\ d.remote_port = c.remote_port
          /\ new_tcp_key(d) = new_tcp_key(c)
      BY <2>2 DEF release_tcp_connect, Connect, State, new_tcp_key
    <2>5. bufs' = bufs
      BY <2>1, <2>3 DEF Freed, Inv, TypeOK, c
    <2> HIDE DEF d
    <2>6. /\ connect_table' \in [Slot -> Key \cup {Free}]
          /\ connect_table'[s] \in {k, Free}
          /\ \A u \in Slot \ {s} : connect_table'[u] = connect_table[u]
      BY <2>2, <2>3, PutAndDelete
    <2>7. /\ TableInv' /\ connect' \in [Slot -> Connect]
          /\ OwnerInv => OwnerInv'
      BY <2>2, <2>3, <2>4, <2>5, <2>6, StoreListen
    <2>8. sent' \in Seq(Packet)
      BY <2>2, <2>3, PacketType DEF Flag
    <2> QED
      BY <1>0, <2>3, <2>5, <2>6, <2>7, <2>8 DEF Inv, TypeOK
  <1>3. CASE ListenSyn(k, seg, h, s)
    <2> DEFINE c == [Entry(k, h, s) EXCEPT !.state = "SYN_RCVD", !.local_port = k.dst_port,
                                           !.remote_port = k.src_port, !.ip = k.ip]
    <2>1. Arrives(k, h, s) /\ Entry(k, h, s).state = "LISTEN"
      BY <1>3 DEF ListenSyn
    <2>2. /\ Entry(k, h, s) \in Connect
          /\ OwnerInv => connect[s].state = "LISTEN"
          /\ \A u \in Slot \ {s} : connect_table[u] # k
      BY <2>1, ListenEntry
    <2>3. /\ connect' = [connect EXCEPT ![s] = c]
          /\ connect_table' = [connect_table EXCEPT ![s] = k]
          /\ bufs' = [bufs EXCEPT ![s] = @ + 1]
          /\ UNCHANGED <<tcp_table, handlers, running>>
          /\ sent' = <<tcp_send(c, {"ack", "syn"})>> /\ called' = Free
      BY <1>3 DEF ListenSyn
    <2>4. /\ c \in Connect /\ c.state = "SYN_RCVD" /\ c.local_port = k.dst_port
          /\ new_tcp_key(c) = k
      BY <2>2 DEF Connect, State, new_tcp_key, Key
    <2> HIDE DEF c
    <2>5. /\ connect' \in [Slot -> Connect] /\ bufs' \in [Slot -> Int]
          /\ connect_table' \in [Slot -> Key \cup {Free}]
          /\ connect'[s] = c /\ bufs'[s] = bufs[s] + 1 /\ connect_table'[s] = k
          /\ \A u \in Slot \ {s} : /\ connect'[u] = connect[u] /\ bufs'[u] = bufs[u]
                                    /\ connect_table'[u] = connect_table[u]
      BY <2>2, <2>3, <2>4 DEF Inv, TypeOK
    <2>6. KeysUnique' /\ LiveHasBuffers'
      <3>1. bufs \in [Slot -> Int]
        BY DEF Inv, TypeOK
      <3> QED
        BY <2>2, <2>4, <2>5, <3>1 DEF Inv, TableInv, KeysUnique, LiveHasBuffers
    <2>7. EntryFields' /\ (OwnerInv => LiveIsKnown' /\ BufsMatchState')
      <3>1. \A u \in Slot : /\ u = s => new_tcp_key(connect'[u]) = connect_table'[u]
                            /\ u # s => new_tcp_key(connect'[u]) = new_tcp_key(connect[u])
        BY <2>4, <2>5
      <3> QED
        BY <3>1, <2>2, <2>4, <2>5 DEF Inv, TableInv, OwnerInv, BufsMatchState, LiveIsKnown, EntryFields
    <2>8. OwnerInv => LivePortIsOpen'
      <3>1. Known(tcp_table, k.dst_port)
        BY <2>1 DEF Arrives, map_get, Known, Inv, TypeOK
      <3>2. tcp_table' = tcp_table
        BY <2>3
      <3> QED
        BY <3>1, <3>2, <2>4, <2>5 DEF OwnerInv, LivePortIsOpen
    <2>9. sent' \in Seq(Packet)
      BY <2>3, <2>4, PacketType DEF Flag
    <2> QED
      BY <1>0, <2>3, <2>5, <2>6, <2>7, <2>8, <2>9 DEF Inv, TypeOK, TableInv, OwnerInv
  <1>4. CASE OutOfSeq(k, seg, h, s)
    <2>1. /\ connect' = [connect EXCEPT ![s] = release_tcp_connect(connect[s])]
          /\ bufs' = [bufs EXCEPT ![s] = @ - Freed(connect[s])]
          /\ connect_table[s] = k
          /\ connect[s].state # "LISTEN"
          /\ UNCHANGED <<tcp_table, handlers, running>>
      BY <1>4 DEF OutOfSeq, ResetConn, In
    <2>2. connect_table' = map_delete(connect_table, connect_table[s])
      BY <1>4, <2>1 DEF OutOfSeq
    <2>3. /\ TableInv'
          /\ connect' \in [Slot -> Connect]
          /\ bufs' \in [Slot -> Int]
          /\ connect_table' \in [Slot -> Key \cup {Free}]
          /\ OwnerInv => OwnerInv'
      BY <2>1, <2>2, Release
    <2>4. sent' \in Seq(Packet) /\ called' \in Call \cup {Free}
      BY <1>4, <1>0, PacketType DEF OutOfSeq, Flag, ResetConn
    <2> QED
      BY <2>1, <2>3, <2>4, <1>4, <1>0 DEF Inv, TypeOK, OutOfSeq
  <1>5. CASE EstablishedRst(k, seg, h, s)
    <2>1. /\ connect' = [connect EXCEPT ![s] = release_tcp_connect(connect[s])]
          /\ bufs' = [bufs EXCEPT ![s] = @ - Freed(connect[s])]
          /\ connect_table[s] = k
          /\ connect[s].state # "LISTEN"
          /\ UNCHANGED <<tcp_table, handlers, running>>
      BY <1>5 DEF EstablishedRst, ResetConn, In
    <2>2. connect_table' = map_delete(connect_table, connect_table[s])
      BY <1>5, <2>1 DEF EstablishedRst
    <2>3. /\ TableInv'
          /\ connect' \in [Slot -> Connect]
          /\ bufs' \in [Slot -> Int]
          /\ connect_table' \in [Slot -> Key \cup {Free}]
          /\ OwnerInv => OwnerInv'
      BY <2>1, <2>2, Release
    <2>4. sent' \in Seq(Packet) /\ called' \in Call \cup {Free}
      BY <1>5, <1>0, PacketType DEF EstablishedRst, Flag, ResetConn
    <2> QED
      BY <2>1, <2>3, <2>4, <1>5, <1>0 DEF Inv, TypeOK, EstablishedRst
  <1>6. CASE OtherRst(k, seg, h, s)
    <2>1. /\ connect' = [connect EXCEPT ![s] = release_tcp_connect(connect[s])]
          /\ bufs' = [bufs EXCEPT ![s] = @ - Freed(connect[s])]
          /\ connect_table[s] = k
          /\ connect[s].state # "LISTEN"
          /\ UNCHANGED <<tcp_table, handlers, running>>
      BY <1>6 DEF OtherRst, ResetConn, In
    <2>2. connect_table' = map_delete(connect_table, connect_table[s])
      <3>1. new_tcp_key(connect[s]) = k
        BY <2>1, FreeIsNoKey, LiveEntry
      <3>2. connect_table' = map_delete(map_delete(connect_table, k), k)
        BY <1>6, <3>1 DEF OtherRst
      <3> QED
        BY <2>1, <3>2, FreeIsNoKey, DeleteTwice
    <2>3. /\ TableInv'
          /\ connect' \in [Slot -> Connect]
          /\ bufs' \in [Slot -> Int]
          /\ connect_table' \in [Slot -> Key \cup {Free}]
          /\ OwnerInv => OwnerInv'
      BY <2>1, <2>2, Release
    <2>4. sent' \in Seq(Packet) /\ called' \in Call \cup {Free}
      BY <1>6, <1>0, PacketType DEF OtherRst, Flag, ResetConn
    <2> QED
      BY <2>1, <2>3, <2>4, <1>6, <1>0 DEF Inv, TypeOK, OtherRst
  <1>7. CASE SynRcvdAck(k, seg, h, s)
    <2>1. /\ connect' = [connect EXCEPT ![s].state = "ESTABLISHED"]
          /\ "ESTABLISHED" \in State \ {"LISTEN"}
          /\ connect[s].state # "LISTEN"
          /\ UNCHANGED <<tcp_table, handlers, connect_table, bufs, running>>
      BY <1>7 DEF SynRcvdAck, Switch, In, State
    <2>2. /\ TableInv' /\ connect' \in [Slot -> Connect]
          /\ OwnerInv => OwnerInv'
      BY <2>1, StateChange
    <2>3. sent' \in Seq(Packet) /\ called' \in Call \cup {Free}
      BY <1>7, <1>0, PacketType, CallType, <1>01 DEF SynRcvdAck, Flag
    <2> QED
      BY <2>1, <2>2, <2>3, <1>0 DEF Inv, TypeOK
  <1>8. CASE EstablishedFin(k, seg, h, s)
    <2>1. /\ connect' = [connect EXCEPT ![s].state = "LAST_ACK"]
          /\ "LAST_ACK" \in State \ {"LISTEN"}
          /\ connect[s].state # "LISTEN"
          /\ UNCHANGED <<tcp_table, handlers, connect_table, bufs, running>>
      BY <1>8 DEF EstablishedFin, Switch, In, State
    <2>2. /\ TableInv' /\ connect' \in [Slot -> Connect]
          /\ OwnerInv => OwnerInv'
      BY <2>1, StateChange
    <2>3. sent' \in Seq(Packet) /\ called' \in Call \cup {Free}
      BY <1>8, <1>0, PacketType DEF EstablishedFin, Flag
    <2> QED
      BY <2>1, <2>2, <2>3, <1>0 DEF Inv, TypeOK
  <1>9. CASE EstablishedData(k, seg, h, s)
    <2>1. UNCHANGED <<tcp_table, handlers, connect_table, connect, bufs, running>>
      BY <1>9 DEF EstablishedData
    <2>2. sent' \in Seq(Packet) /\ called' \in Call \cup {Free}
      BY <1>9, <1>0, <1>01, PacketType, CallType DEF EstablishedData, Flag
    <2> QED
      BY <2>1, <2>2, <1>0 DEF Inv, TypeOK, TableInv, OwnerInv, KeysUnique, BufsMatchState, LiveIsKnown,
         LivePortIsOpen, LiveHasBuffers, EntryFields
  <1>10. CASE FinWait1FinAck(k, seg, h, s)
    <2>1. /\ connect' = [connect EXCEPT ![s] = release_tcp_connect(connect[s])]
          /\ bufs' = [bufs EXCEPT ![s] = @ - Freed(connect[s])]
          /\ connect_table[s] = k
          /\ connect[s].state # "LISTEN"
          /\ UNCHANGED <<tcp_table, handlers, running>>
      BY <1>10 DEF FinWait1FinAck, CloseInTcpIn, Switch, In
    <2>2. connect_table' = map_delete(connect_table, connect_table[s])
      BY <1>10, <2>1, FreeIsNoKey, LiveEntry DEF FinWait1FinAck, CloseInTcpIn
    <2>3. /\ TableInv'
          /\ connect' \in [Slot -> Connect]
          /\ bufs' \in [Slot -> Int]
          /\ connect_table' \in [Slot -> Key \cup {Free}]
          /\ OwnerInv => OwnerInv'
      BY <2>1, <2>2, Release
    <2>4. sent' \in Seq(Packet) /\ called' \in Call \cup {Free}
      BY <1>10, <1>0, PacketType DEF FinWait1FinAck, Flag
    <2> QED
      BY <2>1, <2>3, <2>4, <1>10, <1>0 DEF Inv, TypeOK, FinWait1FinAck
  <1>11. CASE FinWait1Ack(k, seg, h, s)
    <2>1. /\ connect' = [connect EXCEPT ![s].state = "FIN_WAIT_2"]
          /\ "FIN_WAIT_2" \in State \ {"LISTEN"}
          /\ connect[s].state # "LISTEN"
          /\ UNCHANGED <<tcp_table, handlers, connect_table, bufs, running>>
      BY <1>11 DEF FinWait1Ack, Switch, In, State
    <2>2. /\ TableInv' /\ connect' \in [Slot -> Connect]
          /\ OwnerInv => OwnerInv'
      BY <2>1, StateChange
    <2>3. sent' \in Seq(Packet) /\ called' \in Call \cup {Free}
      BY <1>11, <1>0, PacketType DEF FinWait1Ack, Flag
    <2> QED
      BY <2>1, <2>2, <2>3, <1>0 DEF Inv, TypeOK
  <1>12. CASE FinWait2Fin(k, seg, h, s)
    <2>1. /\ connect' = [connect EXCEPT ![s] = release_tcp_connect(connect[s])]
          /\ bufs' = [bufs EXCEPT ![s] = @ - Freed(connect[s])]
          /\ connect_table[s] = k
          /\ connect[s].state # "LISTEN"
          /\ UNCHANGED <<tcp_table, handlers, running>>
      BY <1>12 DEF FinWait2Fin, CloseInTcpIn, Switch, In
    <2>2. connect_table' = map_delete(connect_table, connect_table[s])
      BY <1>12, <2>1, FreeIsNoKey, LiveEntry DEF FinWait2Fin, CloseInTcpIn
    <2>3. /\ TableInv'
          /\ connect' \in [Slot -> Connect]
          /\ bufs' \in [Slot -> Int]
          /\ connect_table' \in [Slot -> Key \cup {Free}]
          /\ OwnerInv => OwnerInv'
      BY <2>1, <2>2, Release
    <2>4. sent' \in Seq(Packet) /\ called' \in Call \cup {Free}
      BY <1>12, <1>0, PacketType DEF FinWait2Fin, Flag
    <2> QED
      BY <2>1, <2>3, <2>4, <1>12, <1>0 DEF Inv, TypeOK, FinWait2Fin
  <1>13. CASE LastAckAck(k, seg, h, s)
    <2>1. /\ connect' = [connect EXCEPT ![s] = release_tcp_connect(connect[s])]
          /\ bufs' = [bufs EXCEPT ![s] = @ - Freed(connect[s])]
          /\ connect_table[s] = k
          /\ connect[s].state # "LISTEN"
          /\ UNCHANGED <<tcp_table, handlers, running>>
      BY <1>13 DEF LastAckAck, CloseInTcpIn, Switch, In
    <2>2. connect_table' = map_delete(connect_table, connect_table[s])
      BY <1>13, <2>1, FreeIsNoKey, LiveEntry DEF LastAckAck, CloseInTcpIn
    <2>3. /\ TableInv'
          /\ connect' \in [Slot -> Connect]
          /\ bufs' \in [Slot -> Int]
          /\ connect_table' \in [Slot -> Key \cup {Free}]
          /\ OwnerInv => OwnerInv'
      BY <2>1, <2>2, Release
    <2>4. sent' \in Seq(Packet) /\ called' \in Call \cup {Free}
      BY <1>13, <1>0, PacketType, CallType, <1>01 DEF LastAckAck, Flag
    <2> QED
      BY <2>1, <2>3, <2>4, <1>13, <1>0 DEF Inv, TypeOK, LastAckAck
  <1>14. CASE Ignored(k, seg, h, s)
    <2>1. /\ UNCHANGED <<tcp_table, handlers, connect_table, connect, bufs, running>>
          /\ sent' = <<>> /\ called' = Free
      BY <1>14 DEF Ignored
    <2> QED
      BY <2>1, <1>0 DEF Inv, TypeOK, TableInv, OwnerInv, KeysUnique, BufsMatchState, LiveIsKnown,
         LivePortIsOpen, LiveHasBuffers, EntryFields
  <1> QED
    BY <1>1, <1>2, <1>3, <1>4, <1>5, <1>6, <1>7, <1>8, <1>9, <1>10, <1>11, <1>12, <1>13, <1>14
       DEF OneSegment

\* Whose callback a segment leads to (tcp.c:464, 509, 555).
LEMMA CalledFor ==
    ASSUME NEW k \in Key, NEW seg \in Segment, tcp_in(k, seg), called' # Free
    PROVE  called'.conn \in Slot /\ called'.key = k
  <1>1. PICK h \in PortSlot, s \in Slot : OneSegment(k, seg, h, s)
    BY DEF tcp_in, NoHandler, NoRoom
  <1>2. \E e, g : called' = Callback(s, k, e, g)
    BY <1>1 DEF OneSegment, ListenRst, ListenReset, ListenSyn, OutOfSeq, EstablishedRst, OtherRst,
       SynRcvdAck, EstablishedFin, EstablishedData, FinWait1FinAck, FinWait1Ack, FinWait2Fin,
       LastAckAck, Ignored
  <1> QED
    BY <1>2 DEF Callback

\* Calls that leave the table as it is.
LEMMA SameTable ==
    ASSUME Inv, UNCHANGED <<tcp_table, handlers, connect_table, connect, bufs>>
    PROVE  TableInv' /\ (OwnerInv => OwnerInv')
  BY DEF Inv, TableInv, OwnerInv, KeysUnique, BufsMatchState, LiveIsKnown, LivePortIsOpen,
     LiveHasBuffers, EntryFields

\* Every way through tcp_in keeps the invariant.
LEMMA Segments ==
    ASSUME Inv, NEW k \in Key, NEW seg \in Segment, tcp_in(k, seg)
    PROVE  Inv' /\ (OwnerInv => OwnerInv')
  <1>0. given' \subseteq Slot /\ from' = k
    BY CalledFor DEF tcp_in, Inv, TypeOK
  <1>a. CASE NoHandler(k)
    <2>1. /\ UNCHANGED <<tcp_table, handlers, connect_table, connect, bufs, running>>
          /\ sent' = <<>> /\ called' = Free
      BY <1>a DEF NoHandler
    <2> QED
      BY <1>0, <2>1, SameTable DEF Inv, TypeOK
  <1>b. CASE NoRoom(k)
    <2>1. /\ UNCHANGED <<tcp_table, handlers, connect_table, connect, bufs>>
          /\ sent' = <<>> /\ called' = Free
      BY <1>b DEF NoRoom
    <2>2. running' \in BOOLEAN
      BY <1>b, Zenon DEF NoRoom
    <2> QED
      BY <1>0, <2>1, <2>2, SameTable DEF Inv, TypeOK
  <1>c. ASSUME NEW h \in PortSlot, NEW s \in Slot, OneSegment(k, seg, h, s)
        PROVE  Inv' /\ (OwnerInv => OwnerInv')
    BY <1>0, <1>c, SegmentAt
  <1> QED
    BY <1>a, <1>b, <1>c DEF tcp_in

\* Nothing happens.
LEMMA NoCall ==
    ASSUME Inv, UNCHANGED vars
    PROVE  Inv' /\ (OwnerInv => OwnerInv')
  BY SameTable DEF vars, Inv, TypeOK

\* The invariant is inductive, and so is what it says of careful applications.
LEMMA NextInv == Inv /\ [Next]_vars => Inv' /\ (Careful /\ OwnerInv => OwnerInv')
  <1> SUFFICES ASSUME Inv, [Next]_vars PROVE Inv' /\ (Careful /\ OwnerInv => OwnerInv')
    OBVIOUS
  <1>1. ASSUME NEW p \in LocalPort, NEW f \in Handler, tcp_open(p, f)
        PROVE  Inv' /\ (OwnerInv => OwnerInv')
    BY <1>1, OpenPort
  <1>2. ASSUME NEW p \in Closable, tcp_close(p) PROVE Inv' /\ (OwnerInv => OwnerInv')
    BY <1>2, ClosePort, ClosableAssumption
  <1>3. ASSUME NEW s \in Slot, AppClose(s) PROVE Inv' /\ (Careful /\ OwnerInv => OwnerInv')
    BY <1>3, AppCloses DEF AppClose
  <1>4. ASSUME NEW k \in Key, NEW seg \in Segment, tcp_in(k, seg)
        PROVE  Inv' /\ (OwnerInv => OwnerInv')
    BY <1>4, Segments
  <1>5. CASE UNCHANGED vars
    BY <1>5, NoCall
  <1> QED
    BY <1>1, <1>2, <1>3, <1>4, <1>5 DEF Next

\* Type correctness and the table invariant, for every instance (tcp.c),
\* whatever connections the applications close.
THEOREM Invariance == Spec => []Inv
  <1>1. Init => Inv
    BY InitInv
  <1>2. Inv /\ [Next]_vars => Inv'
    BY NextInv
  <1> QED
    BY <1>1, <1>2, PTL DEF Spec

\* Every state is well typed.
THEOREM TypeCorrect == Spec => []TypeOK
  <1>1. Inv => TypeOK
    BY DEF Inv
  <1> QED
    BY <1>1, Invariance, PTL

\* No two entries for one peer (map.c:90).
THEOREM OneEntryPerPeer == Spec => []KeysUnique
  <1>1. Inv => KeysUnique
    BY DEF Inv, TableInv
  <1> QED
    BY <1>1, Invariance, PTL

\* No buffer pair is freed twice, and none is used after it was freed, whatever
\* connections the applications close and however late (tcp.c:80-103).
THEOREM NoneFreedTwice == Spec => []LiveHasBuffers
  <1>1. Inv => LiveHasBuffers
    BY DEF Inv, TableInv
  <1> QED
    BY <1>1, Invariance, PTL

-----------------------------------------------------------------------------
(* Applications that close no connection after its peer has replaced it.    *)
(* The code does not see to it: http_server_run closes what it took from    *)
(* its queue (http.c:203-240), and is not told of a reset in the meantime.      *)

\* Every connection is found under its own key, on an open port, with one pair.
LEMMA OwnersAreSafe == ASSUME Careful PROVE Spec => []OwnerInv
  <1>1. Init => OwnerInv
    BY InitInv
  <1>2. Inv /\ OwnerInv /\ [Next]_vars => OwnerInv'
    BY NextInv
  <1> QED
    BY <1>1, <1>2, Invariance, PTL DEF Spec

\* No buffer pair is ever lost or freed twice (tcp.c:80-103).
THEOREM BuffersAreSafe == ASSUME Careful PROVE Spec => []BufsMatchState
  <1>1. OwnerInv => BufsMatchState
    BY DEF OwnerInv
  <1> QED
    BY <1>1, OwnersAreSafe, PTL

\* Every connection with buffers is found under its own key (tcp.c:227).
THEOREM LiveIsFound == ASSUME Careful PROVE Spec => []LiveIsKnown
  <1>1. OwnerInv => LiveIsKnown
    BY DEF OwnerInv
  <1> QED
    BY <1>1, OwnersAreSafe, PTL

\* No connection outlives its port (tcp.c:145).
THEOREM PortsAreOpen == ASSUME Careful PROVE Spec => []LivePortIsOpen
  <1>1. OwnerInv => LivePortIsOpen
    BY DEF OwnerInv
  <1> QED
    BY <1>1, OwnersAreSafe, PTL
=============================================================================
