---------------------------- MODULE RxPathProofs ----------------------------
(* Proofs about the receive path: whatever frames arrive, in any number, the *)
(* bytes passed on are those of the packet, and the start of rxbuf moves at  *)
(* most by the headers.                                                      *)
EXTENDS RxPath, FiniteSetTheorems, TLAPS

(* Where rxbuf stands in each function, relative to where the frame was put. *)
AtLayer ==
    /\ pc = "ethernet_in" => rx.data = start /\ rx.len = frame.n
    /\ pc \in {"arp", "ip"} =>
          rx.data = Ip /\ rx.len = frame.n - EtherLen /\ frame.type = pc
    /\ pc \in {"icmp", "udp", "tcp"} =>
          /\ frame.type = "ip"
          /\ rx.len <= frame.n - EtherLen
          /\ IF frame.total >= IpLen THEN rx.data = Ip + IpLen /\ rx.data + rx.len = End
             ELSE rx.data = Ip
    /\ pc \notin {"net_init", "net_poll", "stopped"} =>
          /\ frames > 0 /\ dirty = {} /\ out = Nothing
          /\ start >= Start - (IpLen - EtherLen) * (frames - 1)
          /\ start <= Start + Headers * (frames - 1)

Inv == TypeOK /\ AtLayer /\ PassedOnIsOurs /\ OutIsClean /\ DriftBounded

\* Before net_init.
LEMMA InitInv == Init => Inv
  <1> SUFFICES ASSUME Init PROVE Inv
      OBVIOUS
  <1>1. frame \in Frame
      BY FrameAssumption DEF Init
  <1>2. out \in Passed
      BY DEF Init, Nothing, Passed
  <1>3. rx \in Buffer /\ rx.len <= 65536
      BY DEF Init, Buffer
  <1>4. pc \in Places
      BY DEF Init, Places
  <1>5. net_table \subseteq Protocol /\ udp_table \in BOOLEAN
      BY DEF Init
  <1>6. start \in Nat /\ frames \in Nat /\ dirty \subseteq Int
      BY DEF Init
  <1>7. TypeOK
      BY <1>1, <1>2, <1>3, <1>4, <1>5, <1>6 DEF TypeOK
  <1>8. AtLayer
      BY DEF Init, AtLayer
  <1>9. PassedOnIsOurs /\ OutIsClean /\ DriftBounded
      BY DEF Init, PassedOnIsOurs, OutIsClean, DriftBounded, Nothing
  <1> QED
      BY <1>7, <1>8, <1>9 DEF Inv

(* What is passed on does not depend on rxbuf once it is passed on.          *)
LEMMA KeepOut ==
    ASSUME PassedOnIsOurs, OutIsClean, UNCHANGED <<frame, start, out, dirty>>
    PROVE  PassedOnIsOurs' /\ OutIsClean'
  BY DEF PassedOnIsOurs, OutIsClean, Whole, Ip, End, Bytes

(* Nothing passed on is as it should be.                                     *)
LEMMA NothingIsFine ==
    ASSUME out' = Nothing
    PROVE  PassedOnIsOurs' /\ OutIsClean'
  BY DEF PassedOnIsOurs, OutIsClean, Nothing

\* The type of an empty history.
LEMMA NothingIsPassed == Nothing \in Passed
  BY DEF Nothing, Passed

(* The types after a function of the stack.                                  *)
LEMMA KeepTypes ==
    ASSUME TypeOK, Unchanged, pc' \in Places, rx' \in Buffer, rx'.len <= 65536,
           out' \in Passed, dirty' \subseteq Int
    PROVE  TypeOK'
  <1>1. net_table' \subseteq Protocol /\ udp_table' \in BOOLEAN
      BY DEF TypeOK, Unchanged
  <1>2. frame' \in Frame /\ start' \in Nat /\ frames' \in Nat
      BY DEF TypeOK, Unchanged
  <1> QED
      BY <1>1, <1>2 DEF TypeOK

USE DEF EtherLen, IpLen, UdpLen, IcmpLen, TcpLen, PseudoLen, MTU, BUF_MAX_LEN

\* The numbers of config.h.
LEMMA Numbers == Start \in Nat /\ Headers = 54
  BY DEF Start, Headers

(* The bound of one frame more is further out on both sides.                 *)
LEMMA OneMoreFrame ==
    ASSUME NEW s \in Nat, NEW n \in Nat,
           s >= Start - (IpLen - EtherLen) * (n - 1), s <= Start + Headers * (n - 1)
    PROVE  s >= Start - (IpLen - EtherLen) * n /\ s <= Start + Headers * n
  BY Numbers

(* What the operators of buf.c do to start and length.                       *)
LEMMA RemoveHeader ==
    ASSUME NEW b \in Buffer, NEW n \in Nat
    PROVE  /\ buf_remove_header(b, n) \in Buffer
           /\ buf_remove_header(b, n).len <= b.len
           /\ b.len >= n => /\ buf_remove_header(b, n).data = b.data + n
                            /\ buf_remove_header(b, n).len = b.len - n
           /\ b.len < n => buf_remove_header(b, n) = b
  BY DEF buf_remove_header, Buffer

\* buf_add_header moves the start back, or does nothing.
LEMMA AddHeader ==
    ASSUME NEW b \in Buffer, NEW n \in Nat
    PROVE  /\ buf_add_header(b, n) \in Buffer
           /\ buf_add_header(b, n).len <= b.len + n
           /\ buf_add_header(b, n).data \in {b.data, b.data - n}
           /\ b.data >= n => buf_add_header(b, n).data = b.data - n
  BY DEF buf_add_header, Buffer

\* buf_remove_padding cuts off as many bytes as there are, or nothing.
LEMMA RemovePadding ==
    ASSUME NEW b \in Buffer, NEW n \in Int
    PROVE  /\ buf_remove_padding(b, n) \in Buffer
           /\ buf_remove_padding(b, n).data = b.data
           /\ n \in 0 .. b.len => buf_remove_padding(b, n).len = b.len - n
           /\ n \notin 0 .. b.len => buf_remove_padding(b, n).len = b.len
  BY DEF buf_remove_padding, Buffer

\* net_init: rxbuf is empty and starts in its middle.
LEMMA NetInit == Inv /\ net_init => Inv'
  <1> SUFFICES ASSUME Inv, net_init PROVE Inv'
      OBVIOUS
  <1> USE DEF Inv
  <1>1. pc' \in Places
      BY DEF net_init, Places, Return
  <1>2. rx' \in Buffer /\ rx'.len <= 65536
      BY DEF net_init, buf_init, TypeOK, Buffer
  <1>a. net_table' \subseteq Protocol
      BY DEF net_init, TypeOK
  <1>b. udp_table' \in BOOLEAN
    <2>1. udp_table' = TRUE \/ udp_table' = udp_table
          BY DEF net_init
    <2>2. udp_table \in BOOLEAN
          BY DEF TypeOK
    <2> QED BY <2>1, <2>2, Zenon
  <1>3. net_table' \subseteq Protocol /\ udp_table' \in BOOLEAN
      BY <1>a, <1>b
  <1>4. frame' \in Frame /\ start' \in Nat /\ frames' \in Nat /\ dirty' \subseteq Int /\ out' \in Passed
      BY DEF net_init, TypeOK
  <1>5. TypeOK'
      BY <1>1, <1>2, <1>3, <1>4 DEF TypeOK
  <1>6. AtLayer'
      BY DEF net_init, AtLayer, Return
  <1>7. PassedOnIsOurs' /\ OutIsClean'
      BY KeepOut DEF net_init
  <1>8. DriftBounded'
      BY DEF net_init, DriftBounded, buf_init, Return, TypeOK, Start, Headers
  <1> QED
      BY <1>5, <1>6, <1>7, <1>8

\* driver_recv: the frame starts where rxbuf starts.
LEMMA Receive == ASSUME NEW f \in FrameSet, Inv, driver_recv(f) PROVE Inv'
  <1> USE DEF Inv
  <1>1. f \in Frame
      BY FrameAssumption
  <1>2. f.n \in Nat /\ f.n >= EtherLen /\ f.n <= 65536
    <2>1. f \in Fields /\ f.n >= EtherLen /\ f.n <= 65536
          BY <1>1 DEF Frame
    <2> QED BY <2>1 DEF Fields
  <1>a. rx' = [data |-> rx.data, len |-> f.n] /\ frame' = f /\ start' = rx.data
      BY DEF driver_recv
  <1>b. rx.data \in Nat
      BY DEF TypeOK, Buffer
  <1>3. rx' \in Buffer /\ rx'.len <= 65536 /\ rx'.data = start' /\ rx'.len = frame'.n
      BY <1>2, <1>a, <1>b DEF Buffer
  <1>4. pc' = "ethernet_in" /\ pc' \in Places
      BY DEF driver_recv, Places
  <1>5. start' \in Nat /\ frames' \in Nat /\ frames' > 0 /\ dirty' = {} /\ out' = Nothing
      BY DEF driver_recv, TypeOK, Buffer
  <1>6. frame' \in Frame /\ net_table' \subseteq Protocol /\ udp_table' \in BOOLEAN
      BY <1>1 DEF driver_recv, TypeOK
  <1>7. TypeOK'
      BY <1>3, <1>4, <1>5, <1>6, NothingIsPassed DEF TypeOK
  <1>8. /\ start' >= Start - (IpLen - EtherLen) * (frames' - 1)
        /\ start' <= Start + Headers * (frames' - 1)
      BY DEF driver_recv, DriftBounded, TypeOK, Start, Headers, Buffer
  <1>9. AtLayer'
      BY <1>8, <1>3, <1>4, <1>5 DEF AtLayer
  <1>10. PassedOnIsOurs' /\ OutIsClean'
      BY <1>5, NothingIsFine
  <1>11. DriftBounded'
    <2>1. start' \in Nat /\ frames' \in Nat
          BY <1>5
    <2>2. start' >= Start - (IpLen - EtherLen) * frames' /\ start' <= Start + Headers * frames'
          BY <2>1, <1>8, OneMoreFrame
    <2> QED BY <1>3, <2>2 DEF DriftBounded
  <1> QED
      BY <1>7, <1>9, <1>10, <1>11

-----------------------------------------------------------------------------
(* A function of the stack, of a frame that is in the stack.                 *)

Inside == pc \notin {"net_init", "net_poll", "stopped"}

\* What the invariant says while a frame is handled.
LEMMA InsideFacts ==
    ASSUME Inv, Inside
    PROVE  /\ frames \in Nat /\ frames > 0 /\ start \in Nat /\ rx.data \in Nat /\ rx.len \in Nat
           /\ rx \in Buffer /\ rx.len <= 65536
           /\ dirty = {} /\ out = Nothing /\ out \in Passed
           /\ start >= Start - (IpLen - EtherLen) * (frames - 1)
           /\ start <= Start + Headers * (frames - 1)
           /\ frame \in Frame /\ net_table \subseteq Protocol
  <1>1. frames \in Nat /\ start \in Nat /\ rx \in Buffer /\ rx.len <= 65536 /\ out \in Passed
      BY DEF Inv, TypeOK
  <1>2. frame \in Frame /\ net_table \subseteq Protocol
      BY DEF Inv, TypeOK
  <1>3. rx.data \in Nat /\ rx.len \in Nat
      BY <1>1 DEF Buffer
  <1> QED
      BY <1>1, <1>2, <1>3 DEF Inv, AtLayer, Inside

\* The fields of a frame.
LEMMA FrameFacts ==
    ASSUME NEW f \in Frame
    PROVE  /\ f.n \in Nat /\ f.n >= 14 /\ f.n <= 65536 /\ f.total \in Nat /\ f.total <= 65535
           /\ f.type \in {"arp", "ip", "other", "length", "invalid"}
           /\ f.proto \in {"icmp", "udp", "tcp", "other"}
  <1>1. f \in Fields /\ f.n >= EtherLen /\ f.n <= 65536 /\ f.total <= 65535
      BY DEF Frame
  <1> QED
      BY <1>1 DEF Fields

\* Between two frames nothing is claimed of the layers.
LEMMA OutsideLayers ==
    ASSUME pc' \in {"net_poll", "stopped"}
    PROVE  AtLayer'
  BY DEF AtLayer

(* One frame moves the start by one step of the bound.                       *)
LEMMA Moved ==
    ASSUME NEW s \in Nat, NEW d \in Nat, NEW n \in Nat,
           s >= Start - (IpLen - EtherLen) * (n - 1), s <= Start + Headers * (n - 1),
           d >= s - (IpLen - EtherLen), d <= s + Headers
    PROVE  d >= Start - (IpLen - EtherLen) * n /\ d <= Start + Headers * n
  BY Numbers

\* A start within one frame of where the frame was put is within the bound.
LEMMA KeepDrift ==
    ASSUME Inv, Inside, Unchanged, rx'.data \in Nat,
           rx'.data >= start - (IpLen - EtherLen), rx'.data <= start + Headers
    PROVE  DriftBounded'
  <1>1. /\ rx'.data >= Start - (IpLen - EtherLen) * frames
        /\ rx'.data <= Start + Headers * frames
      BY InsideFacts, Moved
  <1>2. frames' = frames
      BY DEF Unchanged
  <1> QED
      BY <1>1, <1>2 DEF DriftBounded

(* A handler that returns and leaves rxbuf where it is.                      *)
LEMMA KeepBuffer ==
    ASSUME Inv, Inside, Unchanged, UNCHANGED rx, pc' \in Places, out' \in Passed,
           dirty' \subseteq Int, rx.data >= start, rx.data <= start + Headers
    PROVE  TypeOK' /\ DriftBounded'
  <1>1. /\ rx' \in Buffer /\ rx'.len <= 65536 /\ rx'.data \in Nat
        /\ rx'.data >= start - (IpLen - EtherLen) /\ rx'.data <= start + Headers
      BY InsideFacts
  <1>2. DriftBounded'
      BY <1>1, KeepDrift
  <1>3. TypeOK
      BY DEF Inv
  <1> QED
      BY <1>1, <1>2, <1>3, KeepTypes

\* The functions a layer may go on with.
LEMMA ReturnPlaces == {"net_poll", "stopped"} \cup Protocol \subseteq Places
  BY DEF Places

\* ethernet_in removes its header or drops the frame.
LEMMA EthernetIn == Inv /\ ethernet_in => Inv'
  <1> SUFFICES ASSUME Inv, ethernet_in PROVE Inv'
      OBVIOUS
  <1>1. pc = "ethernet_in" /\ Inside /\ Unchanged
      BY DEF ethernet_in, Inside
  <1>2. rx.data = start /\ rx.len = frame.n
      BY <1>1 DEF Inv, AtLayer
  <1>3. out' = Nothing /\ dirty' = {} /\ out' \in Passed /\ dirty' \subseteq Int
      BY <1>1, InsideFacts DEF ethernet_in
  <1>4. PassedOnIsOurs' /\ OutIsClean'
      BY <1>3, NothingIsFine
  <1>5. CASE UNCHANGED rx /\ Return
    <2>1. pc' \in Places /\ pc' \in {"net_poll", "stopped"}
          BY <1>5, ReturnPlaces DEF Return
    <2>2. rx.data >= start /\ rx.data <= start + Headers
          BY <1>1, <1>2, InsideFacts, Numbers
    <2>3. TypeOK' /\ DriftBounded'
          BY <1>1, <1>3, <1>5, <2>1, <2>2, KeepBuffer
    <2> QED BY <1>4, <2>1, <2>3, OutsideLayers DEF Inv
  <1>6. CASE rx' = buf_remove_header(rx, EtherLen) /\ pc' = Handler(frame.type)
    <2>1. /\ rx' \in Buffer /\ rx'.data = start + 14 /\ rx'.len = frame.n - 14
          /\ rx'.len <= 65536 /\ rx'.data \in Nat
      <3>1. rx \in Buffer /\ rx.len >= 14 /\ rx.len <= 65536 /\ rx.data \in Nat /\ rx.len \in Nat
            BY <1>1, <1>2, InsideFacts, FrameFacts
      <3>2. /\ buf_remove_header(rx, 14) \in Buffer
            /\ buf_remove_header(rx, 14).data = rx.data + 14
            /\ buf_remove_header(rx, 14).len = rx.len - 14
            BY <3>1, RemoveHeader
      <3>3. rx' = buf_remove_header(rx, 14)
            BY <1>6
      <3> QED BY <1>2, <3>1, <3>2, <3>3
    <2>2. pc' \in {"net_poll", "arp", "ip"} /\ (pc' # "net_poll" => frame.type = pc')
          BY <1>1, <1>6, InsideFacts, FrameFacts DEF Handler, Protocol
    <2>3. pc' \in Places
          BY <2>2 DEF Places, Protocol
    <2>4. TypeOK'
          BY <1>1, <1>3, <2>1, <2>3, KeepTypes DEF Inv
    <2>5. rx'.data >= start - (IpLen - EtherLen) /\ rx'.data <= start + Headers
          BY <1>1, <2>1, InsideFacts, Numbers
    <2>6. DriftBounded'
          BY <1>1, <2>1, <2>5, KeepDrift
    <2>7. UNCHANGED <<frame, start, frames>>
          BY <1>1 DEF Unchanged
    <2>8. /\ frames' > 0 /\ start' >= Start - (IpLen - EtherLen) * (frames' - 1)
          /\ start' <= Start + Headers * (frames' - 1)
          BY <1>1, <2>7, InsideFacts
    <2>9. AtLayer'
          BY <1>3, <2>1, <2>2, <2>7, <2>8 DEF AtLayer, Ip
    <2> QED BY <1>4, <2>4, <2>6, <2>9 DEF Inv
  <1> QED
      BY <1>5, <1>6 DEF ethernet_in

\* arp_in leaves rxbuf alone.
LEMMA ArpIn == Inv /\ arp_in => Inv'
  <1> SUFFICES ASSUME Inv, arp_in PROVE Inv'
      OBVIOUS
  <1>1. pc = "arp" /\ Inside /\ Unchanged /\ UNCHANGED <<rx, dirty, out>>
      BY DEF arp_in, Inside
  <1>2. pc' \in Places /\ pc' \in {"net_poll", "stopped"}
      BY ReturnPlaces DEF arp_in, Return
  <1>3. out' = Nothing /\ dirty' = {} /\ out' \in Passed /\ dirty' \subseteq Int
      BY <1>1, InsideFacts
  <1>4. rx.data = Ip
      BY <1>1 DEF Inv, AtLayer
  <1>5. rx.data >= start /\ rx.data <= start + Headers
      BY <1>1, <1>4, InsideFacts, Numbers DEF Ip
  <1>6. TypeOK' /\ DriftBounded'
      BY <1>1, <1>2, <1>3, <1>5, KeepBuffer
  <1> QED
      BY <1>2, <1>3, <1>6, OutsideLayers, NothingIsFine DEF Inv

(* The packet without padding and without its header.                       *)
LEMMA IpPayload ==
    ASSUME NEW r \in Buffer, r.len >= 20, NEW t \in Nat, NEW b,
           b = buf_remove_header(buf_remove_padding(r, r.len - t), IpLen)
    PROVE  /\ b \in Buffer /\ b.len <= r.len
           /\ t >= 20 => /\ b.data = r.data + 20
                         /\ b.data + b.len = IF t <= r.len THEN r.data + t ELSE r.data + r.len
           /\ t < 20 => b.data = r.data
           /\ b.len + 20 <= r.len \/ b.len < 20
  <1> DEFINE cut == buf_remove_padding(r, r.len - t)
  <1>1. r.len \in Nat /\ r.data \in Nat /\ r.len - t \in Int
      BY DEF Buffer
  <1>2. /\ cut \in Buffer /\ cut.data = r.data
        /\ t <= r.len => cut.len = t
        /\ t > r.len => cut.len = r.len
    <2>1. t \in Nat /\ (t <= r.len => r.len - t \in 0 .. r.len) /\ (t > r.len => r.len - t \notin 0 .. r.len)
          BY <1>1
    <2>2. /\ cut \in Buffer /\ cut.data = r.data
          /\ r.len - t \in 0 .. r.len => cut.len = r.len - (r.len - t)
          /\ r.len - t \notin 0 .. r.len => cut.len = r.len
          BY <1>1, RemovePadding
    <2>3. r.len - (r.len - t) = t
          BY <1>1
    <2> QED BY <2>1, <2>2, <2>3
  <1>3. cut.len \in Nat /\ cut.data \in Nat
      BY <1>2 DEF Buffer
  <1>4. /\ b \in Buffer /\ b.len <= cut.len
        /\ cut.len >= 20 => b.data = cut.data + 20 /\ b.len = cut.len - 20
        /\ cut.len < 20 => b = cut
      BY <1>2, RemoveHeader
  <1>5. b.len \in Nat
      BY <1>4 DEF Buffer
  <1> HIDE DEF cut
  <1>6. t >= 20 => cut.len >= 20
      BY <1>1, <1>2
  <1>7. t < 20 => cut.len < 20
      BY <1>1, <1>2
  <1>8. b.len <= r.len
      BY <1>1, <1>2, <1>3, <1>4, <1>5
  <1>9. t < 20 => b.data = r.data
      BY <1>2, <1>4, <1>7
  <1>10. t >= 20 => b.data = r.data + 20 /\ b.data + b.len = IF t <= r.len THEN r.data + t ELSE r.data + r.len
      BY <1>1, <1>2, <1>3, <1>4, <1>6
  <1>11. b.len + 20 <= r.len \/ b.len < 20
      BY <1>1, <1>2, <1>3, <1>4, <1>5
  <1> QED
      BY <1>4, <1>8, <1>9, <1>10, <1>11

(* What icmp_unreachable quotes.                                             *)
LEMMA Quoted ==
    ASSUME NEW b \in Buffer, out' = icmp_unreachable(b), dirty' = {}, UNCHANGED <<frame, start>>,
           start \in Nat, Whole => b.data = Ip
    PROVE  out' \in Passed /\ PassedOnIsOurs' /\ OutIsClean'
  <1>1. b.data \in Nat
      BY DEF Buffer
  <1>2. out' = [kind |-> "unreachable", from |-> b.data, to |-> b.data + 28]
      BY <1>1 DEF icmp_unreachable
  <1>3. out' \in Passed
      BY <1>1, <1>2 DEF Passed
  <1>4. out'.kind = "unreachable" /\ out'.from = b.data /\ out'.to = b.data + 28
      BY <1>2
  <1>5. PassedOnIsOurs'
      BY <1>4 DEF PassedOnIsOurs, Whole, Ip
  <1> QED
      BY <1>3, <1>5 DEF OutIsClean

\* ip_in: dropped, quoted, or passed on without padding and header.
LEMMA IpIn == Inv /\ ip_in => Inv'
  <1> SUFFICES ASSUME Inv, ip_in PROVE Inv'
      OBVIOUS
  <1> DEFINE b == buf_remove_header(buf_remove_padding(rx, rx.len - frame.total), IpLen)
             big == frame.fault = "flag" /\ rx.len > MTU
             drops == rx.len < IpLen \/ frame.fault \in {"header", "destination", "checksum"}
             passes == rx.len >= IpLen /\ frame.fault \in {"none", "flag"} /\ ~ big
  <1>1. pc = "ip" /\ Inside /\ Unchanged /\ UNCHANGED <<frame, start, frames>>
      BY DEF ip_in, Inside, Unchanged
  <1>2. rx.data = Ip /\ rx.len = frame.n - 14 /\ frame.type = "ip"
      BY <1>1 DEF Inv, AtLayer
  <1>3. /\ frames \in Nat /\ frames > 0 /\ start \in Nat /\ rx.data \in Nat /\ rx.len \in Nat
        /\ rx \in Buffer /\ rx.len <= 65536 /\ rx.data = start + 14
        /\ dirty = {} /\ out = Nothing /\ out \in Passed
        /\ frame.n \in Nat /\ frame.total \in Nat /\ frame.proto \in {"icmp", "udp", "tcp", "other"}
      BY <1>1, <1>2, InsideFacts, FrameFacts DEF Ip
  <1>4. rx.data >= start /\ rx.data <= start + Headers
      BY <1>3, Numbers
  <1>5. ASSUME Return, UNCHANGED rx, out' = Nothing, dirty' \subseteq Int
        PROVE  Inv'
    <2>1. pc' \in Places /\ pc' \in {"net_poll", "stopped"}
          BY <1>5, ReturnPlaces DEF Return
    <2>2. out' \in Passed
          BY <1>5, NothingIsPassed
    <2>3. TypeOK' /\ DriftBounded'
          BY <1>1, <1>4, <1>5, <2>1, <2>2, KeepBuffer
    <2> QED BY <1>5, <2>1, <2>3, OutsideLayers, NothingIsFine DEF Inv
  <1>6. CASE /\ drops
             /\ dirty' = IF rx.len >= IpLen /\ frame.fault = "checksum"
                         THEN Bytes(rx.data + 10, rx.data + 12) ELSE dirty
             /\ Return /\ UNCHANGED <<rx, out>>
    <2>1. Bytes(rx.data + 10, rx.data + 12) \subseteq Int
          BY <1>3 DEF Bytes
    <2>2. dirty' \subseteq Int
          BY <1>3, <1>6, <2>1
    <2> QED BY <1>3, <1>5, <1>6, <2>2
  <1>7. CASE out' = icmp_unreachable(rx) /\ Return /\ UNCHANGED <<rx, dirty>>
    <2>1. out' \in Passed /\ PassedOnIsOurs' /\ OutIsClean'
          BY <1>1, <1>2, <1>3, <1>7, Quoted
    <2>2. pc' \in Places /\ pc' \in {"net_poll", "stopped"} /\ dirty' \subseteq Int
          BY <1>3, <1>7, ReturnPlaces DEF Return
    <2>3. TypeOK' /\ DriftBounded'
          BY <1>1, <1>4, <1>7, <2>1, <2>2, KeepBuffer
    <2> QED BY <2>1, <2>2, <2>3, OutsideLayers DEF Inv
  <1>8. ASSUME passes
        PROVE  /\ b \in Buffer /\ b.data \in Nat /\ b.len \in Nat /\ b.len <= rx.len
               /\ frame.total >= 20 =>
                     /\ b.data = rx.data + 20
                     /\ b.data + b.len = IF frame.total <= rx.len THEN rx.data + frame.total ELSE rx.data + rx.len
               /\ frame.total < 20 => b.data = rx.data
               /\ b.len + 20 <= rx.len \/ b.len < 20
    <2>1. rx.len >= 20
          BY <1>8
    <2>2. /\ b \in Buffer /\ b.len <= rx.len
          /\ frame.total >= 20 =>
                /\ b.data = rx.data + 20
                /\ b.data + b.len = IF frame.total <= rx.len THEN rx.data + frame.total ELSE rx.data + rx.len
          /\ frame.total < 20 => b.data = rx.data
          /\ b.len + 20 <= rx.len \/ b.len < 20
          BY <1>3, <2>1, IpPayload
    <2> QED BY <2>2 DEF Buffer
  <1>9. CASE /\ passes /\ frame.proto \in net_table
             /\ rx' = b /\ pc' = frame.proto /\ UNCHANGED <<out, dirty>>
    <2>1. pc' \in {"icmp", "udp", "tcp"}
          BY <1>1, <1>3, <1>9, InsideFacts DEF Protocol
    <2>2. pc' \in Places
          BY <2>1 DEF Places, Protocol
    <2>3. /\ rx' \in Buffer /\ rx'.data \in Nat /\ rx'.len \in Nat /\ rx'.len <= rx.len
          /\ frame.total >= 20 =>
                /\ rx'.data = rx.data + 20
                /\ rx'.data + rx'.len = IF frame.total <= rx.len THEN rx.data + frame.total ELSE rx.data + rx.len
          /\ frame.total < 20 => rx'.data = rx.data
          BY <1>8, <1>9
    <2>4. out' = Nothing /\ out' \in Passed /\ dirty' = {}
          BY <1>3, <1>9
    <2> HIDE DEF b
    <2>5. rx'.len <= 65536 /\ rx'.data >= start - (IpLen - EtherLen) /\ rx'.data <= start + Headers
          BY <1>3, <2>3, Numbers
    <2>6. TypeOK'
          BY <1>1, <2>2, <2>3, <2>4, <2>5, KeepTypes DEF Inv
    <2>7. DriftBounded'
          BY <1>1, <2>3, <2>5, KeepDrift
    <2>8. /\ frames' > 0 /\ start' >= Start - (IpLen - EtherLen) * (frames' - 1)
          /\ start' <= Start + Headers * (frames' - 1)
          BY <1>1, InsideFacts
    <2>9. /\ rx'.len <= frame.n - 14
          /\ IF frame.total >= 20 THEN rx'.data = Ip + 20 /\ rx'.data + rx'.len = End
             ELSE rx'.data = Ip
          BY <1>2, <1>3, <2>3 DEF Ip, End
    <2>10. Ip' = Ip /\ End' = End
          BY <1>1 DEF Ip, End
    <2>11. AtLayer'
          BY <1>1, <1>2, <2>1, <2>4, <2>8, <2>9, <2>10 DEF AtLayer
    <2> QED BY <2>4, <2>6, <2>7, <2>11, NothingIsFine DEF Inv
  <1>10. CASE /\ passes /\ frame.proto \notin net_table
              /\ rx' = QuoteUnknown(b)
              /\ out' = icmp_unreachable(rx')
              /\ Return /\ UNCHANGED dirty
    <2>1. /\ b \in Buffer /\ b.data \in Nat /\ b.len \in Nat /\ b.len <= rx.len
          /\ frame.total >= 20 => /\ b.data = rx.data + 20
                                  /\ b.data + b.len = IF frame.total <= rx.len THEN rx.data + frame.total ELSE rx.data + rx.len
          /\ frame.total < 20 => b.data = rx.data
          /\ b.len + 20 <= rx.len \/ b.len < 20
          BY <1>8, <1>10
    <2>2. rx' = buf_add_header(b, 20)
          BY <1>10 DEF QuoteUnknown
    <2> HIDE DEF b
    <2>3. /\ rx' \in Buffer /\ rx'.len <= b.len + 20 /\ rx'.data \in {b.data, b.data - 20}
          /\ b.data >= 20 => rx'.data = b.data - 20
          BY <2>1, <2>2, AddHeader
    <2>4. rx'.data \in Nat /\ rx'.len \in Nat
          BY <2>3 DEF Buffer
    <2>5. rx.len <= 65536 - 14
          BY <1>2, <1>3, <1>1, InsideFacts, FrameFacts
    <2>6. frame.total >= 20 => rx'.data = rx.data
          BY <1>3, <2>1, <2>3
    <2>7. rx'.data >= start - (IpLen - EtherLen) /\ rx'.data <= start + Headers
          BY <1>3, <2>1, <2>3, <2>4, Numbers
    <2>8. rx'.len <= 65536
          BY <1>3, <2>1, <2>3, <2>4, <2>5
    <2>9. Whole => rx'.data = Ip
          BY <1>2, <2>6 DEF Whole
    <2>10. dirty' = {} /\ dirty' \subseteq Int
          BY <1>3, <1>10
    <2>11. out' \in Passed /\ PassedOnIsOurs' /\ OutIsClean'
          BY <1>1, <1>3, <1>10, <2>3, <2>9, <2>10, Quoted
    <2>12. pc' \in Places /\ pc' \in {"net_poll", "stopped"}
          BY <1>10, ReturnPlaces DEF Return
    <2>13. TypeOK'
          BY <1>1, <2>3, <2>8, <2>10, <2>11, <2>12, KeepTypes DEF Inv
    <2>14. DriftBounded'
          BY <1>1, <2>4, <2>7, KeepDrift
    <2> QED BY <2>11, <2>12, <2>13, <2>14, OutsideLayers DEF Inv
  <1> QED
      BY <1>6, <1>7, <1>9, <1>10 DEF ip_in

-----------------------------------------------------------------------------
(* The transport layer.                                                      *)

Above == pc \in {"icmp", "udp", "tcp"}

\* What the invariant says of rxbuf in icmp_in, udp_in and tcp_in.
LEMMA AboveFacts ==
    ASSUME Inv, Above
    PROVE  /\ Inside
           /\ rx.data \in {Ip, Ip + IpLen} /\ Ip = start + 14
           /\ Whole => rx.data = Ip + IpLen /\ rx.data + rx.len = End
           /\ rx.data >= start /\ rx.data + TcpLen <= start + Headers
  <1>1. Inside
      BY DEF Above, Inside
  <1>2. IF frame.total >= IpLen THEN rx.data = Ip + IpLen /\ rx.data + rx.len = End
        ELSE rx.data = Ip
      BY DEF Inv, AtLayer, Above
  <1>3. frame.total \in Nat /\ start \in Nat /\ rx.data \in Nat
      BY <1>1, InsideFacts, FrameFacts
  <1>4. rx.data \in {Ip, Ip + IpLen} /\ Ip = start + 14
      BY <1>2 DEF Ip
  <1>5. rx.data >= start /\ rx.data + TcpLen <= start + Headers
      BY <1>3, <1>4, Numbers
  <1> QED
      BY <1>1, <1>2, <1>4, <1>5 DEF Whole

(* What a handler passes on from behind its header.                          *)
LEMMA Handed ==
    ASSUME Inv, Above, Unchanged, NEW kind \in {"echo", "segment", "deliver"}, NEW header \in Nat,
           header <= rx.len,
           header = IF kind = "deliver" THEN UdpLen ELSE 0,
           out' = PassOn(kind, rx, header), dirty' \subseteq {rx.data + rx.len}
    PROVE  out' \in Passed /\ dirty' \subseteq Int /\ PassedOnIsOurs' /\ OutIsClean'
  <1>1. /\ rx.data \in Nat /\ rx.len \in Nat /\ start \in Nat
        /\ Whole => rx.data = Ip + IpLen /\ rx.data + rx.len = End
        /\ Ip = start + 14
      BY AboveFacts, InsideFacts
  <1>2. out' = [kind |-> kind, from |-> rx.data + header, to |-> rx.data + rx.len]
      BY DEF PassOn
  <1>3. out'.kind = kind /\ out'.from = rx.data + header /\ out'.to = rx.data + rx.len
      BY <1>2
  <1>4. out' \in Passed
      BY <1>1, <1>2 DEF Passed
  <1>5. UNCHANGED <<frame, start>> /\ Ip' = Ip /\ End' = End /\ Whole' = Whole
      BY DEF Unchanged, Ip, End, Whole
  <1>6. PassedOnIsOurs'
      BY <1>1, <1>3, <1>5 DEF PassedOnIsOurs
  <1>7. Whole => rx.data + rx.len \notin Bytes(rx.data + header, rx.data + rx.len) \cup Bytes(Ip, Ip + IpLen)
      BY <1>1 DEF Bytes
  <1>8. Whole => dirty' \cap (Bytes(rx.data + header, rx.data + rx.len) \cup Bytes(Ip, Ip + IpLen)) = {}
      BY <1>7
  <1>9. OutIsClean'
      BY <1>3, <1>5, <1>8 DEF OutIsClean, Bytes
  <1>10. dirty' \subseteq Int
      BY <1>1
  <1> QED
      BY <1>4, <1>6, <1>9, <1>10

(* The end of a handler that leaves rxbuf where it is.                       *)
LEMMA Finish ==
    ASSUME Inv, Above, Unchanged, UNCHANGED rx, pc' \in {"net_poll", "stopped"},
           out' \in Passed, dirty' \subseteq Int, PassedOnIsOurs', OutIsClean'
    PROVE  Inv'
  <1>1. rx.data >= start /\ rx.data <= start + Headers /\ Inside
      BY AboveFacts, InsideFacts, Numbers
  <1>2. pc' \in Places
      BY ReturnPlaces
  <1>3. TypeOK' /\ DriftBounded'
      BY <1>1, <1>2, KeepBuffer
  <1> QED
      BY <1>3, OutsideLayers DEF Inv

\* A layer that drops the packet.
LEMMA FinishSilently ==
    ASSUME Inv, Above, Unchanged, UNCHANGED rx, pc' \in {"net_poll", "stopped"},
           UNCHANGED out, dirty' \subseteq Int
    PROVE  Inv'
  <1>1. out' = Nothing
      BY AboveFacts, InsideFacts
  <1> QED
      BY <1>1, Finish, NothingIsFine, NothingIsPassed

\* icmp_in answers with the bytes of the request.
LEMMA IcmpIn == Inv /\ icmp_in => Inv'
  <1> SUFFICES ASSUME Inv, icmp_in PROVE Inv'
      OBVIOUS
  <1>1. Above /\ Unchanged /\ UNCHANGED <<rx, dirty>>
      BY DEF icmp_in, Above
  <1>2. dirty' = {} /\ rx.len \in Nat
      BY <1>1, AboveFacts, InsideFacts
  <1>3. pc' \in {"net_poll", "stopped"}
      BY DEF icmp_in, Return
  <1>4. CASE UNCHANGED out
      BY <1>1, <1>2, <1>3, <1>4, FinishSilently
  <1>5. CASE out' = PassOn("echo", rx, 0)
    <2>1. out' \in Passed /\ dirty' \subseteq Int /\ PassedOnIsOurs' /\ OutIsClean'
          BY <1>1, <1>2, <1>5, Handed
    <2> QED BY <1>1, <1>3, <2>1, Finish
  <1> QED
      BY <1>4, <1>5 DEF icmp_in

(* udp_checksum leaves at most the byte behind the datagram different.       *)
LEMMA PseudoHeaderIsGone ==
    ASSUME dirty = {}, rx.data \in Nat, rx.len \in Nat
    PROVE  udp_checksum(rx) \subseteq {rx.data + rx.len}
  <1>1. Bytes(rx.data - PseudoLen, rx.data) \subseteq Bytes(rx.data - IpLen, rx.data)
      BY DEF Bytes
  <1>2. udp_checksum(rx) \subseteq
           (Bytes(rx.data - PseudoLen, rx.data) \cup {rx.data + rx.len}) \ Bytes(rx.data - IpLen, rx.data)
      BY DEF udp_checksum
  <1> QED
      BY <1>1, <1>2

\* udp_in delivers the data behind its header, with the IP header put back.
LEMMA UdpIn == Inv /\ udp_in => Inv'
  <1> SUFFICES ASSUME Inv, udp_in PROVE Inv'
      OBVIOUS
  <1> DEFINE deliver == IF udp_table THEN PassOn("deliver", rx, UdpLen) ELSE out
  <1>1. Above /\ Unchanged /\ UNCHANGED rx
      BY DEF udp_in, Above
  <1>2. dirty = {} /\ rx.len \in Nat /\ rx.data \in Nat
      BY <1>1, AboveFacts, InsideFacts
  <1>3. pc' \in {"net_poll", "stopped"}
      BY DEF udp_in, Return
  <1>4. rx.data + rx.len \in Int
      BY <1>2
  <1>5. ASSUME out' = out, dirty' \subseteq Int
        PROVE  Inv'
      BY <1>1, <1>3, <1>5, FinishSilently
  <1>6. ASSUME rx.len >= UdpLen, out' = deliver, dirty' \subseteq {rx.data + rx.len}
        PROVE  Inv'
    <2>1. CASE out' = out
          BY <1>4, <1>5, <1>6, <2>1
    <2>2. CASE out' = PassOn("deliver", rx, UdpLen)
      <3>1. UdpLen \in Nat /\ UdpLen <= rx.len
            BY <1>6
      <3>2. out' \in Passed /\ dirty' \subseteq Int /\ PassedOnIsOurs' /\ OutIsClean'
            BY <1>1, <1>6, <2>2, <3>1, Handed
      <3> QED BY <1>1, <1>3, <3>2, Finish
    <2> QED BY <1>6, <2>1, <2>2
  <1>7. udp_checksum(rx) \subseteq {rx.data + rx.len}
      BY <1>2, PseudoHeaderIsGone
  <1>8. Bytes(rx.data + 6, rx.data + 8) \subseteq Int
      BY <1>2 DEF Bytes
  <1>9. udp_checksum(rx) \cup Bytes(rx.data + 6, rx.data + 8) \subseteq Int
      BY <1>4, <1>7, <1>8
  <1>10. \/ UNCHANGED <<dirty, out>>
         \/ rx.len >= UdpLen /\ out' = deliver /\ UNCHANGED dirty
         \/ rx.len >= UdpLen /\ out' = deliver /\ dirty' = udp_checksum(rx)
         \/ UNCHANGED out /\ dirty' = udp_checksum(rx) \cup Bytes(rx.data + 6, rx.data + 8)
      BY DEF udp_in
  <1> HIDE DEF deliver
  <1> QED
      BY <1>2, <1>5, <1>6, <1>7, <1>9, <1>10

\* tcp_in hands on a segment and may remove its header.
LEMMA TcpIn == Inv /\ tcp_in => Inv'
  <1> SUFFICES ASSUME Inv, tcp_in PROVE Inv'
      OBVIOUS
  <1>1. Above /\ Unchanged
      BY DEF tcp_in, Above
  <1>2. /\ dirty = {} /\ rx.len \in Nat /\ rx.data \in Nat /\ rx \in Buffer /\ rx.len <= 65536
        /\ Inside /\ start \in Nat
      BY <1>1, AboveFacts, InsideFacts
  <1>3. pc' \in {"net_poll", "stopped"}
      BY DEF tcp_in, Return
  <1>4. Bytes(rx.data + 16, rx.data + 18) \subseteq Int
      BY <1>2 DEF Bytes
  <1>5. CASE UNCHANGED <<rx, out>> /\ dirty' \in {dirty, dirty \cup Bytes(rx.data + 16, rx.data + 18)}
    <2>1. dirty' \subseteq Int
          BY <1>2, <1>4, <1>5
    <2> QED BY <1>1, <1>3, <1>5, <2>1, FinishSilently
  <1>6. CASE /\ rx.len >= TcpLen /\ rx' \in {rx, Segment(rx)}
             /\ out' = PassOn("segment", rx, 0) /\ UNCHANGED dirty
    <2>1. out' \in Passed /\ dirty' \subseteq Int /\ PassedOnIsOurs' /\ OutIsClean'
          BY <1>1, <1>2, <1>6, Handed
    <2>2. CASE rx' = rx
          BY <1>1, <1>3, <2>1, <2>2, Finish
    <2>3. CASE rx' = Segment(rx)
      <3>1. /\ buf_remove_header(rx, 20) \in Buffer /\ buf_remove_header(rx, 20).len <= rx.len
            /\ buf_remove_header(rx, 20).data = rx.data + 20
            BY <1>2, <1>6, RemoveHeader
      <3>2. rx' \in Buffer /\ rx'.len <= rx.len /\ rx'.data = rx.data + 20
            BY <2>3, <3>1 DEF Segment
      <3>3. rx'.data \in Nat /\ rx'.len \in Nat
            BY <3>2 DEF Buffer
      <3>4. rx'.len <= 65536
            BY <1>2, <3>2, <3>3
      <3>5. rx'.data >= start - (IpLen - EtherLen) /\ rx'.data <= start + Headers
            BY <1>1, <1>2, <3>2, AboveFacts, Numbers
      <3>6. DriftBounded'
            BY <1>1, <1>2, <3>3, <3>5, KeepDrift
      <3>7. TypeOK'
            BY <1>1, <1>3, <2>1, <3>2, <3>4, KeepTypes, ReturnPlaces DEF Inv
      <3> QED BY <1>3, <2>1, <3>6, <3>7, OutsideLayers DEF Inv
    <2> QED BY <1>6, <2>2, <2>3
  <1> QED
      BY <1>5, <1>6 DEF tcp_in

\* udp_open and udp_close.
LEMMA UdpPortInv == Inv /\ UdpPort => Inv'
  <1> SUFFICES ASSUME Inv, UdpPort PROVE Inv'
      OBVIOUS
  <1>1. UNCHANGED <<pc, alldevs, net_table, rx, frame, start, dirty, out, frames>>
      BY DEF UdpPort
  <1>2. udp_table' \in BOOLEAN
      BY DEF UdpPort
  <1>3. TypeOK'
      BY <1>1, <1>2 DEF Inv, TypeOK
  <1>4. AtLayer'
      BY <1>1 DEF Inv, AtLayer, Ip, End
  <1>5. PassedOnIsOurs' /\ OutIsClean'
      BY <1>1, KeepOut DEF Inv
  <1>6. DriftBounded'
      BY <1>1 DEF Inv, DriftBounded
  <1> QED
      BY <1>3, <1>4, <1>5, <1>6 DEF Inv

\* Nothing happens.
LEMMA StutterInv == Inv /\ UNCHANGED vars => Inv'
  <1> SUFFICES ASSUME Inv, UNCHANGED vars PROVE Inv'
      OBVIOUS
  <1>1. UNCHANGED <<pc, alldevs, net_table, udp_table, rx, frame, start, dirty, out, frames>>
      BY DEF vars
  <1>2. TypeOK' /\ DriftBounded'
      BY <1>1 DEF Inv, TypeOK, DriftBounded
  <1>3. AtLayer'
      BY <1>1 DEF Inv, AtLayer, Ip, End
  <1>4. PassedOnIsOurs' /\ OutIsClean'
      BY <1>1, KeepOut DEF Inv
  <1> QED
      BY <1>2, <1>3, <1>4 DEF Inv

\* The invariant is inductive.
LEMMA NextInv == Inv /\ [Next]_vars => Inv'
  BY NetInit, UdpPortInv, Receive, EthernetIn, ArpIn, IpIn, IcmpIn, UdpIn, TcpIn, StutterInv DEF Next

(* Theorem: every length and position is one of the program's types, for any *)
(* frames in any number.                                                     *)
THEOREM ReceiveTypes == Spec => []TypeOK
  <1>1. Inv => TypeOK
      BY DEF Inv
  <1> QED
      BY <1>1, InitInv, NextInv, PTL DEF Spec

(* Theorem: what a layer passes on are the bytes of the packet behind its    *)
(* headers, never padding, whatever lengths the frames claim (ip_in,         *)
(* udp_in, icmp_in, tcp_in).                                                 *)
THEOREM NoPaddingPassed == Spec => []PassedOnIsOurs
  <1>1. Inv => PassedOnIsOurs
      BY DEF Inv
  <1> QED
      BY <1>1, InitInv, NextInv, PTL DEF Spec

(* Theorem: those bytes are as they were received, although the checksums    *)
(* are computed over a pseudo-header written into the buffer.                *)
THEOREM PassedIsReceived == Spec => []OutIsClean
  <1>1. Inv => OutIsClean
      BY DEF Inv
  <1> QED
      BY <1>1, InitInv, NextInv, PTL DEF Spec

(* Theorem: the start of rxbuf moves by 54 bytes a frame at most.            *)
THEOREM DriftIsBounded == Spec => []DriftBounded
  <1>1. Inv => DriftBounded
      BY DEF Inv
  <1> QED
      BY <1>1, InitInv, NextInv, PTL DEF Spec

(* While the first frames are handled there is room for whatever driver_recv *)
(* copies, which does not look: 30 frames of the snapshot length.            *)
Room == pc \notin {"net_init", "stopped"} /\ frames <= 30 => rx.data + 65536 < BUF_MAX_LEN

(* Theorem: so the first 31 frames fit, whatever they are.                   *)
THEOREM FirstFramesFit == Spec => []Room
  <1>1. Start = 64148
      BY DEF Start
  <1>2. Inv => Room
    <2>1. SUFFICES ASSUME Inv, pc \notin {"net_init", "stopped"}, frames <= 30
                   PROVE  rx.data + 65536 < BUF_MAX_LEN
          BY DEF Room
    <2>2. frames \in Nat /\ rx \in Buffer
      <3>1. TypeOK
            BY <2>1 DEF Inv
      <3> QED BY <3>1 DEF TypeOK
    <2>3. rx.data \in Nat
          BY <2>2 DEF Buffer
    <2>4. rx.data <= Start + 54 * frames
          BY <2>1, Numbers DEF Inv, DriftBounded, Headers
    <2> QED BY <1>1, <2>1, <2>2, <2>3, <2>4
  <1> QED
      BY <1>2, InitInv, NextInv, PTL DEF Spec

(* For frames of an Ethernet without jumbo frames, of which 1215 moved the   *)
(* start, there is room for the next, and buf_copy finds what it asserts.    *)
Ethernet == \A f \in FrameSet : f.n <= MTU + EtherLen
EthernetRoom ==
    /\ pc = "net_poll" /\ frames <= 1215 => rx.data + MTU + EtherLen < BUF_MAX_LEN
    /\ frames <= 1216 => BufCopyAsserts

\* The last frame is one of those that may arrive.
LEMMA FrameKept == frame \in FrameSet /\ [Next]_vars => frame' \in FrameSet
  <1> SUFFICES ASSUME frame \in FrameSet, Next PROVE frame' \in FrameSet
      BY DEF vars
  <1>1. ASSUME NEW f \in FrameSet, driver_recv(f) PROVE frame' \in FrameSet
      BY <1>1 DEF driver_recv
  <1>2. CASE net_init \/ UdpPort
      BY <1>2 DEF net_init, UdpPort
  <1>3. CASE ethernet_in \/ arp_in \/ ip_in \/ icmp_in \/ udp_in \/ tcp_in
      BY <1>3 DEF ethernet_in, arp_in, ip_in, icmp_in, udp_in, tcp_in, Unchanged
  <1> QED
      BY <1>1, <1>2, <1>3 DEF Next

(* Theorem: rxbuf, initialised once, is enough for 1216 Ethernet frames of   *)
(* any kind; the run rx_room shows that it is not for ever.                  *)
THEOREM EthernetFramesFit == ASSUME Ethernet PROVE Spec => []EthernetRoom
  <1> DEFINE Arrived == frame \in FrameSet
  <1>1. Init => Arrived
      BY FrameAssumption DEF Init
  <1>2. Arrived /\ [Next]_vars => Arrived'
      BY FrameKept
  <1>3. Inv /\ Arrived => EthernetRoom
    <2> SUFFICES ASSUME Inv, frame \in FrameSet PROVE EthernetRoom
        OBVIOUS
    <2>1. /\ frames \in Nat /\ start \in Nat /\ rx.data \in Nat /\ rx.len \in Nat
          /\ frame.n \in Nat /\ frame.total \in Nat /\ frame.n <= MTU + EtherLen
      <3>1. TypeOK
            BY DEF Inv
      <3> QED BY <3>1 DEF TypeOK, Buffer, Frame, Fields, Ethernet
    <2>2. Start = 64148
          BY DEF Start
    <2>3. ASSUME pc = "net_poll", frames <= 1215 PROVE rx.data + MTU + EtherLen < BUF_MAX_LEN
      <3>1. rx.data <= Start + 54 * frames
            BY <2>3, Numbers DEF Inv, DriftBounded, Headers
      <3> QED BY <2>1, <2>2, <2>3, <3>1
    <2>4. ASSUME pc = "icmp", frames <= 1216 PROVE Copyable(rx)
      <3>1. start <= Start + 54 * (frames - 1)
            BY <2>4, Numbers DEF Inv, AtLayer, Headers
      <3>2. /\ rx.len <= frame.n - EtherLen
            /\ IF frame.total >= IpLen THEN rx.data + rx.len = End ELSE rx.data = Ip
            BY <2>4 DEF Inv, AtLayer
      <3>3. Ip = start + EtherLen /\ End <= start + frame.n
            BY <2>1 DEF Ip, End
      <3>4. rx.data + rx.len <= start + frame.n
        <4>1. CASE frame.total >= IpLen
              BY <2>1, <3>2, <3>3, <4>1
        <4>2. CASE ~ frame.total >= IpLen
          <5>1. rx.data = start + EtherLen
                BY <3>2, <3>3, <4>2
          <5> QED BY <2>1, <3>2, <5>1
        <4> QED BY <4>1, <4>2
      <3>5. start + frame.n < BUF_MAX_LEN
            BY <2>1, <2>2, <2>4, <3>1
      <3> QED BY <2>1, <3>4, <3>5 DEF Copyable
    <2> QED BY <2>3, <2>4 DEF EthernetRoom, BufCopyAsserts
  <1> HIDE DEF Arrived
  <1> QED
      BY <1>1, <1>2, <1>3, InitInv, NextInv, PTL DEF Spec

(* ------------------------------------------------------------------------ *)
(* The interface driver_find chooses.                                       *)

\* A set of numbers that is not empty has a least element.
LEMMA Least ==
    ASSUME NEW T \in SUBSET Nat, T # {}
    PROVE  \E x \in T : \A y \in T : x <= y
  <1> DEFINE R == StrictSubsetOrdering(Nat)
             P == {0 .. j : j \in T}
  <1>1. IsWellFoundedOn(R, FiniteSubsetsOf(Nat))
      BY FS_StrictSubsetOrderingWellFounded
  <1>2. P \subseteq FiniteSubsetsOf(Nat)
    <2>1. ASSUME NEW j \in T PROVE 0 .. j \in FiniteSubsetsOf(Nat)
          BY FS_Interval DEF FiniteSubsetsOf
    <2> QED BY <2>1
  <1>3. P # {}
      OBVIOUS
  <1>4. PICK p \in P : \A q \in P : ~ (<<q, p>> \in R)
    <2> HIDE DEF R, P
    <2> QED BY <1>1, <1>2, <1>3, WFMin
  <1>5. PICK x \in T : p = 0 .. x
      OBVIOUS
  <1>6. ASSUME NEW y \in T PROVE x <= y
    <2> SUFFICES ASSUME y < x PROVE FALSE
        OBVIOUS
    <2>1. 0 .. y \in P /\ 0 .. y \subseteq 0 .. x
          OBVIOUS
    <2>2. x \in 0 .. x /\ x \notin 0 .. y
          OBVIOUS
    <2>3. 0 .. y \in SUBSET Nat /\ 0 .. x \in SUBSET Nat
          OBVIOUS
    <2>4. <<0 .. y, 0 .. x>> \in R
          BY <2>1, <2>2, <2>3 DEF StrictSubsetOrdering
    <2> QED BY <1>4, <1>5, <2>1, <2>4
  <1> QED
      BY <1>6

\* f[i] is what a loop over 1 .. N has computed after i rounds.
Computes(f, N, S, first, Step) ==
    f \in [0 .. N -> S] /\ f[0] = first /\ \A i \in 1 .. N : f[i] = Step[i][f[i - 1]]

\* There is such a function, whatever the rounds do.
LEMMA Loop ==
    ASSUME NEW N \in Nat, NEW S, NEW first \in S, NEW Step \in [1 .. N -> [S -> S]]
    PROVE  \E f : Computes(f, N, S, first, Step)
  <1> DEFINE Goes(f, n) == f \in [0 .. n -> S] /\ f[0] = first /\ \A i \in 1 .. n : f[i] = Step[i][f[i - 1]]
             T == {n \in 0 .. N : ~ \E f : Goes(f, n)}
  <1>1. ASSUME T # {} PROVE FALSE
    <2>1. T \in SUBSET Nat
          OBVIOUS
    <2>2. PICK n \in T : \A m \in T : n <= m
      <3> HIDE DEF T
      <3> QED BY <2>1, <1>1, Least
    <2>3. n \in 0 .. N /\ ~ \E f : Goes(f, n)
          OBVIOUS
    <2>4. CASE n = 0
      <3>1. Goes([i \in 0 .. 0 |-> first], 0)
            OBVIOUS
      <3> HIDE DEF Goes
      <3> QED BY <2>3, <2>4, <3>1
    <2>5. CASE n # 0
      <3>1. n - 1 \in 0 .. N /\ n - 1 \notin T /\ n \in 1 .. N
        <4>1. n - 1 \in 0 .. N /\ n \in 1 .. N /\ ~ n <= n - 1
              BY <2>3, <2>5
        <4> HIDE DEF T
        <4> QED BY <4>1, <2>2
      <3>2. PICK f : Goes(f, n - 1)
            BY <3>1
      <3>3. n - 1 \in 0 .. n - 1 /\ f[n - 1] \in S /\ Step[n] \in [S -> S]
            BY <3>1, <3>2
      <3> DEFINE g == [i \in 0 .. n |-> IF i = n THEN Step[n][f[n - 1]] ELSE f[i]]
      <3>4. \A i \in 0 .. n : i = n \/ i \in 0 .. n - 1
            BY <3>1
      <3>5. g \in [0 .. n -> S]
            BY <3>2, <3>3, <3>4
      <3>6. g[0] = first
            BY <3>1, <3>2
      <3>7. ASSUME NEW i \in 1 .. n PROVE g[i] = Step[i][g[i - 1]]
        <4>1. i - 1 \in 0 .. n /\ i - 1 # n /\ g[i - 1] = f[i - 1]
              BY <3>1
        <4>2. CASE i = n
              BY <4>1, <4>2, <3>1
        <4>3. CASE i # n
          <5>1. i \in 1 .. n - 1
                BY <4>3, <3>1
          <5>2. f[i] = Step[i][f[i - 1]]
                BY <5>1, <3>2
          <5>3. g[i] = f[i]
                BY <4>3, <3>1
          <5> QED BY <4>1, <5>2, <5>3
        <4> QED BY <4>2, <4>3
      <3>8. Goes(g, n)
        <4> HIDE DEF g
        <4> QED BY <3>5, <3>6, <3>7
      <3> HIDE DEF Goes
      <3> QED BY <2>3, <3>8
    <2> QED BY <2>4, <2>5
  <1>2. \E f : Goes(f, N)
      BY <1>1
  <1> QED
      BY <1>2 DEF Computes

\* ip_prefix_match returns the number of leading bits two addresses share.
LEMMA PrefixMatch ==
    ASSUME NEW ipa \in Ip4, NEW ipb \in Ip4
    PROVE  /\ ip_prefix_match(ipa, ipb) \in 0 .. W
           /\ \A n \in 0 .. W : n <= ip_prefix_match(ipa, ipb) <=> \A i \in 1 .. n : ipa[i] = ipb[i]
  <1> DEFINE Ends(i) == i > W \/ ipa[i] # ipb[i]
             T(i) == {j \in 1 .. W + 1 : j >= i /\ Ends(j)}
             Rec(f) == f = [i \in 1 .. W + 1 |-> IF i > W \/ ipa[i] # ipb[i] THEN i - 1 ELSE f[i + 1]]
             same == CHOOSE f : Rec(f)
  <1>1. W \in Nat
      BY AddressAssumption
  <1>2. \A i \in 1 .. W + 1 : \E x \in T(i) : \A y \in T(i) : x <= y
    <2> SUFFICES ASSUME NEW i \in 1 .. W + 1 PROVE \E x \in T(i) : \A y \in T(i) : x <= y
        OBVIOUS
    <2>1. W + 1 \in T(i) /\ T(i) \in SUBSET Nat
          BY <1>1
    <2> HIDE DEF T
    <2> QED BY <2>1, Least
  <1>3. PICK first : \A i \in 1 .. W + 1 : first[i] \in T(i) /\ \A y \in T(i) : first[i] <= y
    <2> DEFINE f == [i \in 1 .. W + 1 |-> CHOOSE x \in T(i) : \A y \in T(i) : x <= y]
    <2>1. \A i \in 1 .. W + 1 : f[i] \in T(i) /\ \A y \in T(i) : f[i] <= y
      <3> HIDE DEF T
      <3> QED BY <1>2
    <2> HIDE DEF f
    <2> QED BY <2>1
  <1> DEFINE x == first[1]
  <1>4. \E f : Rec(f)
    <2>1. PICK g : g = [i \in 1 .. W + 1 |-> first[i] - 1]
          OBVIOUS
    <2>2. ASSUME NEW i \in 1 .. W + 1 PROVE g[i] = IF Ends(i) THEN i - 1 ELSE g[i + 1]
      <3>1. first[i] \in 1 .. W + 1 /\ first[i] >= i /\ Ends(first[i])
            BY <1>3
      <3>2. CASE Ends(i)
        <4>1. i \in T(i)
              BY <3>2, <1>1
        <4>2. first[i] <= i
              BY <4>1, <1>3
        <4>3. first[i] = i
              BY <4>2, <3>1, <1>1
        <4> QED BY <4>3, <3>2, <2>1
      <3>3. CASE ~ Ends(i)
        <4>1. i + 1 \in 1 .. W + 1 /\ first[i] # i
              BY <3>1, <3>3, <1>1
        <4>2. first[i + 1] \in T(i + 1) /\ \A y \in T(i + 1) : first[i + 1] <= y
              BY <4>1, <1>3
        <4>3. first[i] \in T(i + 1)
              BY <3>1, <4>1, <1>1
        <4>4. first[i + 1] \in T(i)
              BY <4>2, <1>1
        <4>5. first[i] <= first[i + 1] /\ first[i + 1] <= first[i]
              BY <4>2, <4>3, <4>4, <1>3
        <4>6. first[i] = first[i + 1]
              BY <4>2, <4>5, <3>1, <1>1
        <4> QED BY <4>1, <4>6, <3>3, <2>1
      <3> QED BY <3>2, <3>3
    <2>3. Rec(g)
          BY <2>1, <2>2
    <2> HIDE DEF Rec
    <2> QED BY <2>3
  <1>5. Rec(same)
    <2> HIDE DEF Rec
    <2> QED BY <1>4
  <1>6. ip_prefix_match(ipa, ipb) = same[1]
      BY DEF ip_prefix_match
  <1>7. x \in 1 .. W + 1 /\ Ends(x) /\ \A j \in 1 .. W + 1 : j < x => ~ Ends(j)
    <2>1. 1 \in 1 .. W + 1
          BY <1>1
    <2>2. x \in T(1) /\ \A y \in T(1) : x <= y
      <3> HIDE DEF T
      <3> QED BY <1>3, <2>1
    <2> QED BY <1>1, <2>2
  <1> HIDE DEF x, same
  <1>8. same[1] = x - 1
    <2> DEFINE U == {k \in 0 .. x - 1 : same[x - k] # x - 1}
    <2>1. ASSUME U # {} PROVE FALSE
      <3>1. U \in SUBSET Nat
            BY <1>1, <1>7
      <3>2. PICK k \in U : \A m \in U : k <= m
        <4> HIDE DEF U
        <4> QED BY <3>1, <2>1, Least
      <3>3. k \in 0 .. x - 1 /\ x - k \in 1 .. W + 1
            BY <1>1, <1>7
      <3>4. same[x - k] = IF Ends(x - k) THEN (x - k) - 1 ELSE same[(x - k) + 1]
            BY <3>3, <1>5
      <3>5. CASE k = 0
        <4>1. x - k = x
              BY <3>5, <1>1, <1>7
        <4> QED BY <4>1, <3>4, <1>7
      <3>6. CASE k # 0
        <4>1. k - 1 \in 0 .. x - 1 /\ k - 1 \notin U /\ x - (k - 1) = (x - k) + 1
              BY <3>2, <3>3, <3>6, <1>1, <1>7
        <4>2. same[x - (k - 1)] = x - 1
              BY <4>1
        <4>3. ~ Ends(x - k)
              BY <3>3, <3>6, <1>1, <1>7
        <4> QED BY <3>4, <4>1, <4>2, <4>3
      <3> QED BY <3>5, <3>6
    <2>2. x - 1 \in 0 .. x - 1 /\ x - (x - 1) = 1
          BY <1>1, <1>7
    <2> QED BY <2>1, <2>2
  <1>9. ASSUME NEW n \in 0 .. W
        PROVE  n <= x - 1 <=> \A i \in 1 .. n : ipa[i] = ipb[i]
    <2>1. CASE n <= x - 1
      <3>1. \A i \in 1 .. n : i \in 1 .. W + 1 /\ i < x
            BY <2>1, <1>1, <1>7
      <3> QED BY <2>1, <3>1, <1>7
    <2>2. CASE n > x - 1
      <3>1. x \in 1 .. n /\ ~ x > W
            BY <2>2, <1>1, <1>7
      <3> QED BY <2>2, <3>1, <1>1, <1>7
    <2> QED BY <2>1, <2>2, <1>1, <1>7
  <1>10. x - 1 \in 0 .. W
      BY <1>1, <1>7
  <1> QED
      BY <1>6, <1>8, <1>9, <1>10

\* match[if_num] of one interface: 0, or the bits its address shares with ours.
LEMMA MatchOne ==
    ASSUME NEW dev \in Seq(Address)
    PROVE  /\ Match(dev) \in 0 .. W
           /\ Len(dev) = 0 => Match(dev) = 0
           /\ Len(dev) = 1 =>
                 Match(dev) = IF ~ dev[1].inet THEN 0
                              ELSE IF ip_prefix_match(net_if_ip, dev[1].addr) < dev[1].mask THEN 0
                              ELSE ip_prefix_match(net_if_ip, dev[1].addr)
  <1> DEFINE N == Len(dev)
             P(a) == ip_prefix_match(net_if_ip, a.addr)
             Visit(m, a) == IF ~ a.inet THEN m ELSE IF P(a) < a.mask THEN 0 ELSE P(a)
             Step == [i \in 1 .. N |-> [m \in 0 .. W |-> Visit(m, dev[i])]]
             Rec(f) == f = [i \in 0 .. N |-> IF i = 0 THEN 0 ELSE Visit(f[i - 1], dev[i])]
             match == CHOOSE f : Rec(f)
  <1>1. N \in Nat /\ W \in Nat /\ \A i \in 1 .. N : dev[i] \in Address
      BY AddressAssumption
  <1>2. \A i \in 1 .. N : P(dev[i]) \in 0 .. W
      BY <1>1, AddressAssumption, PrefixMatch DEF Address
  <1>3. 0 \in 0 .. W
      BY <1>1
  <1> HIDE DEF P
  <1>4. \A i \in 1 .. N : \A m \in 0 .. W : Visit(m, dev[i]) \in 0 .. W
      BY <1>2, <1>3
  <1>5. Step \in [1 .. N -> [0 .. W -> 0 .. W]]
    <2> HIDE DEF Visit
    <2> QED BY <1>4
  <1>6. PICK f : f \in [0 .. N -> 0 .. W] /\ f[0] = 0 /\ \A i \in 1 .. N : f[i] = Step[i][f[i - 1]]
    <2> HIDE DEF Step, N
    <2>1. \E f : Computes(f, N, 0 .. W, 0, Step)
          BY <1>1, <1>3, <1>5, Loop
    <2> QED BY <2>1 DEF Computes
  <1>7. \A i \in 1 .. N : f[i] = Visit(f[i - 1], dev[i])
    <2> SUFFICES ASSUME NEW i \in 1 .. N PROVE f[i] = Visit(f[i - 1], dev[i])
        OBVIOUS
    <2>1. i - 1 \in 0 .. N
          BY <1>1
    <2> HIDE DEF Visit
    <2>2. f[i - 1] \in 0 .. W
      <3> HIDE DEF Step, N
      <3> QED BY <1>6, <2>1
    <2> QED BY <1>6, <2>2
  <1>8. Rec(f)
    <2> HIDE DEF Visit
    <2>1. \A i \in 0 .. N : i = 0 \/ i \in 1 .. N
          BY <1>1
    <2>2. \A i \in 0 .. N : f[i] = IF i = 0 THEN 0 ELSE Visit(f[i - 1], dev[i])
          BY <1>6, <1>7, <2>1
    <2>3. f = [i \in 0 .. N |-> f[i]]
          BY <1>6
    <2> QED BY <2>2, <2>3
  <1>9. Rec(match)
    <2> HIDE DEF Rec
    <2> QED BY <1>8
  <1>10. Match(dev) = match[N]
      BY DEF Match, P
  <1> HIDE DEF match
  <1>11. match[0] = 0 /\ \A i \in 1 .. N : match[i] = Visit(match[i - 1], dev[i])
    <2> HIDE DEF Visit
    <2>1. 0 \in 0 .. N /\ \A i \in 1 .. N : i \in 0 .. N /\ i # 0
          BY <1>1
    <2> QED BY <1>9, <2>1
  <1>12. \A i \in 0 .. N : match[i] \in 0 .. W
    <2> DEFINE U == {i \in 0 .. N : match[i] \notin 0 .. W}
    <2>1. ASSUME U # {} PROVE FALSE
      <3>1. U \in SUBSET Nat
            BY <1>1
      <3>2. PICK k \in U : \A m \in U : k <= m
        <4> HIDE DEF U
        <4> QED BY <3>1, <2>1, Least
      <3>3. k # 0
            BY <1>3, <1>11
      <3>4. k \in 1 .. N /\ k - 1 \in 0 .. N /\ k - 1 < k
            BY <3>3, <1>1
      <3>5. match[k - 1] \in 0 .. W
            BY <3>1, <3>2, <3>4
      <3>6. match[k] \in 0 .. W
        <4> HIDE DEF Visit
        <4> QED BY <3>4, <3>5, <1>4, <1>11
      <3> QED BY <3>6
    <2> QED BY <2>1
  <1>13. Match(dev) \in 0 .. W
      BY <1>1, <1>10, <1>12
  <1>14. N = 0 => Match(dev) = 0
      BY <1>10, <1>11
  <1>15. N = 1 => Match(dev) = Visit(0, dev[1])
    <2> HIDE DEF Visit
    <2> QED BY <1>10, <1>11
  <1> QED
      BY <1>13, <1>14, <1>15 DEF P

\* The netmask of an interface with one address.
LEMMA MaskOne ==
    ASSUME NEW dev \in Seq(Address), Len(dev) = 1, dev[1].inet
    PROVE  Mask(dev) = dev[1].mask
  <1> DEFINE Visit(m, a) == IF a.inet THEN a.mask ELSE m
             Rec(f) == f = [i \in 0 .. Len(dev) |-> IF i = 0 THEN 0 ELSE Visit(f[i - 1], dev[i])]
             mask == CHOOSE f : Rec(f)
  <1>1. Rec([i \in 0 .. 1 |-> IF i = 0 THEN 0 ELSE dev[1].mask])
      OBVIOUS
  <1>2. Rec(mask)
    <2> HIDE DEF Rec
    <2> QED BY <1>1
  <1>3. Mask(dev) = mask[Len(dev)]
      BY DEF Mask
  <1> HIDE DEF mask
  <1> QED
      BY <1>2, <1>3

\* The loop over match[] finds the greatest, the first of those that are equal.
LEMMA LongestMatch ==
    ASSUME NEW devs \in Seq(Seq(Address))
    PROVE  LET best == Longest(devs)
           IN  /\ best.max_match \in 0 .. W
               /\ \A j \in 1 .. Len(devs) : Match(devs[j]) <= best.max_match
               /\ best.max_match > 0 => best.max_if \in 1 .. Len(devs) /\ Match(devs[best.max_if]) = best.max_match
  <1> DEFINE N == Len(devs)
             M(i) == Match(devs[i])
             S == [max_if : Nat, max_match : 0 .. W]
             none == [max_if |-> 1, max_match |-> 0]
             Visit(b, i) == IF M(i) > b.max_match THEN [max_if |-> i, max_match |-> M(i)] ELSE b
             Step == [i \in 1 .. N |-> [b \in S |-> Visit(b, i)]]
             Rec(f) == f = [i \in 0 .. N |-> IF i = 0 THEN none ELSE Visit(f[i - 1], i)]
             best == CHOOSE f : Rec(f)
  <1>1. N \in Nat /\ W \in Nat /\ \A i \in 1 .. N : devs[i] \in Seq(Address)
      BY AddressAssumption
  <1>2. \A i \in 1 .. N : M(i) \in 0 .. W
      BY <1>1, MatchOne
  <1> HIDE DEF M
  <1>3. none \in S
      BY <1>1
  <1>4. \A i \in 1 .. N : \A b \in S : Visit(b, i) \in S
      BY <1>1, <1>2
  <1>5. Step \in [1 .. N -> [S -> S]]
    <2> HIDE DEF Visit, S
    <2> QED BY <1>4
  <1>6. PICK f : f \in [0 .. N -> S] /\ f[0] = none /\ \A i \in 1 .. N : f[i] = Step[i][f[i - 1]]
    <2> HIDE DEF Step, N, S, none
    <2>1. \E f : Computes(f, N, S, none, Step)
          BY <1>1, <1>3, <1>5, Loop
    <2> QED BY <2>1 DEF Computes
  <1>7. \A i \in 1 .. N : f[i] = Visit(f[i - 1], i)
    <2> SUFFICES ASSUME NEW i \in 1 .. N PROVE f[i] = Visit(f[i - 1], i)
        OBVIOUS
    <2>1. i - 1 \in 0 .. N
          BY <1>1
    <2> HIDE DEF Visit, S
    <2>2. f[i - 1] \in S
      <3> HIDE DEF Step, N
      <3> QED BY <1>6, <2>1
    <2> QED BY <1>6, <2>2
  <1>8. Rec(f)
    <2> HIDE DEF Visit, S, none
    <2>1. \A i \in 0 .. N : i = 0 \/ i \in 1 .. N
          BY <1>1
    <2>2. \A i \in 0 .. N : f[i] = IF i = 0 THEN none ELSE Visit(f[i - 1], i)
          BY <1>6, <1>7, <2>1
    <2>3. f = [i \in 0 .. N |-> f[i]]
          BY <1>6
    <2> QED BY <2>2, <2>3
  <1>9. Rec(best)
    <2> HIDE DEF Rec
    <2> QED BY <1>8
  <1>10. Longest(devs) = best[N]
      BY DEF Longest, M
  <1> HIDE DEF best
  <1>11. best[0] = none /\ \A i \in 1 .. N : best[i] = Visit(best[i - 1], i)
    <2> HIDE DEF Visit, none
    <2>1. 0 \in 0 .. N /\ \A i \in 1 .. N : i \in 0 .. N /\ i # 0
          BY <1>1
    <2> QED BY <1>9, <2>1
  <1> DEFINE Good(b, i) ==
                 /\ b \in S
                 /\ \A j \in 1 .. i : M(j) <= b.max_match
                 /\ b.max_match > 0 => b.max_if \in 1 .. i /\ M(b.max_if) = b.max_match
  <1>12. Good(none, 0)
      BY <1>3
  <1>13. ASSUME NEW i \in 1 .. N, NEW b, Good(b, i - 1) PROVE Good(Visit(b, i), i)
    <2>1. \A j \in 1 .. i : j = i \/ j \in 1 .. i - 1
          BY <1>1
    <2>2. \A j \in 1 .. i - 1 : j \in 1 .. i /\ j \in 1 .. N
          BY <1>1
    <2>3. M(i) \in 0 .. W /\ b.max_match \in 0 .. W
          BY <1>2, <1>13
    <2>4. CASE M(i) > b.max_match
      <3>1. Visit(b, i) = [max_if |-> i, max_match |-> M(i)]
            BY <2>4
      <3>2. \A j \in 1 .. i - 1 : M(j) <= M(i)
            BY <1>1, <1>2, <1>13, <2>2, <2>3, <2>4
      <3>3. \A j \in 1 .. i : M(j) <= M(i)
            BY <1>1, <2>1, <2>3, <3>2
      <3>4. Visit(b, i) \in S
            BY <1>1, <2>3, <3>1
      <3> HIDE DEF Visit, S
      <3> QED BY <1>1, <3>1, <3>3, <3>4
    <2>5. CASE ~ M(i) > b.max_match
      <3>1. Visit(b, i) = b
            BY <2>5
      <3>2. M(i) <= b.max_match
            BY <1>1, <2>3, <2>5
      <3> HIDE DEF Visit, S
      <3> QED BY <1>13, <2>1, <2>2, <3>1, <3>2
    <2> QED BY <2>4, <2>5
  <1>14. \A i \in 0 .. N : Good(best[i], i)
    <2> HIDE DEF Good, Visit, none
    <2> DEFINE U == {i \in 0 .. N : ~ Good(best[i], i)}
    <2>1. ASSUME U # {} PROVE FALSE
      <3>1. U \in SUBSET Nat
            BY <1>1
      <3>2. PICK k \in U : \A m \in U : k <= m
        <4> HIDE DEF U
        <4> QED BY <3>1, <2>1, Least
      <3>3. k # 0
            BY <1>11, <1>12
      <3>4. k \in 1 .. N /\ k - 1 \in 0 .. N /\ k - 1 < k
            BY <3>3, <1>1
      <3>5. Good(best[k - 1], k - 1)
            BY <3>1, <3>2, <3>4
      <3>6. Good(best[k], k)
            BY <3>4, <3>5, <1>11, <1>13
      <3> QED BY <3>6
    <2> QED BY <2>1
  <1>15. Good(best[N], N)
      BY <1>1, <1>14
  <1> QED
      BY <1>10, <1>15 DEF M

\* An interface with one address: the match is as long as the prefix if the
\* address is in the subnet of this host, and there is none otherwise.
LEMMA MatchShared ==
    ASSUME NEW dev \in Seq(Address), Len(dev) <= 1
    PROVE  /\ \A a \in Addresses(dev) : \A n \in 1 .. W : Shared(a, n) <=> n <= Match(dev)
           /\ Match(dev) > 0 => \E a \in Addresses(dev) : a.mask = Mask(dev)
  <1>1. W \in Nat /\ Len(dev) \in Nat /\ DOMAIN dev = 1 .. Len(dev)
      BY AddressAssumption
  <1>2. CASE Len(dev) = 0
    <2>1. Match(dev) = 0
          BY <1>2, MatchOne
    <2>2. Addresses(dev) = {}
          BY <1>1, <1>2 DEF Addresses
    <2> QED BY <2>1, <2>2
  <1>3. CASE Len(dev) = 1
    <2> DEFINE a == dev[1]
               p == ip_prefix_match(net_if_ip, a.addr)
    <2>1. DOMAIN dev = {1} /\ a \in Address
          BY <1>1, <1>3
    <2>2. a.addr \in Ip4 /\ net_if_ip \in Ip4 /\ a.mask \in 0 .. W /\ a.inet \in BOOLEAN
          BY <2>1, AddressAssumption DEF Address
    <2>3. p \in 0 .. W /\ \A n \in 0 .. W : n <= p <=> \A i \in 1 .. n : net_if_ip[i] = a.addr[i]
          BY <2>2, PrefixMatch
    <2>4. \A n \in 0 .. W : n <= p <=> Shared(a, n)
          BY <2>3 DEF Shared
    <2>5. Match(dev) = IF ~ a.inet THEN 0 ELSE IF p < a.mask THEN 0 ELSE p
          BY <1>3, MatchOne
    <2>6. \A b : b \in Addresses(dev) <=> b = a /\ a.inet /\ Shared(a, a.mask)
          BY <2>1 DEF Addresses
    <2> HIDE DEF a, p
    <2>7. \A b \in Addresses(dev) : b = a /\ Match(dev) = p
          BY <1>1, <2>2, <2>3, <2>4, <2>5, <2>6
    <2>8. \A b \in Addresses(dev) : \A n \in 1 .. W : Shared(b, n) <=> n <= Match(dev)
          BY <1>1, <2>4, <2>7
    <2>9. ASSUME Match(dev) > 0 PROVE a \in Addresses(dev) /\ a.mask = Mask(dev)
      <3>1. a.inet /\ ~ p < a.mask
            BY <2>5, <2>9
      <3>2. a.mask <= p
            BY <1>1, <2>2, <2>3, <3>1
      <3>3. Shared(a, a.mask)
            BY <2>2, <2>4, <3>2
      <3>4. Mask(dev) = a.mask
            BY <1>3, <3>1, MaskOne DEF a
      <3> QED BY <2>6, <3>1, <3>3, <3>4
    <2> QED BY <2>8, <2>9
  <1> QED
      BY <1>1, <1>2, <1>3

\* What driver_find returns for any list of interfaces (driver.c:42).
LEMMA FindLongest ==
    ASSUME NEW devs \in Seq(Seq(Address)) PROVE LongestPrefix(devs)
  <1> DEFINE best == Longest(devs)
             found == driver_find(devs)
             all == UNION {Addresses(devs[i]) : i \in DOMAIN devs}
  <1> SUFFICES ASSUME \A i \in DOMAIN devs : Len(devs[i]) <= 1
               PROVE  IF found.dev # 0
                      THEN \E a \in Addresses(devs[found.dev]) :
                             /\ a.mask = found.mask /\ ~ Shared(a, W)
                             /\ \A b \in all : \A n \in 1 .. W : Shared(b, n) => Shared(a, n)
                      ELSE \/ \E b \in all : Shared(b, W)
                           \/ \A b \in all : ~ Shared(b, 1)
      BY DEF LongestPrefix
  <1>1. W \in Nat /\ Len(devs) \in Nat /\ DOMAIN devs = 1 .. Len(devs)
      BY AddressAssumption
  <1>2. /\ best.max_match \in 0 .. W
        /\ \A j \in 1 .. Len(devs) : Match(devs[j]) <= best.max_match
        /\ best.max_match > 0 => best.max_if \in 1 .. Len(devs) /\ Match(devs[best.max_if]) = best.max_match
      BY LongestMatch
  <1>3. \A i \in DOMAIN devs :
           /\ Match(devs[i]) \in 0 .. W
           /\ \A a \in Addresses(devs[i]) : \A n \in 1 .. W : Shared(a, n) <=> n <= Match(devs[i])
           /\ Match(devs[i]) > 0 => \E a \in Addresses(devs[i]) : a.mask = Mask(devs[i])
    <2> SUFFICES ASSUME NEW i \in DOMAIN devs
                 PROVE  /\ Match(devs[i]) \in 0 .. W
                        /\ \A a \in Addresses(devs[i]) : \A n \in 1 .. W : Shared(a, n) <=> n <= Match(devs[i])
                        /\ Match(devs[i]) > 0 => \E a \in Addresses(devs[i]) : a.mask = Mask(devs[i])
        OBVIOUS
    <2>1. devs[i] \in Seq(Address) /\ Len(devs[i]) <= 1
          BY <1>1
    <2> QED BY <2>1, MatchOne, MatchShared
  <1>4. found = IF best.max_match \in {0, W} THEN [dev |-> 0, mask |-> 0]
                ELSE [dev |-> best.max_if, mask |-> Mask(devs[best.max_if])]
      BY DEF driver_find
  <1> HIDE DEF best, found
  <1>5. CASE best.max_match \notin {0, W}
    <2>1. best.max_match > 0 /\ best.max_match < W /\ best.max_if \in DOMAIN devs /\ W \in 1 .. W
          BY <1>1, <1>2, <1>5
    <2>2. found.dev = best.max_if /\ found.mask = Mask(devs[best.max_if]) /\ found.dev # 0
          BY <1>1, <1>4, <1>5, <2>1
    <2>3. Match(devs[best.max_if]) = best.max_match
          BY <1>2, <2>1
    <2>4. PICK a \in Addresses(devs[best.max_if]) : a.mask = Mask(devs[best.max_if])
          BY <1>3, <2>1, <2>3
    <2>5. \A n \in 1 .. W : Shared(a, n) <=> n <= best.max_match
          BY <1>3, <2>1, <2>3
    <2>6. ~ Shared(a, W)
          BY <1>1, <1>2, <2>1, <2>5
    <2>7. \A b \in all : \A n \in 1 .. W : Shared(b, n) => Shared(a, n)
      <3> SUFFICES ASSUME NEW i \in DOMAIN devs, NEW b \in Addresses(devs[i]), NEW n \in 1 .. W, Shared(b, n)
                   PROVE  Shared(a, n)
          OBVIOUS
      <3>1. n <= Match(devs[i]) /\ Match(devs[i]) <= best.max_match
            BY <1>1, <1>2, <1>3
      <3>2. n <= best.max_match
            BY <1>1, <1>2, <1>3, <3>1
      <3> QED BY <2>5, <3>2
    <2> HIDE DEF all
    <2> QED BY <2>2, <2>4, <2>6, <2>7
  <1>6. CASE best.max_match = 0
    <2>1. found.dev = 0
          BY <1>4, <1>6
    <2>2. CASE W = 0
      <3>1. \A b : Shared(b, W)
            BY <2>2 DEF Shared
      <3> QED BY <2>1, <3>1
    <2>3. CASE W # 0
      <3>1. \A i \in DOMAIN devs : \A b \in Addresses(devs[i]) : ~ Shared(b, 1)
        <4> SUFFICES ASSUME NEW i \in DOMAIN devs, NEW b \in Addresses(devs[i]) PROVE ~ Shared(b, 1)
            OBVIOUS
        <4>1. 1 \in 1 .. W /\ ~ 1 <= Match(devs[i])
              BY <1>1, <1>2, <1>3, <1>6, <2>3
        <4> QED BY <4>1, <1>3
      <3> QED BY <2>1, <3>1
    <2> QED BY <2>2, <2>3
  <1>7. CASE best.max_match = W /\ W # 0
    <2>1. found.dev = 0 /\ best.max_match > 0 /\ W \in 1 .. W
          BY <1>1, <1>4, <1>7
    <2>2. best.max_if \in DOMAIN devs /\ Match(devs[best.max_if]) = W
          BY <1>1, <1>2, <1>7, <2>1
    <2>3. PICK a \in Addresses(devs[best.max_if]) : TRUE
          BY <1>1, <1>3, <1>7, <2>1, <2>2
    <2>4. Shared(a, W)
          BY <1>1, <1>3, <2>1, <2>2
    <2>5. a \in all
          BY <2>2
    <2> HIDE DEF all
    <2> QED BY <2>1, <2>4, <2>5
  <1> QED
      BY <1>1, <1>5, <1>6, <1>7

(* No function of the stack comes back to net_init.                          *)
LEMMA StartsOnce == TypeOK /\ Next => pc' # "net_init"
  <1> SUFFICES ASSUME TypeOK, Next PROVE pc' # "net_init"
      OBVIOUS
  <1>1. Return => pc' # "net_init"
      BY DEF Return
  <1>2. \A protocol : Handler(protocol) # "net_init" /\ (protocol \in net_table => protocol # "net_init")
      BY DEF TypeOK, Handler, Protocol
  <1>3. CASE net_init
      BY <1>1, <1>3 DEF net_init
  <1>4. CASE UdpPort
      BY <1>4 DEF UdpPort
  <1>5. ASSUME NEW f \in FrameSet, driver_recv(f) PROVE pc' # "net_init"
      BY <1>5 DEF driver_recv
  <1>6. CASE ethernet_in
      BY <1>1, <1>2, <1>6 DEF ethernet_in
  <1>7. CASE arp_in
      BY <1>1, <1>7 DEF arp_in
  <1>8. CASE ip_in
      BY <1>1, <1>2, <1>8 DEF ip_in
  <1>9. CASE icmp_in
      BY <1>1, <1>9 DEF icmp_in
  <1>10. CASE udp_in
      BY <1>1, <1>10 DEF udp_in
  <1>11. CASE tcp_in
      BY <1>1, <1>11 DEF tcp_in
  <1> QED
      BY <1>3, <1>4, <1>5, <1>6, <1>7, <1>8, <1>9, <1>10, <1>11 DEF Next

(* Theorem: the interface this host listens on is the one of its own subnet  *)
(* with the longest prefix, and none is found only where there is no such    *)
(* interface or one has the address of this host; for any list of interfaces *)
(* with an address each.                                                     *)
THEOREM FindsLongestPrefix == Spec => []FindsLongest
  <1> DEFINE Listed == pc = "net_init" => alldevs \in Interfaces
  <1>1. Init => Listed
      BY DEF Init
  <1>2. TypeOK /\ Listed /\ [Next]_vars => Listed'
    <2> SUFFICES ASSUME TypeOK, Listed, [Next]_vars PROVE Listed'
        OBVIOUS
    <2>1. CASE UNCHANGED vars
          BY <2>1 DEF vars
    <2>2. CASE Next
          BY <2>2, StartsOnce
    <2> QED BY <2>1, <2>2
  <1>3. Listed => FindsLongest
      BY FindLongest, InterfaceAssumption DEF FindsLongest
  <1> QED
      BY <1>1, <1>2, <1>3, ReceiveTypes, PTL DEF Spec
=============================================================================
