------------------------------- MODULE RxPath -------------------------------
(* A frame on its way up: net_init and net_in of src/net.c, driver_recv,    *)
(* ethernet_in, ip_in, icmp.c, udp.c with the echo application of main.c,   *)
(* and tcp_in up to the state machine of module Tcp.  There is one buffer   *)
(* for all frames, rxbuf, and every layer works in it by moving its start.  *)
(*                                                                          *)
(* Positions are offsets in rxbuf.payload.  The contents of a frame are     *)
(* what the tests of the code find in it.  Bytes are followed as far as to  *)
(* know which were overwritten since the frame came in (dirty).             *)
EXTENDS Driver

CONSTANTS
    Interfaces,   \* lists pcap_findalldevs may return
    FrameSet,     \* frames that may arrive
    MaxFrames     \* bound: frames received

BUF_MAX_LEN == 131325
EtherLen == 14
IpLen == 20
UdpLen == 8
IcmpLen == 8
TcpLen == 20
PseudoLen == 12
MTU == 1500

Protocol == {"arp", "ip", "icmp", "udp", "tcp"}

\* n: length.  type: what length_type is, a protocol or "length", "invalid".
\* fault: which test of ip_in fails.  total: total_len16 of the IP header.
\* l4: what the tests of icmp_in, udp_in or tcp_in find.
Fields == [dst : {"me", "broadcast", "other"}, n : Nat,
           type : {"arp", "ip", "other", "length", "invalid"},
           fault : {"none", "header", "flag", "destination", "checksum"}, total : Nat,
           proto : {"icmp", "udp", "tcp", "other"},
           l4 : {"request", "other", "length", "port", "nosum", "badsum", "good"}]
Frame == {f \in Fields : f.n >= EtherLen /\ f.n <= 65536 /\ f.total <= 65535}

ASSUME InterfaceAssumption == Interfaces \subseteq Seq(Seq(Address))
ASSUME FrameAssumption == FrameSet \subseteq Frame /\ FrameSet # {} /\ MaxFrames \in Nat

VARIABLES
    pc,           \* the function that runs next
    alldevs,      \* interfaces of this machine, while driver_find runs
    net_table,    \* protocols with a handler
    udp_table,    \* whether a handler of port 60000 is open
    rx,           \* rxbuf: start and length
    frame, start, \* history: the last frame and where it was put
    dirty,        \* history: bytes overwritten since
    out,          \* history: bytes the last frame made this host pass on
    frames        \* history: frames received

vars == <<pc, alldevs, net_table, udp_table, rx, frame, start, dirty, out, frames>>

Nothing == [kind |-> "nothing", from |-> 0, to |-> 0]
PassOn(kind, b, header) == [kind |-> kind, from |-> b.data + header, to |-> b.data + b.len]
Bytes(from, to) == from .. to - 1
Return == pc' = "net_poll"

Init ==
    /\ pc = "net_init"
    /\ alldevs \in Interfaces
    /\ net_table = {} /\ udp_table = FALSE
    /\ rx = [data |-> 0, len |-> 0]
    /\ frame \in {CHOOSE f \in FrameSet : TRUE}
    /\ start = 0 /\ dirty = {} /\ out = Nothing /\ frames = 0

-----------------------------------------------------------------------------
(* buf.c                                                                    *)

buf_init(len) == [data |-> BUF_MAX_LEN \div 2 - len, len |-> len]

buf_add_header(b, n) ==
    IF b.data < n THEN b ELSE [data |-> b.data - n, len |-> b.len + n]

\* Mutant: without looking at the length.
RemoveBlindly(b, n) == [data |-> b.data + n, len |-> b.len - n]

buf_remove_header(b, n) ==
    IF b.len < n THEN b ELSE [data |-> b.data + n, len |-> b.len - n]

\* Mutant: nothing is cut off.
KeepPadding(b, n) == b

\* A negative n is a size_t that wrapped, more than any length.
buf_remove_padding(b, n) ==
    IF n \in 0 .. b.len THEN [data |-> b.data, len |-> b.len - n] ELSE b

\* The assertions of buf_copy.
Copyable(b) == b.data >= 0 /\ b.len <= BUF_MAX_LEN /\ b.data + b.len < BUF_MAX_LEN

-----------------------------------------------------------------------------
(* Start                                                                    *)

\* net_init and main: interface, rxbuf, handlers; pcap itself may fail as well.
net_init ==
    /\ pc = "net_init"
    /\ alldevs' = <<>>
    /\ UNCHANGED <<frame, start, dirty, out, frames>>
    /\ \/ /\ driver_find(alldevs).dev # 0
          /\ rx' = buf_init(MTU + EtherLen)
          /\ net_table' = Protocol
          /\ udp_table' = TRUE
          /\ Return
       \/ pc' = "stopped" /\ UNCHANGED <<rx, net_table, udp_table>>

\* udp_open and udp_close, as an application may call them between two polls.
UdpPort ==
    /\ pc = "net_poll"
    /\ udp_table' = ~ udp_table
    /\ UNCHANGED <<pc, alldevs, net_table, rx, frame, start, dirty, out, frames>>

-----------------------------------------------------------------------------
(* One frame                                                                *)

Unchanged == UNCHANGED <<alldevs, net_table, udp_table, frame, start, frames>>

\* The frame is copied to where rxbuf starts.
driver_recv(f) ==
    /\ pc = "net_poll" /\ frames < MaxFrames
    /\ rx' = [data |-> rx.data, len |-> f.n]
    /\ frame' = f /\ start' = rx.data /\ frames' = frames + 1
    /\ dirty' = {} /\ out' = Nothing
    /\ pc' = "ethernet_in"
    /\ UNCHANGED <<alldevs, net_table, udp_table>>

\* net_in: the handler of the protocol, if it has one.
Handler(protocol) == IF protocol \in net_table THEN protocol ELSE "net_poll"

ethernet_in ==
    /\ pc = "ethernet_in"
    /\ IF frame.dst # "other" /\ frame.type \notin {"length", "invalid"}
       THEN rx' = buf_remove_header(rx, EtherLen) /\ pc' = Handler(frame.type)
       ELSE UNCHANGED rx /\ Return
    /\ UNCHANGED <<dirty, out>> /\ Unchanged

\* arp_in (module Arp) leaves rxbuf as it is.
arp_in == pc = "arp" /\ Return /\ UNCHANGED <<rx, dirty, out>> /\ Unchanged

\* icmp_unreachable quotes the IP header and 8 bytes.
icmp_unreachable(b) == [kind |-> "unreachable", from |-> b.data, to |-> b.data + IpLen + 8]

\* What is quoted when the protocol of the packet is not known.
QuoteUnknown(b) == buf_add_header(b, IpLen)

\* Tests, then the padding of the frame and the IP header are removed.  A header
\* with options is not longer for ip.c:63, and lengths that do not fit leave the
\* buffer as it is.  The checksum is set to 0 while it is computed.
ip_in ==
    /\ pc = "ip"
    /\ LET b == buf_remove_header(buf_remove_padding(rx, rx.len - frame.total), IpLen)
           big == frame.fault = "flag" /\ rx.len > MTU
       IN  \/ /\ rx.len < IpLen \/ frame.fault \in {"header", "destination", "checksum"}
              /\ dirty' = IF rx.len >= IpLen /\ frame.fault = "checksum"
                          THEN Bytes(rx.data + 10, rx.data + 12) ELSE dirty
              /\ Return /\ UNCHANGED <<rx, out>>
           \/ /\ rx.len >= IpLen /\ big
              /\ out' = icmp_unreachable(rx)
              /\ Return /\ UNCHANGED <<rx, dirty>>
           \/ /\ rx.len >= IpLen /\ frame.fault \in {"none", "flag"} /\ ~ big
              /\ frame.proto \in net_table
              /\ rx' = b /\ pc' = frame.proto /\ UNCHANGED <<out, dirty>>
           \/ /\ rx.len >= IpLen /\ frame.fault \in {"none", "flag"} /\ ~ big
              /\ frame.proto \notin net_table
              /\ rx' = QuoteUnknown(b)
              /\ out' = icmp_unreachable(rx')
              /\ Return /\ UNCHANGED dirty
    /\ Unchanged

\* icmp_in and icmp_resp: a request is copied to txbuf, whole, and sent back.
icmp_in ==
    /\ pc = "icmp"
    /\ IF rx.len < IcmpLen \/ frame.l4 # "request" THEN Return /\ UNCHANGED out
       ELSE IF Copyable(rx) THEN Return /\ out' = PassOn("echo", rx, 0)
       ELSE pc' = "stopped" /\ UNCHANGED out
    /\ UNCHANGED <<rx, dirty>> /\ Unchanged

\* Mutant: the IP header is put back while the pseudo-header is still in front.
RestoreInFront(b) ==
    (dirty \cup Bytes(b.data - PseudoLen, b.data)) \ Bytes(b.data - PseudoLen - IpLen, b.data - PseudoLen)

\* What udp_checksum leaves behind: the pseudo-header lies over the end of the IP
\* header, which is put back, and a 0 behind a datagram of odd length stays.
udp_checksum(b) ==
    (dirty \cup Bytes(b.data - PseudoLen, b.data)
           \cup (IF b.len % 2 = 1 THEN {b.data + b.len} ELSE {}))
    \ Bytes(b.data - IpLen, b.data)

\* udp_in, with udp_handler of main.c, which sends the data back.  A checksum
\* that is wrong stays 0.
udp_in ==
    /\ pc = "udp"
    /\ LET deliver == IF udp_table THEN PassOn("deliver", rx, UdpLen) ELSE out
       IN  \/ /\ rx.len < UdpLen \/ frame.l4 \notin {"nosum", "badsum", "good"}
              /\ Return /\ UNCHANGED <<dirty, out>>
           \/ /\ rx.len >= UdpLen /\ frame.l4 = "nosum"
              /\ Return /\ out' = deliver /\ UNCHANGED dirty
           \/ /\ rx.len >= UdpLen /\ frame.l4 \in {"badsum", "good"}
              /\ IF rx.len % 2 = 1 /\ rx.data + rx.len + 1 >= BUF_MAX_LEN
                 THEN pc' = "stopped" /\ UNCHANGED <<dirty, out>>
                 ELSE IF frame.l4 = "good"
                 THEN Return /\ dirty' = udp_checksum(rx) /\ out' = deliver
                 ELSE /\ Return /\ UNCHANGED out
                      /\ dirty' = udp_checksum(rx) \cup Bytes(rx.data + 6, rx.data + 8)
    /\ UNCHANGED rx /\ Unchanged

\* Mutant: the longest header.
WholeSegment(b) == buf_remove_header(b, 60)

Segment(b) == buf_remove_header(b, TcpLen)

\* tcp_in: a segment of a known port reaches the state machine of module Tcp, which
\* keeps the header of some and removes that of others.  The pseudo-header is
\* built over the IP header and taken away again.
tcp_in ==
    /\ pc = "tcp"
    /\ \/ /\ rx.len < TcpLen \/ frame.l4 \notin {"badsum", "port", "good"}
          /\ UNCHANGED <<rx, dirty, out>>
       \/ /\ rx.len >= TcpLen /\ frame.l4 = "badsum"
          /\ dirty' = dirty \cup Bytes(rx.data + 16, rx.data + 18)
          /\ UNCHANGED <<rx, out>>
       \/ /\ rx.len >= TcpLen /\ frame.l4 = "port"
          /\ UNCHANGED <<rx, dirty, out>>
       \/ /\ rx.len >= TcpLen /\ frame.l4 = "good"
          /\ rx' \in {rx, Segment(rx)}
          /\ out' = PassOn("segment", rx, 0)
          /\ UNCHANGED dirty
    /\ Return /\ Unchanged

Next ==
    \/ net_init
    \/ UdpPort
    \/ \E f \in FrameSet : driver_recv(f)
    \/ ethernet_in \/ arp_in \/ ip_in \/ icmp_in \/ udp_in \/ tcp_in

Spec == Init /\ [][Next]_vars

-----------------------------------------------------------------------------
(* Properties                                                               *)

Places == Protocol \cup {"net_init", "net_poll", "ethernet_in", "stopped"}
Passed == [kind : {"nothing", "echo", "deliver", "unreachable", "segment"}, from : Nat, to : Nat]
Buffer == [data : Nat, len : Nat]

\* Every length stays one of a frame, and a header is removed only from a buffer
\* that holds it: what the layers compute from the lengths a frame claims.
TypeOK ==
    /\ pc \in Places
    /\ net_table \subseteq Protocol /\ udp_table \in BOOLEAN
    /\ rx \in Buffer /\ rx.len <= 65536
    /\ frame \in Frame /\ start \in Nat /\ frames \in Nat /\ dirty \subseteq Int
    /\ out \in Passed

\* The interface this host listens on is the one of its own subnet (driver_find).
FindsLongest == pc = "net_init" => LongestPrefix(alldevs)

\* The last frame was an IP packet whose header is no longer than the packet.
Whole == frame.type = "ip" /\ frame.total >= IpLen
Ip == start + EtherLen
End == IF frame.total <= frame.n - EtherLen THEN Ip + frame.total ELSE start + frame.n

\* An echo, a datagram and a segment are passed on from the byte behind their
\* header to the last byte of the IP packet, never padding, and an error
\* quotes the packet from its first byte on: whatever frames came before, and
\* however the lengths of the frame, of the packet and of the buffer disagree.
PassedOnIsOurs ==
    Whole =>
        /\ out.kind \in {"echo", "segment"} => out.from = Ip + IpLen /\ out.to = End
        /\ out.kind = "deliver" => out.from = Ip + IpLen + UdpLen /\ out.to = End
        /\ out.kind = "unreachable" => out.from = Ip /\ out.to = Ip + IpLen + 8

\* What is passed on, and the IP header the source address is read from, are the
\* bytes that were received, although the checksums are computed in place.
OutIsClean ==
    Whole /\ out.kind # "nothing" => dirty \cap (Bytes(out.from, out.to) \cup Bytes(Ip, Ip + IpLen)) = {}

\* Every frame moves the start of rxbuf by the headers removed from it at most, and
\* nothing moves it back by more than a header that was not removed.
Start == BUF_MAX_LEN \div 2 - (MTU + EtherLen)
Headers == EtherLen + IpLen + TcpLen
DriftBounded ==
    pc \notin {"net_init", "stopped"} =>
        /\ rx.data >= Start - (IpLen - EtherLen) * frames
        /\ rx.data <= Start + Headers * frames

\* The assertions of buf_copy hold for a request that is answered (buf.c:106-108).
BufCopyAsserts == pc = "icmp" /\ rx.len >= IcmpLen /\ frame.l4 = "request" => Copyable(rx)
=============================================================================
