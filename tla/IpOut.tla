------------------------------- MODULE IpOut -------------------------------
(* ip_out of src/ip.c: a datagram is cut into fragments inside txbuf, the   *)
(* one buffer in which the lower layers also build their own frames.  The   *)
(* headers of a fragment are written in front of it, over bytes that have   *)
(* left already; arp_out copies a packet it cannot send yet, and then       *)
(* arp_req builds the request in txbuf too.                                 *)
(*                                                                          *)
(* A byte of the datagram is its number, from 1; 0 stands for anything      *)
(* else.  The datagram starts where tcp.c and udp.c put it: buf_init lets   *)
(* it end in the middle of the payload array.                               *)
EXTENDS Integers, Sequences

CONSTANTS
    MaxLength,    \* ETHERNET_MAX_TRANSPORT_UNIT - sizeof(ip_hdr_t)
    HeaderLength, \* sizeof(ip_hdr_t)
    Headers,      \* the headers in front of a fragment, ip_hdr_t and ether_hdr_t
    ArpFrame,     \* an ARP request with its header, built at the same place
    Middle,       \* BUF_MAX_LEN / 2
    Ids,          \* the values of the identification field, 2^16
    Length,       \* lengths of the datagrams considered
    Lookups       \* what arp_out may find out about the address, see Address

ASSUME LengthAssumption ==
    /\ {MaxLength, HeaderLength, Headers, ArpFrame, Middle, Ids} \subseteq Nat \ {0}
    /\ HeaderLength <= MaxLength /\ HeaderLength <= Headers /\ Ids > 1
    /\ ArpFrame <= Middle
    /\ \A n \in Length : n \in Nat \ {0} /\ n + Headers <= Middle
\* In arp_table; not there but asked for, with packets waiting; or neither.
Address == {"known", "asked", "unknown"}
ASSUME LookupAssumption == Lookups \subseteq Address /\ Lookups # {}

VARIABLES
    payload,      \* payload[i]: the byte of the datagram at place i of txbuf, or 0
    data,         \* buf->data, between two fragments
    total,        \* original_len; 0 between two calls of ip_out
    offset,       \* offset of the next fragment
    address,      \* what arp_table and arp_buf hold for the address when the call begins
    ip_id,        \* the counter
    packets,      \* what this call passed on so far, to the driver or to a queue
    previous      \* the identification of the datagram before, or -1

vars == <<payload, data, total, offset, address, ip_id, packets, previous>>

Place == 0 .. Middle - 1
Packet == [id : 0 .. Ids - 1, offset : Nat, mf : BOOLEAN, bytes : Seq(Nat)]

Init ==
    /\ payload = [i \in Place |-> 0]
    /\ data = 0
    /\ total = 0 /\ offset = 0
    /\ address \in Lookups
    /\ ip_id = 0
    /\ packets = <<>>
    /\ previous = -1

-----------------------------------------------------------------------------
\* buf_init and the copy of the upper layer, then the call of ip_out.
Start(n) ==
    /\ total = 0
    /\ payload' = [i \in Place |-> IF i >= Middle - n THEN i - (Middle - n) + 1 ELSE 0]
    /\ data' = Middle - n
    /\ total' = n
    /\ offset' = 0
    /\ address' \in Lookups
    /\ packets' = <<>>
    /\ previous' = IF packets = <<>> THEN -1 ELSE packets[Len(packets)].id
    /\ UNCHANGED ip_id

\* What is in txbuf from place d on.
Bytes(d, n) == [i \in 1 .. n |-> payload[d + i - 1]]

\* The place of the headers of a packet at d, and of an ARP request.
InHeaders(i, d) == d - Headers <= i /\ i < d
InArp(i) == Middle - ArpFrame <= i

\* arp_out of the packet at d: sent when the address is known, else copied, and
\* the first one for an address that nothing waits for is followed by arp_req.
\* A packet that waits gets its Ethernet header in the copy.
arp_out(i, d) ==
    IF \/ d - HeaderLength <= i /\ i < d
       \/ address = "known" /\ InHeaders(i, d)
       \/ address = "unknown" /\ packets = <<>> /\ InArp(i)
    THEN 0 ELSE payload[i]

\* ip_fragment_out of n bytes at data; ip_out saves the first bytes of the data
\* itself and puts them back.
ip_fragment_out(n, more) ==
    /\ payload' = [i \in Place |-> IF i \in data .. data + HeaderLength - 1 /\ more
                                   THEN payload[i] ELSE arp_out(i, data)]
    /\ packets' = Append(packets, [id |-> ip_id, offset |-> offset, mf |-> more,
                                   bytes |-> Bytes(data, n)])

\* Mutant: wider than 16 bits.
IncrementPlain == ip_id' = ip_id + 1

Increment == ip_id' = (ip_id + 1) % Ids
Return == data' = 0 /\ total' = 0 /\ offset' = 0

\* A datagram of at most one fragment.
Small ==
    /\ 0 < total /\ total <= MaxLength
    /\ ip_fragment_out(total, FALSE)
    /\ Increment
    /\ Return
    /\ UNCHANGED <<address, previous>>

\* Mutants: the counter moves with every fragment; the next fragment starts one
\* byte early.
FragmentCounted ==
    /\ total > MaxLength
    /\ offset + MaxLength <= total
    /\ ip_fragment_out(MaxLength, TRUE)
    /\ offset' = offset + MaxLength
    /\ data' = data + MaxLength
    /\ Increment
    /\ UNCHANGED <<total, address, previous>>
FragmentOverlaps ==
    /\ total > MaxLength
    /\ offset + MaxLength <= total
    /\ ip_fragment_out(MaxLength, TRUE)
    /\ offset' = offset + MaxLength
    /\ data' = data + MaxLength - 1
    /\ UNCHANGED <<total, address, ip_id, previous>>

\* A full fragment: "more" is set, whether anything is left or not.
Fragment ==
    /\ total > MaxLength
    /\ offset + MaxLength <= total
    /\ ip_fragment_out(MaxLength, TRUE)
    /\ offset' = offset + MaxLength
    /\ data' = data + MaxLength
    /\ UNCHANGED <<total, address, ip_id, previous>>

\* Mutant: says that more follow.
LastFragmentMore ==
    /\ total > MaxLength
    /\ offset + MaxLength > total
    /\ ip_fragment_out(total - offset, TRUE) /\ Increment
    /\ Return
    /\ UNCHANGED <<address, previous>>

\* What is left, if anything is.
LastFragment ==
    /\ total > MaxLength
    /\ offset + MaxLength > total
    /\ IF offset < total
       THEN ip_fragment_out(total - offset, FALSE) /\ Increment
       ELSE UNCHANGED <<payload, packets, ip_id>>
    /\ Return
    /\ UNCHANGED <<address, previous>>

ip_out == Small \/ Fragment \/ LastFragment

Next == ip_out \/ \E n \in Length : Start(n)

Spec == Init /\ [][Next]_vars

-----------------------------------------------------------------------------
(* Properties.                                                              *)

TypeOK ==
    /\ payload \in [Place -> Nat]
    /\ data \in 0 .. Middle
    /\ total \in Nat /\ offset \in Nat
    /\ address \in Lookups
    /\ ip_id \in 0 .. Ids - 1
    /\ packets \in Seq(Packet)
    /\ previous \in -1 .. Ids - 1

\* ip.c:125-126 cuts the datagram without copying it, which "require[s] lower
\* layers to see package as immutable": every fragment carries the bytes of the
\* datagram that its offset says.  The code keeps this as long as arp_out does not
\* build a request in the same buffer; where it does, the fragment copied before
\* the request is still right, those cut after it need not be.
BytesAreOriginal ==
    \A p \in 1 .. Len(packets) : \A i \in 1 .. Len(packets[p].bytes) :
        address # "unknown" \/ p = 1 => packets[p].bytes[i] = packets[p].offset + i

\* ip.c:79: the flag mf says whether there is a next fragment, so that once
\* ip_out has returned the last fragment, and no other, is without it.
LastIsMarked ==
    /\ \A p \in 1 .. Len(packets) - 1 : packets[p].mf
    /\ total = 0 /\ packets # <<>> => ~ packets[Len(packets)].mf

\* The receiver can put a datagram together: its fragments follow each other,
\* have one identification, and not that of the datagram before.
CanBeReassembled ==
    /\ \A p \in 1 .. Len(packets) - 1 :
          /\ packets[p + 1].offset = packets[p].offset + Len(packets[p].bytes)
          /\ packets[p + 1].id = packets[p].id
    /\ packets # <<>> => packets[1].offset = 0 /\ packets[1].id # previous
=============================================================================
