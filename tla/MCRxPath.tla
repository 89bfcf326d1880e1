----------------------------- MODULE MCRxPath -----------------------------
EXTENDS RxPath

Address0 == <<1, 0, 1>>

\* Lists of up to three interfaces with an address each, and pairs of addresses.
Bits == [1 .. 3 -> {0, 1}]
One == {<<a>> : a \in [inet : {TRUE}, addr : Bits, mask : {1, 2}]}
Some == One \cup {<<>>, <<[inet |-> FALSE, addr |-> Address0, mask |-> 3]>>}
Lists ==
    {<<>>} \cup {<<d>> : d \in Some} \cup {<<d, e>> : d, e \in Some}
    \cup {<<d, e, f>> : d, e, f \in One} \cup {<<d \o e>> : d, e \in One}

Sized(n, total) ==
    {[dst |-> "me", n |-> n, type |-> "ip", fault |-> "none", total |-> total, proto |-> q, l4 |-> x] :
       q \in {"icmp", "udp", "tcp", "other"}, x \in {"request", "port", "nosum", "badsum", "good"}}
Basic == [dst |-> "me", n |-> 60, type |-> "ip", fault |-> "none", total |-> 46, proto |-> "icmp", l4 |-> "request"]

\* Packets as long as their frame, shorter, longer, and without room for a header.
Frames ==
    UNION {Sized(p[1], p[2]) : p \in {<<60, 46>>, <<60, 29>>, <<60, 10>>, <<60, 11>>, <<60, 66>>, <<42, 28>>, <<30, 20>>, <<1614, 1600>>}}
    \cup {[Basic EXCEPT !.fault = x] : x \in {"header", "destination", "checksum", "flag"}}
    \cup {[Basic EXCEPT !.n = 1614, !.total = 1600, !.fault = "flag"]}
    \cup {[Basic EXCEPT !.type = x] : x \in {"arp", "other", "length", "invalid"}}
    \cup {[Basic EXCEPT !.dst = x] : x \in {"broadcast", "other"}}
    \cup {[Basic EXCEPT !.proto = "udp", !.l4 = "length"]}

Single == {<<<<[inet |-> TRUE, addr |-> <<1, 0, 0>>, mask |-> 2]>>>>}
Pings == {[Basic EXCEPT !.n = 98, !.total = 84]}
=============================================================================
