------------------------------- MODULE Driver -------------------------------
(* src/driver.c and ip_prefix_match of src/utils.c: the choice of the       *)
(* network interface.  An interface is the sequence of its addresses; the   *)
(* 32 bits of an address are W here.                                        *)
EXTENDS Integers, Sequences

CONSTANTS W, net_if_ip

Ip4 == [1 .. W -> {0, 1}]

ASSUME AddressAssumption == W \in Nat /\ net_if_ip \in Ip4

\* One element of pcap_if_t.addresses; mask is the number of its leading ones.
Address == [inet : BOOLEAN, addr : Ip4, mask : 0 .. W]

ip_prefix_match(ipa, ipb) ==
    LET same[i \in 1 .. W + 1] == IF i > W \/ ipa[i] # ipb[i] THEN i - 1 ELSE same[i + 1]
    IN  same[1]

\* match[if_num] after the inner loop: each IPv4 address overwrites it.
Match(dev) ==
    LET Visit(m, a) == IF ~ a.inet THEN m
                       ELSE IF ip_prefix_match(net_if_ip, a.addr) < a.mask THEN 0
                       ELSE ip_prefix_match(net_if_ip, a.addr)
        match[i \in 0 .. Len(dev)] == IF i = 0 THEN 0 ELSE Visit(match[i - 1], dev[i])
    IN  match[Len(dev)]

\* Mutant: the last of several equal or better ones, even if it is no match.
LastMatch(devs) ==
    [max_if |-> IF devs = <<>> THEN 1 ELSE Len(devs),
     max_match |-> IF devs = <<>> THEN 0 ELSE Match(devs[Len(devs)])]

\* The loop over match[].
Longest(devs) ==
    LET Visit(b, i) == IF Match(devs[i]) > b.max_match
                       THEN [max_if |-> i, max_match |-> Match(devs[i])]
                       ELSE b
        best[i \in 0 .. Len(devs)] ==
            IF i = 0 THEN [max_if |-> 1, max_match |-> 0] ELSE Visit(best[i - 1], i)
    IN  best[Len(devs)]

Mask(dev) ==
    LET Visit(m, a) == IF a.inet THEN a.mask ELSE m
        mask[i \in 0 .. Len(dev)] == IF i = 0 THEN 0 ELSE Visit(mask[i - 1], dev[i])
    IN  mask[Len(dev)]

\* The interface (from 1) and its mask, or 0 where driver_find returns -1.
driver_find(devs) ==
    LET best == Longest(devs)
    IN  IF best.max_match \in {0, W} THEN [dev |-> 0, mask |-> 0]
        ELSE [dev |-> best.max_if, mask |-> Mask(devs[best.max_if])]

-----------------------------------------------------------------------------
(* What is expected of it.                                                  *)

Shared(a, n) == \A i \in 1 .. n : a.addr[i] = net_if_ip[i]
Addresses(dev) == {dev[i] : i \in {j \in DOMAIN dev : dev[j].inet /\ Shared(dev[j], dev[j].mask)}}

\* With one address each, the interface found is the one whose subnet this host
\* belongs to and that shares the longest prefix with it; none is found only if
\* there is no such interface, or one that has the very address of this host.
LongestPrefix(devs) ==
    LET found == driver_find(devs)
        all == UNION {Addresses(devs[i]) : i \in DOMAIN devs}
    IN  (\A i \in DOMAIN devs : Len(devs[i]) <= 1) =>
            IF found.dev # 0
            THEN \E a \in Addresses(devs[found.dev]) :
                   /\ a.mask = found.mask /\ ~ Shared(a, W)
                   /\ \A b \in all : \A n \in 1 .. W : Shared(b, n) => Shared(a, n)
            ELSE \/ \E b \in all : Shared(b, W)
                 \/ \A b \in all : ~ Shared(b, 1)
=============================================================================
