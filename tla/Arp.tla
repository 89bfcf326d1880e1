-------------------------------- MODULE Arp --------------------------------
(* src/arp.c: the address table, and for each address that is not in it the *)
(* packets that wait for its owner (their queues as linked lists: module    *)
(* ArpQueue).                                                               *)
(*                                                                          *)
(* A packet is its number among those for its destination.  The two maps    *)
(* are functions of the address (NetMap models their slots); the size limit *)
(* of arp_buf is kept, that of arp_table (over 100000 entries) is not.     *)
(* The lifetime of an entry is a step of its own, Expire, that may come at  *)
(* any time.  Peers answer requests, ask for the address of this host, and  *)
(* on a lossy network requests and answers get lost.                        *)
EXTENDS Integers, Sequences, FiniteSets

CONSTANTS
    Ip,           \* addresses of other hosts, that packets are sent to
    NetIfIp,      \* net_if_ip, the address of this host
    Mac,          \* hardware addresses
    Broadcast,    \* net_broadcast_mac
    None,         \* NULL: no entry
    BufSizes,     \* capacities of arp_buf
    MaxPackets    \* bound: packets to one address

ASSUME NoneAssumption == None \notin Mac /\ Broadcast \notin Mac
ASSUME IfAssumption == NetIfIp \notin Ip
ASSUME BoundAssumption == BufSizes \subseteq Nat /\ MaxPackets \in Nat

VARIABLES
    arp_table,    \* arp_table[ip]: the address of ip, or None
    arp_buf,      \* arp_buf[ip]: the packets waiting, or <<>> for no entry
    out,          \* the frames the last call passed to ethernet_out
    asked,        \* requests of this host on their way or being answered
    handed,       \* handed[ip]: calls of arp_out so far
    sent,         \* sent[ip]: the packets that left, in order
    dropped,      \* dropped[ip]: those that arp_buf had no room for
    max_size,     \* arp_buf.max_size
    lossy         \* whether the network loses requests or answers

vars == <<arp_table, arp_buf, out, asked, handed, sent, dropped, max_size, lossy>>

Frame == [to : Mac \cup {Broadcast}, kind : {"packet", "request", "reply"}, ip : Ip \cup {NetIfIp}, n : Nat]

ethernet_out(ip, n, mac) == [to |-> mac, kind |-> "packet", ip |-> ip, n |-> n]
arp_req(ip) == [to |-> Broadcast, kind |-> "request", ip |-> ip, n |-> 0]

\* arp_init: it asks for the address of this host, and nobody answers.
Init ==
    /\ arp_table = [ip \in Ip |-> None]
    /\ arp_buf = [ip \in Ip |-> <<>>]
    /\ out = <<arp_req(NetIfIp)>>
    /\ asked = {}
    /\ handed = [ip \in Ip |-> 0]
    /\ sent = [ip \in Ip |-> <<>>]
    /\ dropped = [ip \in Ip |-> {}]
    /\ max_size \in BufSizes
    /\ lossy \in BOOLEAN

-----------------------------------------------------------------------------
\* Mutant: the new node goes to the head.
PushAtHead(q, p) == <<p>> \o q

queue_push(q, p) == Append(q, p)

\* Mutant: answers to the protocol address.
ReplyToIp(ip, mac) == [to |-> ip, kind |-> "reply", ip |-> ip, n |-> 0]

arp_resp(ip, mac) == [to |-> mac, kind |-> "reply", ip |-> ip, n |-> 0]

Waiting == {ip \in Ip : arp_buf[ip] # <<>>}

-----------------------------------------------------------------------------
(* arp_out                                                                  *)

Hand(ip) == handed[ip] < MaxPackets /\ handed' = [handed EXCEPT ![ip] = @ + 1]

\* The address is known.
SendNow(ip) ==
    /\ arp_table[ip] # None
    /\ Hand(ip)
    /\ out' = <<ethernet_out(ip, handed'[ip], arp_table[ip])>>
    /\ sent' = [sent EXCEPT ![ip] = Append(@, handed'[ip])]
    /\ UNCHANGED <<arp_table, arp_buf, asked, dropped>>

\* Others wait for the same address already: no second request.
Enqueue(ip) ==
    /\ arp_table[ip] = None /\ ip \in Waiting
    /\ Hand(ip)
    /\ arp_buf' = [arp_buf EXCEPT ![ip] = queue_push(@, handed'[ip])]
    /\ out' = <<>>
    /\ UNCHANGED <<arp_table, asked, sent, dropped>>

HasRoom == Cardinality(Waiting) < max_size

\* The first one: a new queue, unless arp_buf is full, and the request.
AskWith(ip, request) ==
    /\ arp_table[ip] = None /\ ip \notin Waiting
    /\ Hand(ip)
    /\ \/ /\ HasRoom
          /\ arp_buf' = [arp_buf EXCEPT ![ip] = <<handed'[ip]>>]
          /\ UNCHANGED dropped
       \/ /\ ~ HasRoom
          /\ dropped' = [dropped EXCEPT ![ip] = @ \cup {handed'[ip]}]
          /\ UNCHANGED arp_buf
    /\ out' = request
    /\ asked' = IF request = <<>> THEN asked ELSE asked \cup {ip}
    /\ UNCHANGED <<arp_table, sent>>

\* Mutant: no request is sent.
AskSilently(ip) == AskWith(ip, <<>>)

Ask(ip) == AskWith(ip, <<arp_req(ip)>>)

arp_out(ip) == SendNow(ip) \/ Enqueue(ip) \/ Ask(ip)

-----------------------------------------------------------------------------
(* arp_in                                                                   *)

\* A reply to this host, asked for or not: note the address, send `now` of what
\* waits for it, keep `rest`.
Resolve(ip, mac, now, rest) ==
    /\ asked' = asked \ {ip}
    /\ arp_table' = [arp_table EXCEPT ![ip] = mac]
    /\ out' = [i \in DOMAIN now |-> ethernet_out(ip, now[i], mac)]
    /\ sent' = [sent EXCEPT ![ip] = @ \o now]
    /\ arp_buf' = [arp_buf EXCEPT ![ip] = rest]
    /\ UNCHANGED <<handed, dropped>>

\* Mutants: the entry of arp_buf stays; the queue is not looked at.
ReplyKeepsQueue(ip, mac) == Resolve(ip, mac, arp_buf[ip], arp_buf[ip])
ReplyWithoutFlush(ip, mac) == Resolve(ip, mac, <<>>, arp_buf[ip])

Reply(ip, mac) == Resolve(ip, mac, arp_buf[ip], <<>>)

\* A request for this host: note the address, reply.  What waits stays.
Request(ip, mac) ==
    /\ arp_table' = [arp_table EXCEPT ![ip] = mac]
    /\ out' = <<arp_resp(ip, mac)>>
    /\ UNCHANGED <<arp_buf, asked, handed, sent, dropped>>

\* Anything else: too short, not IP over Ethernet, or for another host.
Ignored == out' = <<>> /\ UNCHANGED <<arp_table, arp_buf, asked, handed, sent, dropped>>

arp_in == Ignored \/ \E ip \in Ip, mac \in Mac : Reply(ip, mac) \/ Request(ip, mac)

-----------------------------------------------------------------------------
\* An entry of arp_table reaches ARP_TIMEOUT_SEC.
Expire(ip) ==
    /\ arp_table[ip] # None
    /\ arp_table' = [arp_table EXCEPT ![ip] = None]
    /\ out' = <<>>
    /\ UNCHANGED <<arp_buf, asked, handed, sent, dropped>>

\* The network or the peer loses a request, or its answer.
Lose(ip) ==
    /\ lossy
    /\ ip \in asked
    /\ asked' = asked \ {ip}
    /\ out' = <<>>
    /\ UNCHANGED <<arp_table, arp_buf, handed, sent, dropped>>

Next ==
    /\ arp_in \/ \E ip \in Ip : arp_out(ip) \/ Expire(ip) \/ Lose(ip)
    /\ UNCHANGED <<max_size, lossy>>

Spec == Init /\ [][Next]_vars

-----------------------------------------------------------------------------
(* Properties.                                                              *)

TypeOK ==
    /\ arp_table \in [Ip -> Mac \cup {None}]
    /\ arp_buf \in [Ip -> Seq(Nat)]
    /\ out \in Seq(Frame)
    /\ asked \subseteq Ip
    /\ handed \in [Ip -> 0 .. MaxPackets]
    /\ sent \in [Ip -> Seq(Nat)]
    /\ dropped \in [Ip -> SUBSET Nat]
    /\ max_size \in BufSizes
    /\ lossy \in BOOLEAN

Copies(ip, n) ==
    Cardinality({i \in DOMAIN sent[ip] : sent[ip][i] = n})
    + Cardinality({i \in DOMAIN arp_buf[ip] : arp_buf[ip][i] = n})

\* A packet is in the queue or has left, never both, never twice and never
\* neither, whatever replies, requests, losses and timeouts come in between; only
\* one that finds arp_buf full disappears (arp.c:181 ignores the refusal).
EachOnce ==
    \A ip \in Ip : \A n \in 1 .. handed[ip] :
        Copies(ip, n) = IF n \in dropped[ip] THEN 0 ELSE 1

\* Where a queue waits its owner was asked, and not in vain: the request is on
\* its way, even if the address became known meanwhile and expired again.  Only
\* one is sent (arp.c:170), so that the packets wait for ever if it is lost.
WaitingIsAsked == ~ lossy => Waiting \subseteq asked

\* Packets that wait for an address leave, if requests are answered.
WaitingIsFlushed == \A ip \in Ip : (ip \in Waiting /\ ~ lossy) ~> ip \notin Waiting

Packets == {i \in DOMAIN out : out[i].kind = "packet"}
Link == INSTANCE Outgoing WITH
    room <- max_size,
    waiting <- arp_buf,
    early <- {ip \in Waiting : arp_table[ip] # None},
    wire <- [i \in Packets |-> [ip |-> out[i].ip, n |-> out[i].n]]

\* Address resolution is invisible to ip.c: packets to one destination leave in
\* the order of the calls of arp_out.  They overtake others only after a request
\* of the peer made its address known (arp.c:143 does not look at the queue).
ImplementsOutgoing == Link!Spec
=============================================================================
