------------------------------ MODULE Outgoing ------------------------------
(* What the link layer promises ip.c: packets for one destination leave in  *)
(* the order they were handed over, none of them twice, and one is lost     *)
(* only when packets for too many other destinations are waiting.  Where    *)
(* packets wait although the address is known (early), later ones may pass. *)
EXTENDS Integers, Sequences, FiniteSets

CONSTANT Ip               \* destinations

VARIABLES handed,       \* handed[ip]: packets handed over so far, and the number of the last
          waiting,      \* waiting[ip]: the packets that wait, oldest first
          room,         \* destinations packets may wait for at once
          early,        \* destinations known before their packets were released
          wire          \* the packets the last step sent

vars == <<handed, waiting, room, early, wire>>

Packet(ip, n) == [ip |-> ip, n |-> n]
Busy == {ip \in Ip : waiting[ip] # <<>>}

Init ==
    /\ handed = [ip \in Ip |-> 0]
    /\ waiting = [ip \in Ip |-> <<>>]
    /\ room \in Nat
    /\ early = {}
    /\ wire = <<>>

Hand(ip) == handed' = [handed EXCEPT ![ip] = @ + 1]

Pass(ip) ==
    /\ waiting[ip] = <<>> \/ ip \in early
    /\ Hand(ip)
    /\ wire' = <<Packet(ip, handed'[ip])>>
    /\ UNCHANGED waiting

Keep(ip) ==
    /\ waiting[ip] # <<>> \/ Cardinality(Busy) < room
    /\ Hand(ip)
    /\ waiting' = [waiting EXCEPT ![ip] = Append(@, handed'[ip])]
    /\ wire' = <<>>

Drop(ip) ==
    /\ waiting[ip] = <<>> /\ Cardinality(Busy) >= room
    /\ Hand(ip)
    /\ wire' = <<>>
    /\ UNCHANGED waiting

Release(ip) ==
    /\ wire' = [i \in DOMAIN waiting[ip] |-> Packet(ip, waiting[ip][i])]
    /\ waiting' = [waiting EXCEPT ![ip] = <<>>]
    /\ UNCHANGED handed

Quiet == wire' = <<>> /\ UNCHANGED <<handed, waiting>>

Next ==
    /\ Quiet \/ \E ip \in Ip : Pass(ip) \/ Keep(ip) \/ Drop(ip) \/ Release(ip)
    /\ early' \subseteq Busy'
    /\ UNCHANGED room

Spec == Init /\ [][Next]_vars
=============================================================================
