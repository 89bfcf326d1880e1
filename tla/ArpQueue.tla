------------------------------ MODULE ArpQueue ------------------------------
(* src/queue.c below src/arp.c: the queues of arp_buf as linked lists.      *)
(*                                                                          *)
(* A node is a block of the heap, used again after it was freed.  Each call *)
(* of arp.c is one action, as in Arp, with the calls of queue.c it makes.   *)
EXTENDS Arp

CONSTANT Null

HeapSize == MaxPackets * Cardinality(Ip)
Node == 1 .. HeapSize

ASSUME NullAssumption == Null \notin Node
ASSUME IpAssumption == IsFiniteSet(Ip)

VARIABLES
    item, next,   \* contents of a node
    allocated,    \* nodes between malloc and free
    queue         \* queue[ip]: head and tail, the value of arp_buf[ip]

heap == <<item, next, allocated, queue>>

Empty == [head |-> Null, tail |-> Null]

QueueInit ==
    /\ Init
    /\ item = [n \in Node |-> 0]
    /\ next = [n \in Node |-> Null]
    /\ allocated = {}
    /\ queue = [ip \in Ip |-> Empty]

\* malloc
NewNode == CHOOSE n \in Node \ allocated : \A m \in Node \ allocated : n <= m

\* The node that queue_new and queue_push allocate for a copy of packet p.
Allocate(p) ==
    /\ item' = [item EXCEPT ![NewNode] = p]
    /\ allocated' = allocated \cup {NewNode}

\* queue_new, and the copy of the struct into the map (queue_copy), or a leak.
queue_new(ip, p) ==
    /\ Allocate(p)
    /\ next' = [next EXCEPT ![NewNode] = Null]
    /\ queue' = IF HasRoom THEN [queue EXCEPT ![ip] = [head |-> NewNode, tail |-> NewNode]]
                ELSE queue

\* Mutant: the tail stays.
PushKeepsTail(ip, p) ==
    /\ Allocate(p)
    /\ next' = [next EXCEPT ![NewNode] = Null, ![queue[ip].tail] = NewNode]
    /\ UNCHANGED queue

\* Follows the tail: NULL if the queue was emptied.
PushNode(ip, p) ==
    /\ Allocate(p)
    /\ next' = [next EXCEPT ![NewNode] = Null, ![queue[ip].tail] = NewNode]
    /\ queue' = [queue EXCEPT ![ip].tail = NewNode]

\* The nodes from the head on, as queue_pop finds them; NULL behind the last.
ChainOf(ip) ==
    LET After(n) == IF n = Null THEN Null ELSE next[n]
        at[i \in 1 .. HeapSize] == IF i = 1 THEN queue[ip].head ELSE After(at[i - 1])
    IN  at
Places(ip) == {i \in 1 .. HeapSize : ChainOf(ip)[i] # Null}
NodesOf(ip) == {ChainOf(ip)[i] : i \in Places(ip)}

\* Mutant: the head is not freed.
PopAllButHead(ip) ==
    /\ allocated' = allocated \ (NodesOf(ip) \ {queue[ip].head})
    /\ queue' = [queue EXCEPT ![ip] = Empty]
    /\ UNCHANGED <<item, next>>

\* queue_pop until the queue is empty.  Then queue_free_data finds no node, and so
\* none of the copies that were popped, to free.
PopAll(ip) ==
    /\ allocated' = allocated \ NodesOf(ip)
    /\ queue' = [queue EXCEPT ![ip] = Empty]
    /\ UNCHANGED <<item, next>>

QueueNext ==
    /\ \/ \E ip \in Ip : Enqueue(ip) /\ PushNode(ip, handed'[ip])
       \/ \E ip \in Ip : Ask(ip) /\ queue_new(ip, handed'[ip])
       \/ \E ip \in Ip, mac \in Mac : Reply(ip, mac) /\ PopAll(ip)
       \/ /\ \/ Ignored
             \/ \E ip \in Ip : SendNow(ip) \/ Expire(ip) \/ Lose(ip) \/ \E mac \in Mac : Request(ip, mac)
          /\ UNCHANGED heap
    /\ UNCHANGED <<max_size, lossy>>

QueueAnswer(ip) == ip \in asked /\ \E mac \in Mac : Reply(ip, mac) /\ PopAll(ip)

\* A request that is not lost is answered.
FairSpec ==
    /\ QueueInit
    /\ [][QueueNext]_<<vars, heap>>
    /\ \A ip \in Ip : WF_<<vars, heap>>(QueueAnswer(ip) /\ UNCHANGED <<max_size, lossy>>)

-----------------------------------------------------------------------------
(* Properties.                                                              *)

\* The list of an address holds its packets in order, and its tail is its last
\* node, so that the next push (queue.c:69) finds it.
ListIsQueue ==
    \A ip \in Ip :
        /\ arp_buf[ip] = [i \in Places(ip) |-> item[ChainOf(ip)[i]]]
        /\ ip \in Waiting => queue[ip].tail = ChainOf(ip)[Len(arp_buf[ip])]

\* The lists share no node, have no freed one, and no other node is allocated,
\* but for one for each packet that found arp_buf full (arp.c:181).
NodesAreAccounted ==
    /\ \A ip \in Ip : NodesOf(ip) \subseteq allocated
    /\ \A ip, other \in Ip : ip # other => NodesOf(ip) \cap NodesOf(other) = {}
    /\ Cardinality(allocated \ UNION {NodesOf(ip) : ip \in Ip})
           = Cardinality(UNION {{ip} \X dropped[ip] : ip \in Ip})
=============================================================================
