# net-lab: models, checks and proofs

`net-lab` is a small user-space network stack in C: Ethernet, ARP, IPv4, ICMP,
UDP and TCP over libpcap, with an HTTP server on top.  There is one thread.
`main` calls `net_poll` for ever; a frame that has arrived climbs through
`ethernet_in`, `arp_in` or `ip_in`, `icmp_in`, `udp_in` or `tcp_in` to a callback
of an application, and what is sent goes down through `ip_out`, `arp_out`,
`ethernet_out` to the driver, all in the same call.  Nothing runs in parallel, and
still most of what can go wrong is a matter of order: the HTTP server calls
`net_poll` from inside a request, so that segments of every peer are handled, and
connections released, while one of them is being served; pointers into the slots of
hash maps outlive their entries; packets wait for addresses that expire; and the
buffers a layer is working in are shared with the layers below.

This directory holds TLA+ models of that behaviour, TLC configurations that check
them on small instances, and proofs checked by TLAPS.

## 1. Inventory

| Component | State | Operations | Used by / uses | Correct when |
|---|---|---|---|---|
| TCP connection table, `src/tcp.c`, `include/tcp.h` | `tcp_table` (port to handler), `connect_table` (peer key to `tcp_connect_t`: state, ports, handler pointer, heap buffers) | `tcp_open`, `tcp_close`, `tcp_connect_close`, `tcp_in` | called by `ip_in` through `net_in` and by applications; calls handlers, `ip_out`, maps | buffers owned exactly when a connection is not in LISTEN; every live connection is found under its own key; no connection outlives its port; callbacks in order and to the right handler |
| TCP byte stream, `src/tcp.c`, `src/buf.c` | `unack_seq`, `next_seq`, `remote_win`, `rx_buf`, `tx_buf` | `tcp_connect_read`, `tcp_connect_write`, `tcp_write_to_buf`, `tcp_read_from_buf`, the ACK handling of `tcp_in` | applications | bytes leave under their own sequence number; what is acknowledged was stored; buffers stay inside their arrays |
| HTTP server, `src/http.c` | ring `http_fifo_v` of connection pointers; the request being served | `http_handler`, `http_server_open`, `http_server_run` with `get_line`, `http_send`, `close_http` | `main`; calls `net_poll` while it waits | every accepted connection is served, in order, once, and only while it is still there |
| Main loop and applications, `src/main.c` | none | `main`, the echo handlers | all | the loop goes on |
| Map, `src/map.c` | array of key, value, time stamp; `size` | `map_init`, `map_get`, `map_set`, `map_delete`, `map_foreach`, `map_size` | `arp`, `udp`, `tcp`, `net` | a lookup is unambiguous; `size` is right; a new key is refused only when the map is full |
| ARP, `src/arp.c` | `arp_table` with a timeout, `arp_buf` (a queue of packets per address) | `arp_in`, `arp_out`, `arp_req`, `arp_resp` | `ip.c`; `ethernet.c`, maps, queues | every packet leaves once, in order; its owner was asked |
| Queue, `src/queue.c` | linked list | `queue_new`, `queue_push`, `queue_pop`, `queue_free*` | `arp.c` | first in, first out; no dangling pointer |
| IP output, `src/ip.c` | `ip_id`; the datagram in `txbuf` | `ip_out`, `ip_fragment_out` | `tcp`, `udp`, `icmp`; `arp_out` | the receiver can put every datagram together |
| IP input, `src/ip.c` | none; `rxbuf` | `ip_in` | `ethernet_in`; `net_in`, `icmp_unreachable` | headers are removed and put back at the right place |
| Buffers, `src/buf.c` | start and length inside one array | `buf_init`, `buf_add_header`, `buf_remove_header`, `buf_add_padding`, `buf_remove_padding`, `buf_copy` | all | inside the array; no bytes of another frame |
| Ethernet, `src/ethernet.c` | `rxbuf`, `txbuf` | `ethernet_in`, `ethernet_out`, `ethernet_poll`, `ethernet_init` | driver, `net_in` | the next layer gets the packet behind the header |
| Dispatch, `src/net.c` | `net_table` | `net_add_protocol`, `net_in`, `net_poll`, `net_init` | all | every frame reaches its handler |
| ICMP, `src/icmp.c` | none; `rxbuf` | `icmp_in`, `icmp_resp`, `icmp_unreachable` | `ip_in`, `udp_in`; `ip_out` | answers carry what was received |
| UDP, `src/udp.c` | `udp_table` | `udp_in`, `udp_out`, `udp_send`, `udp_open`, `udp_close`, `udp_checksum` | `ip_in`, applications | the checksum, computed in place, leaves the packet as it was |
| Driver, `src/driver.c` | libpcap handle | `driver_find`, `driver_open`, `driver_recv`, `driver_send` | `ethernet.c` | the interface of this host's own subnet is opened; a frame fits where it is copied |
| Utilities, `src/utils.c` | none | `ip_prefix_match`, `checksum16`, formatting | all | |

Hard to test, and therefore what the properties are about (the complete list is
under `hazards` in `PROJECT.json`, each at its line): release by state on many paths;
keys rebuilt from fields that may not be filled in; pointers into `tcp_table` and
`connect_table` that outlive their entries; nested polling; a full ring, map or
buffer; wrap-around of 16 and 32 bit numbers; expiry of map entries; requests that
get lost; a buffer changed below the layer that is using it; one buffer for all frames,
in which every layer moves the start; lengths that a frame claims.

## 2. Modules

| Module | Models | Role |
|---|---|---|
| `TcpService` | | what an application may rely on: one life cycle per peer |
| `Tcp` | `tcp.c` without numbers and bytes, `map.c` as it uses it | implements `TcpService` |
| `HttpServer` | `http.c` and the loop of `main.c`; extends `Tcp` | composition of server and connection table |
| `ByteStream` | | what an application relies on when it reads and writes: two streams of bytes |
| `TcpStream` | numbers, windows and buffers of one established connection, `buf.c` as far as they use it, the echo application of `main.c` | implements `ByteStream` |
| `KeyValueStore` | | what `map.h` promises |
| `NetMap` | `map.c` | implements `KeyValueStore` |
| `Outgoing` | | what `ip.c` expects of the link layer |
| `Arp` | `arp.c`, with a sequence for each queue | implements `Outgoing` |
| `ArpQueue` | `queue.c` as `arp.c` uses it; extends `Arp` | composition of `arp.c` and the linked lists |
| `IpOut` | `ip_out` inside `txbuf`, with `arp_out` below it | |
| `Driver` | `driver_find` of `driver.c`, `ip_prefix_match` of `utils.c` | |
| `RxPath` | a frame on its way up: `net.c`, `driver_recv`, `ethernet_in`, `ip_in`, `icmp.c`, `udp_in`, the beginning of `tcp_in`; extends `Driver` | composition of the layers inside `rxbuf` |
| `TcpProofs`, `TcpServiceProofs` | | theorems about `Tcp` |
| `HttpProofs` | | theorems about `HttpServer` |
| `TcpStreamProofs`, `NetMapProofs`, `ArpProofs`, `IpOutProofs`, `RxPathProofs` | | theorems about the module in their name (`ArpProofs`: `Arp` and `ArpQueue`) |
| `MC*` | | instances for TLC |

How state and actions correspond to the code:

* **Tcp.** `tcp_table`, `handlers`, `connect_table`, `connect` are the slots of the two
  maps: key and value apart, because a freed slot keeps its value and pointers to it
  stay in use.  `bufs[s]` counts the buffer pairs allocated for a slot and not
  freed, so that a leak (2, or 1 in LISTEN) and a double free (below 0) both show.
  `sent` and `called` are what the last call sent and which callback it made, `running`
  is FALSE after a failed `Assert`.  A call of `tcp_in` is one step; each way
  through it is an operator (`ListenSyn`, `OutOfSeq`, `EstablishedRst`, ...), in the order
  of the code's tests.  A segment is its flags, whether it has the expected
  number, and whether it has a payload.  `given` are the slots whose address a callback has
  given to an application, which keeps it for good.  `AppClose` is `tcp_connect_close` through
  any of these pointers, whatever the slot holds now: `close_http` does not look either, and
  except in LAST_ACK nobody tells the application that a connection is gone.  One such close is
  singled out (`Strays`): the slot is in LISTEN, and the key built from what is left in it is that of
  a live connection in another slot, because the same peer has come back.  It takes the entry
  of that connection away.  With `Careful = TRUE` applications do not do it; with `FALSE` they do.
* **HttpServer.** `pc` is where `main` or `http_server_run` is; a step is what happens
  between two calls of `net_poll`, and each `net_poll` handles nothing or one
  segment of any peer.  The ring has the fields of `http_fifo_t`.  `rx` holds what a
  peer has sent and the server has not read: a piece with a GET, a piece
  without, the end of the line.  A read from buffers that were freed finds
  anything.  `close_http` closes the pointer it holds, wherever that leads by now.
* **TcpStream.** A byte is its place in the stream; a buffer is its start and its
  length.  The machine is scaled: `W` values of `uint16_t`, `S` of `uint32_t`; every
  place where the C code cuts or wraps has its `%`.  Both applications
  of the repository are there: `app = "echo"` reads and writes in the callback
  (`tcp_handler` of `main.c`), `app = "calls"` between segments (`http.c`).  `SendFin` is what
  `tcp_send` adds to a number for a FIN; `http_send` does not look at the state, so `calls` goes on
  in LAST_ACK, and may send there (`tcp.c:270-276`).  Two things that no check prevents are recorded
  as history: `broken`, a segment was made while `sent` (`tcp.c:175`) was not the number of bytes in
  flight, because there were `W` of them or a FIN was counted; and `wild`, the `memcpy` of `tcp.c:162`
  wrote behind the array of `rx_buf`, after the failed `buf_add_padding` of the line before.  The model goes on
  after `broken` with the numbers the code computes, and ends at `wild`, which is undefined behaviour.
* **NetMap.** The array entry by entry, with time stamps; a clock that ticks.  The timeout is
  chosen at the start (`Timeouts`), as each caller of `map_init` chooses its own.
* **Arp.** `arp_table` and `arp_buf` as functions of the address.  Expiry is a step that
  may come at any time; peers may answer, ask, or lose what they are sent (`lossy`).  At the start the
  request of `arp_init` for this host's own address (`NetIfIp`) is on its way, and nobody answers it.
* **ArpQueue.** The same calls with the blocks that `queue.c` takes from the heap: `item` and
  `next` of each node, the nodes between `malloc` and `free` (`allocated`), and head and
  tail of the list of each address, which `arp_buf` holds by value.  The heap has as many nodes as
  there are packets (`HeapSize`), which is enough (section 4).  Each action is the one of
  `Arp` together with what `queue_new`, `queue_push` and `queue_pop` do to the nodes.
* **IpOut.** `txbuf` byte by byte; a byte of the datagram is its number.  A step is one
  fragment with everything below: IP header, `arp_out`, a copy to the queue and
  the request built in the same `txbuf` if the address is unknown.
* **Driver.** An interface is the sequence of its addresses, an address its bits and the length of
  its mask.  `Match` and `Longest` are the two loops of `driver_find`, in their order.
* **RxPath.** `rx` is `rxbuf`: the place where its data starts and its length, with the real
  sizes of `config.h` and of the headers.  A step is one function of the stack, `pc` the next one.
  A frame is what the tests of the code find in it, among that the length it has and the length
  its IP header claims; a checksum is right or wrong.  Bytes are followed as far as to
  know which ones the stack has overwritten since the frame came in (`dirty`), and what is
  passed on to an application or sent back (`out`) is the range of bytes it is taken from.

Operators with a comment that starts with "Mutant" are wrong versions of the
definition that follows them; they are used by no specification and serve to show that each
property fails when the code is changed that way (`mutants` in `PROJECT.json`).

## 3. Runs

Twelve runs; states and times on two workers.

| Run | Instance | Checks | Result |
|---|---|---|---|
| `tcp_ports` | one peer, two ports that open and close, two slots each; 9 segments, one for each way through `tcp_in`; careful applications | `TypeOK`, `BufsMatchState`, `LiveIsKnown`, `LivePortIsOpen`, `ImplementsService` | holds, 34 347 states |
| `tcp_peers` | two peers on two ports (four keys), two slots; applications close anything | `KeysUnique`, `AnswersSender`, `CallbackGoesToPort`, `LiveHasBuffers`, `ImplementsService` | holds, 35 969 states, 1 minute |
| `tcp_stray` | two peers, one port, two slots; applications close anything | `BufsMatchState` | violated |
| `http_loop` | four clients (one is served, two wait, one finds the ring full), ring of 2 | `HttpTypeOK`, `ServesLiveConnection`, `FirstComeFirstServed`, `NobodyIsForgotten`; no deadlock | holds, about 384 000 states (symmetry together with a view does not always find the same representatives), 1 minute |
| `http_released` | two clients that may reset or close | `ServesLiveConnection` | violated, in a few steps |
| `stream_bytes` | W=8, S=64, windows 7, 4, 2, numbers next to the wrap; both applications | `TypeOK`, `SentIsInBuffer`, `NumbersMatchBytes` (with `FinFollowsData`), `WildOnlyPastRoom`, `ImplementsStream` | holds, 1 309 134 states, 1.5 minutes |
| `stream_http_send` | 20 bytes through a `tx_buf` of 17 | `AllIsWritten` | violated |
| `map_calls` | 3 interchangeable keys, 3 places, 2 values; no timeout, or one of a second, in four seconds | `TypeOK`, `SizeIsCount`, `OneValidPerKey`, `SizeInBounds`, `ImplementsStore` | holds, 29 352 states |
| `arp_queues` | 2 addresses, 3 packets each, `arp_buf` with room for one or two queues, with and without losses, fairness | `TypeOK`, `EachOnce`, `WaitingIsAsked`, `ListIsQueue`, `NodesAreAccounted`, `ImplementsOutgoing`, `WaitingIsFlushed` | holds, 265 664 states, 1 minute |
| `ip_fragments` | datagrams of up to 22 bytes in fragments of 6; the address known, asked for, or unknown | `TypeOK`, `BytesAreOriginal`, `LastIsMarked`, `CanBeReassembled` | holds, 1 209 states |
| `rx_frames` | three frames, one for each combination of tests and of lengths that agree or disagree; every list of up to three interfaces | `TypeOK`, `FindsLongest`, `PassedOnIsOurs`, `OutIsClean`, `DriftBounded` | holds, 27 630 states |
| `rx_room` | pings of 98 bytes, one after another | `BufCopyAsserts` | violated by the 1974th ping |

**Why the bounds are enough.**  Two slots and more keys than slots make every
conflict of the tables happen: a slot reused by another peer, a full table, an old
pointer to a new connection, an entry that stays in LISTEN.  Two slots of
`tcp_table` let a port come back in another slot than before.  The segments of MCTcp
are one for each combination of tests `tcp_in` makes; other flags take one of the
same ways.  An application that loses buffers again and again would count for ever: a close that
strays is taken while no slot has more than `LeakMax` = 1 pairs, which is one lost pair and one
live, and then another.  Four clients fill and wrap the ring of two while one is served, and one
is accepted too many; `RxBusy` = 1 lets one client at a time have something unread, the others
having sent nothing or been read.  `http_loop` takes the clients as interchangeable and leaves out of
its states what the last call sent and what is left in slots that hold no connection (`ServerView`),
which no step and no property of HttpServer reads there.  In TcpStream the payload
array keeps the proportions of the code (`2 * UINT16_MAX + UINT8_MAX`, data starts in the
middle), so a few writes reach its end; 14 bytes in a `tx_buf` of 17 are more than `W` = 8 in
flight; the echo receives two bytes more than `rx_buf` has room for (`SomeBytes`), so that `wild`
is reached; and the initial numbers 61 and 63 of 64 wrap in the first segments.  In NetMap the clock ticks often enough for the same
place to expire and be used again twice.  In ArpQueue three packets make a list with a first, a
middle and a last node, and two addresses share the heap and compete for a place in
`arp_buf`.  In IpOut 22 bytes are four fragments.  In RxPath three frames are enough to
find whatever a frame leaves behind for the next two, since nothing but the start of `rxbuf`
and the two tables outlives a frame; only `rx_room` needs many.

**Where the bounds are preconditions.**  Some runs only hold in part of
the behaviours, and their constants or definitions say so: no port is closed in
`tcp_peers` (`Closable = {}`), because a handler pointer outlives its port; applications are
`Careful` in `tcp_ports`, and `tcp_stray` shows the other ones; clients are
`Patient` in `http_loop`, and `http_released` shows the others; in `stream_bytes` what is said
of the bytes sent ends when the code counts them wrongly (`broken`), and what is said of the bytes
received is for fewer than `rx_buf` has room for; `SizeIsCount` and
the part of `ImplementsStore` that an entry does not disappear are for maps without a timeout;
`WaitingIsAsked` and `WaitingIsFlushed` are for a network that loses nothing, and `Outgoing` lets
later packets pass those that wait while the address is known already (`early`); `FindsLongest`
is for interfaces with one address; frames in RxPath have the 14 bytes of their Ethernet header, and
`PassedOnIsOurs` is for packets whose length holds the IP header; in `ip_fragments` the last fragment is shorter than the others, and `BytesAreOriginal` says nothing of the fragments
cut after an ARP request was built in `txbuf`.  Section 5 says what happens outside.

**Fairness.**  `Tcp`, `NetMap`, `IpOut`, `RxPath` and `TcpStream`'s safety run have none.  `HttpServer` has none either: the
code does not make a client send the end of its line, nor `http_send` find room
(`stream_http_send`), so it is not claimed that anybody is served in the end, only that nobody
is forgotten.
`FairSpec` of `ArpQueue` has weak fairness of the answer to a request that is on its way and not lost.
`FairSpec` of `TcpStream` gives `http_send` the best of peers: the application goes on
writing and the peer acknowledges everything it was sent.  The counterexample needs
nothing worse.

## 4. Proofs

TLAPS checks these for every value of the constants that satisfies the named
assumptions, that is for any number of slots, ports, peers, handlers and segments, any
capacity, timeout and clock.

* **TcpProofs.**  The inductive invariant is `Inv == TypeOK /\ TableInv`, and `TableInv` is
  the conjunction of `KeysUnique`, `EntryFields` and `LiveHasBuffers`.  It is kept by every step of
  the specification, whatever applications close: rude peers, ports closed in the middle, pointers
  to slots that hold another connection.  `EntryFields` says that an entry still in LISTEN has its fields or
  has both ports zero, which is what makes the SYN that fills them in safe and keeps answers with their peer;
  `LiveHasBuffers`, that whoever is released has buffers to free.
  `OwnerInv`, the conjunction of `BufsMatchState`, `LiveIsKnown` and `LivePortIsOpen`, is kept by every
  step but one, the close that `Strays`: every other `tcp_connect_close` deletes the entry of the slot it
  releases, or none, because the key built from the fields of a live connection is its entry's key (`LiveIsKnown`) and no
  other slot has that key; and `tcp_close` reaches every connection of the port for the same reason.
  So the theorems about it assume `Careful`.
  The proof has one lemma for each change several steps share (`Release`,
  `PutAndDelete`, `StateChange`, `StoreListen`, `DeleteTwice`), one for each call
  (`OpenPort`, `ClosePort`, `AppCloses`), and `SegmentAt`, with one case for each way
  through `tcp_in`.  Each says what it does to both parts.  `TypeCorrect`, `OneEntryPerPeer` and
  `NoneFreedTwice` follow from `Invariance`, for any applications; `BuffersAreSafe`, `LiveIsFound` and
  `PortsAreOpen` for careful ones.
* **TcpServiceProofs.**  From `Inv` of `TcpProofs`:
  `OnlySenderIsAnswered` goes through every way of `tcp_in` and looks at the one or two segments it
  sends (`AnswersOf`); an entry found in the table has the fields of the sender's key by
  `EntryFields`, a new one has them or port 0.
  `CallbacksGoToPort` needs one more invariant, `HandlerOfPort`: the pointer an entry keeps leads to
  the slot of `tcp_table` that holds the port of its key.  It is assumed there that no port is
  closed (`Closable = {}`); without that it is false.
  `TableIsService` is the refinement: the phase of a peer's connection is read from the only slot
  that may hold its key (`PhaseIsHere`, from `KeysUnique`); a step that changes one slot moves one
  connection (`PhaseMoves`); each way through `tcp_in`, `tcp_connect_close`, `tcp_close` and
  `tcp_open` is then one step of `TcpService`, or shows on nobody.
* **HttpProofs.**  The server on top of the table.  `RingOK` says that
  `front = (tail + count) % FifoSize` and that the places between hold pointers; `PutAtEnd` and
  `TakeFirst` translate the two calls into sequences, across the wrap-around, and give
  `ServedInOrder`, for any clients.  `ServerIsTyped` adds where a connection is being served
  (`Serving`).  For patient clients `HeldPointers` is inductive: the pointers in the ring and the one
  being served are those of different slots, each established and under the key it was accepted
  with; that is `ServedIsLive`, and it makes every close of the server one that does not stray.
  The same lemmas show of each step that it forgets nobody, unless a connection is accepted while
  the ring is full (`Remembers`).  Together they are `NobodyForgotten`.  It makes no assumption about sizes:
  `connect_table` has room for thousands, the ring for 40, and the forty-second client at once is
  the one that is forgotten.
* **NetMapProofs.**  `Inv == TypeOK /\ OneValidPerKey /\ SizeInBounds /\ ExactCount`.  The counter
  is compared with the entries in use, expired or not, which are what the code
  can count; `ExactCount` says that without a timeout they are equal, and that is
  `SizeIsCount`.  The cardinality steps use `FiniteSetTheorems`.  `ArrayIsStore` is the refinement:
  under `Inv` a lookup returns the value of the only valid entry (`LookupIs`), the stored keys are
  as many as the valid entries (`StoredIsValid`), and so each call is the one of `KeyValueStore`,
  a refused insertion included; a second that passes is `Forget` of what has expired, or nothing.
* **ArpProofs.**  `EachInOnePlace`: of the packets handed over for an address each is in its queue, or
  has left, or was dropped, and in neither of them twice.  That is stated with quantifiers over
  sequences and not with the cardinalities of `EachOnce`, which follows from it
  (`PacketsLeaveOnce`).  With `TypeOK` and `WaitingIsAsked` it is inductive for the specification with
  the linked lists, whose steps are steps of `Arp` (`QueuesStep`).
  Below that, `HeapInv` is about the nodes.  `Held` are the packets that have a node: those in a queue
  and those whose `queue_new` found `arp_buf` full.  There is a function from them to the allocated
  nodes, each node the image of one packet (`Own`), and the nodes of a queue are chained in its order
  (`Chained`).  So there are never more nodes than packets handed over, and `malloc` finds a free
  one within `HeapSize` (`NewNodeFree`): the bound is no restriction.  The chain that `queue_pop`
  follows is the queue (`ListFound`); a push at the tail extends one chain and none else
  (`EnqueueHeap`, `AskHeap`, `OthersApart`), and an answer frees exactly the nodes of one
  (`ReplyHeap`).  `ListsAreQueues` and `NodesAccounted` follow, the latter by a bijection between
  the nodes in no list and the packets dropped.
  `ArpImplementsOutgoing` is the refinement: `arp_buf` is what waits, the packets among the frames of
  the last step are what is on the wire (`WirePacket`), and each of `SendNow`, `Enqueue`, `Ask`, `Reply`
  is a step of `Outgoing`; every other step is `Quiet` there.
* **IpOutProofs.**  `AtOffset` says where in `txbuf` the rest of the datagram starts, `RestIsOriginal`
  that its bytes are those of the datagram as long as no request was built there: the header
  of a fragment only goes over bytes that were sent before.  `LinkInv` ties each fragment to the one
  before it (offset, flag, identifier); it needs `ShortLast`, that no long datagram is a multiple of
  the fragment size.
* **RxPathProofs.**  `AtLayer` says for each function of the stack where `rxbuf` stands relative to the
  frame; with it every function is one lemma.  `DriftIsBounded` is for any number of frames, and
  `FirstFramesFit` draws from it that the first 31 frames of any kind are copied inside `rxbuf`, and
  `EthernetFramesFit` that 1216 are if they are not longer than 1514 bytes, and that none of these fails the
  assertion of `buf_copy` that `rx_room` violates later.
  The specification, the constants of `config.h` and the sizes of the headers are those of the code.
  `FindsLongestPrefix` is about `driver_find`, for addresses of any number of bits and lists of any
  length.  Its loops are recursive functions.  That such a function exists is itself proved
  (`Loop`): otherwise there were a least number of rounds for which none does.  That there is a
  least one (`Least`) comes from the library's theorem that strict inclusion of finite sets is
  well-founded, which takes no operator and so stands in for induction.  In the same way
  `PrefixMatch` and `LongestMatch` carry an invariant through the loops: `ip_prefix_match` is the
  length of the longest common prefix, `Longest` the first interface with the best match.
* **TcpStreamProofs.**  Lemmas about wrapping numbers come first: the wrapped difference of two
  wrapped numbers is that of the numbers (`Difference`).  `Good(x)` is about a connection: its
  numbers are `base` plus the positions in the stream (`Numbered`, a FIN counts as one more), and the
  buffers end inside their arrays (`Inside`).  It is kept by each helper of `tcp.c` (`AcknowledgeGood`,
  `SendGood`, `ReadKeeps`, `StoreKeeps`, `AppendKeeps`, `FrontKeeps`, `WriteGood`, `EchoGood`, `FinKeeps`) as
  long as fewer than `W` bytes are in flight when a segment is made, and no FIN.  After that only
  `Shape(x)` is left, the types and the buffers inside their arrays (`SendShape`, `WriteShape`,
  `WriteLate`), and the invariant is `Shape(c) /\ (c.broken \/ Numbered(c))` with `Receives`, what is known of
  `rx_buf`, and `Writes`.  Nothing is assumed of the application; that the echo never gets there is proved
  (`Echoes`).
  `ConnectionIsStream` is the refinement of `ByteStream`.  One call may acknowledge, store,
  read, write, and send; `Moves` is what remains of it, a single step of `ByteStream`: the counts
  grow (`Grows`), and either bytes leave and are forgotten in order (`InOrder`) or the promise ends
  (`Breaks`), which needs `W` bytes in flight or a FIN before it.  `Receives` says that fewer than
  `Room` bytes are all stored, and gives `WildNeedsRoom`.
  `WindowStaysShut` is the general form of what `stream_http_send` finds: an acknowledgement of
  everything is ignored (`EverythingIgnored`), so once a window is in flight no step changes anything.

The assumptions on the constants are named in the modules that declare them: sizes are positive,
windows, numbers and lengths in the range of their types, frames and interfaces of the right shape.
There are finitely many addresses (`IpAssumption`), because the nodes of all queues are counted.
Where a theorem needs more it says so in its ASSUME: `Closable = {}`, patient clients,
`ShortLast`, `Careful`, `Ethernet`; section 5 has what happens otherwise.

Only model-checked: the liveness property `WaitingIsFlushed`, since
liveness under fairness is outside what the prover does, and the violations.  Every safety property and
every refinement that a passing run checks is also proved.

## 5. Disagreements between the code and what is said of it

With a run (`findings`):

1. `http_released`: `net_poll` inside `get_line` or `http_send` releases the connection being
   served; the server goes on reading and writing its freed buffers, and `close_http`
   may then close the connection that was given the slot meanwhile.
2. `stream_http_send`: `tcp.c:486` takes an acknowledgement only if it is strictly below
   `next_seq`.  The acknowledgement of everything sent is ignored, so once a window's
   worth is in flight `tcp_connect_write` refuses for ever and `http_send` does not return.
3. `rx_room`: `rxbuf` is initialised once (`ethernet.c:61`), every layer removes its header from
   it, and the next frame is put where the last one left the start.  On the 1974th ping (of 98
   bytes) the assertion of `buf_copy` (`buf.c:108`) fails; without assertions the frames go on
   to the end of the array.
4. `tcp_stray`: a connection is reset, the application is not told, and its peer connects again, into
   another slot.  When the application closes its old pointer, `tcp_connect_close` finds the slot in
   LISTEN, frees nothing, and deletes the key built from its fields (`tcp.c:227`), which is the new connection's.
   That one keeps its buffers and its state without an entry: segments of the peer
   make a third connection, `tcp_close` does not find it, and when its slot is used again its buffers
   are overwritten by new ones.  `close_http` (`http.c:88`) is such an application.

Met while modelling; the models take these steps, and no property claims otherwise:

* A RST as the first segment leaves the new entry in LISTEN in `connect_table`
  (`ListenRst`): the key rebuilt in `tcp_connect_close` has ports 0.  `tcp.c:93` says that a
  release is followed by the deletion of the key.  A full table is an `Assert` (`NoRoom`).
* The reset that answers a first segment other than SYN (`ListenReset`) carries the
  ports 0, so that the peer that `tcp.c:386` wants to notify does not get it.
* A RST with the expected number is answered with a RST (`EstablishedRst`,
  `OtherRst`), although `tcp.c:433` sends it to the label that sends nothing.
* `connect->handler` points into a slot of `tcp_table`: after `tcp_close` and `tcp_open` of
  another port an entry left in LISTEN calls that port's handler.
* With `get_line`, a client that connects and sends nothing keeps the server; `http.c:205` says
  that such a connection is closed.
* A connection accepted while the ring is full is never served (`http.c:176` ignores
  the refusal); `http_loop` has that case, and `NobodyIsForgotten` says that it is the only one.
* `sent` at `tcp.c:175` is a `uint16_t`; `tx_buf` can hold more, and with 65536 bytes unacknowledged
  old bytes go out under new numbers (`broken`).
* `rx_buf` is never moved to the front, although `tcp.c:76` says so.  Bytes that no longer fit are
  acknowledged, and copied behind the data all the same (`tcp.c:161-163`), which can pass the end of the
  array when more than 65663 bytes came on one connection (`wild`; `WildOnlyPastRoom` says that it does not before).
* `tcp_connect_close` sends at most one window of what `tcp.c:215` calls the remaining data.
* The FIN counts as a byte in flight (`tcp.c:175`, `tcp.c:210`).  When the peer has closed and
  `http_send` writes up to the end of `tx_buf`, the segment that `tcp_connect_write` then makes
  (`tcp.c:274`) goes out behind the FIN and skips a byte, or the difference of line 176 wraps
  (`broken`).
* With a timeout (`arp_table`) the counter of a map counts expired entries, twice if they are
  overwritten, until every new key is refused.
* `arp.c:134` says that the data of the queue is freed; the queue has just been emptied, so the
  copies that were popped are not.  One request is sent per queue and never again: if it is lost
  the packets wait for ever.  A request from the peer makes its address known without
  sending them.
* The first fragment of a datagram to an unknown address makes `arp_req` build its frame in
  `txbuf`, over the end of the datagram that `ip_out` is still cutting, although `ip.c:126`
  requires that the lower layers leave it alone (`arp_out` in IpOut).
* A datagram that is a multiple of 1480 bytes has no fragment without the flag "more
  fragments" and does not advance `ip_id`.
* `driver_find` keeps one match for an interface (`driver.c:58`): the second IPv4 address of an
  interface overwrites the match of the first.  The list of devices is not freed.
* `driver_recv` copies the frame without looking at the room left in `rxbuf` (`driver.c:153`), and
  `ethernet_in` reads the header of a frame of any length.
* `ip_in` tests the flag of a field that was not swapped (`ip.c:38`), takes the options of a header
  for payload (`ip.c:63`), and goes on with the buffer as it is if the length in the header is
  below 20 or more than what has arrived (`ip.c:60`).  `tcp_in` removes 20 bytes, also if the header
  has options (`tcp.c:446`).
* `icmp_unreachable` quotes 28 bytes however short the packet was (`icmp.c:63`).
* `udp_checksum` takes the protocol from the bytes in front of the datagram (`udp.c:33`); when
  sending these are the bytes of an earlier packet.
* `get_line` writes its terminator one place behind `rx_buffer` when the line is full (`http.c:64`).

## 6. Not modelled

* The values of checksums, and what the functions of `utils.c` print.
* The contents of headers that no test reads; of `udp_send` and `udp_out` only that the echo sends its
  data back.
* The text of HTTP requests and the files served; `http_send_content` and `queue_free`, which nothing
  calls.
* The size limit of `arp_table` (over 100 000 entries), which is in NetMap only.
* Numbers and bytes of several connections at once: one has them (TcpStream), and the table has
  none (Tcp); the two meet in the flags `in_seq` and `data` of a segment.  Segments of a peer that are
  lost or out of order do not have the expected number, and are in Tcp.
* The functions of libpcap, Npcap (headers of a library, most of the lines of the repository) and
  the programs in `testing/` that replay recorded frames.

## 7. What is left

`HttpServer` with a port that is closed while it is in the middle of a request.
