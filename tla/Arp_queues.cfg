\* Networks with and without losses; peers answer, ask and expire at any time;
\* arp_buf holds one queue or two.
CONSTANTS
    Ip = {a, b}
    NetIfIp = self
    Mac = {m1}
    Broadcast = Broadcast
    None = None
    Null = Null
    BufSizes = {1, 2}
    MaxPackets = 3
SPECIFICATION FairSpec
INVARIANTS TypeOK EachOnce WaitingIsAsked ListIsQueue NodesAreAccounted
PROPERTIES ImplementsOutgoing WaitingIsFlushed
