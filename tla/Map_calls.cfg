\* Without a timeout, as tcp_table, connect_table, udp_table, net_table and arp_buf
\* are used, and with one, as arp_table is.
CONSTANTS
    k1 = k1  k2 = k2  k3 = k3
    Nothing = Nothing
    Key = {k1, k2, k3}
    Value = {u, v}
    max_size = 3
    Timeouts = {0, 1}
    MaxTime = 4
SPECIFICATION Spec
INVARIANTS TypeOK SizeIsCount OneValidPerKey SizeInBounds
PROPERTIES ImplementsStore
SYMMETRY KeySymmetry
CHECK_DEADLOCK FALSE
