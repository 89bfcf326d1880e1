\* Numbers next to the wrap and in the middle, bytes in flight up to and past W,
\* writes after the FIN of the peer; tx_buf moves to the front, and the echo
\* application receives more than rx_buf has room for behind its start.
CONSTANTS
    W = 8
    S = 64
    U8 = 3
    Isn <- AnyIsn
    Win <- Windows
    Chunk = 3
    Mss = 2
    TxTotal = 14
    App = {"echo", "calls"}
    RxTotal <- SomeBytes
SPECIFICATION Spec
INVARIANTS TypeOK SentIsInBuffer NumbersMatchBytes WildOnlyPastRoom
PROPERTIES ImplementsStream
CHECK_DEADLOCK FALSE
