\* A response longer than tx_buf, every byte acknowledged.
CONSTANTS
    W = 8
    S = 64
    U8 = 3
    Isn <- MiddleIsn
    Win <- FullWindow
    Chunk = 2
    Mss = 2
    TxTotal = 20
    App = {"calls"}
    RxTotal <- NoBytes
SPECIFICATION FairSpec
PROPERTIES AllIsWritten
CHECK_DEADLOCK FALSE
