\* Four peers that follow the protocol: one is served, two wait, and the ring is
\* full when the fourth is accepted.
CONSTANTS
    r1 = r1  r2 = r2  r3 = r3  r4 = r4
    Free = Free
    Zero = Zero
    Ip = {a}
    RemotePort = {r1, r2, r3, r4}
    LocalPort = {web}
    Closable = {}
    Handler = {http_handler_fn}
    ConnMax = 4
    PortMax = 1
    Segment <- PoliteSegments
    Careful = FALSE
    LeakMax = 1
    FifoSize = 2
    Arriving = {"get", "eol"}
    LineMax = 1
    RxMax = 1
    RxBusy = 1
    Response = 1
    Patient = TRUE
SPECIFICATION HttpSpec
INVARIANTS HttpTypeOK ServesLiveConnection
PROPERTIES FirstComeFirstServed NobodyIsForgotten
SYMMETRY PeerSymmetry
VIEW ServerView
