\* A connection is released while the server works on it.
CONSTANTS
    r1 = r1  r2 = r2  r3 = r3  r4 = r4
    Free = Free
    Zero = Zero
    Ip = {a}
    RemotePort = {r1, r2}
    LocalPort = {web}
    Closable = {}
    Handler = {http_handler_fn}
    ConnMax = 2
    PortMax = 1
    Segment <- RudeSegments
    Careful = FALSE
    LeakMax = 1
    FifoSize = 2
    Arriving = {"get", "text", "eol"}
    LineMax = 2
    RxMax = 1
    RxBusy = 2
    Response = 1
    Patient = FALSE
SPECIFICATION HttpSpec
INVARIANTS ServesLiveConnection
CHECK_DEADLOCK FALSE
SYMMETRY PeerSymmetry
