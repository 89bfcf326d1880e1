\* Ports are opened, closed and opened again while peers connect; applications
\* do not close a connection its peer has replaced.
CONSTANTS
    r1 = r1  r2 = r2  p1 = p1  p2 = p2
    Free = Free
    Zero = Zero
    Ip = {a}
    RemotePort = {r1}
    LocalPort = {p1, p2}
    Closable = {p1, p2}
    Handler = {f}
    ConnMax = 2
    PortMax = 2
    Segment <- Segments
    Careful = TRUE
    LeakMax = 1
SPECIFICATION Spec
INVARIANTS TypeOK BufsMatchState LiveIsKnown LivePortIsOpen
PROPERTIES ImplementsService
CHECK_DEADLOCK FALSE
