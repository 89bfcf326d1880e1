\* An application closes a connection that was reset meanwhile, and whose peer has
\* connected again: the pointer leads to a slot in LISTEN, the key to another slot.
CONSTANTS
    r1 = r1  r2 = r2  p1 = p1  p2 = p2
    Free = Free
    Zero = Zero
    Ip = {a}
    RemotePort = {r1, r2}
    LocalPort = {p1}
    Closable = {}
    Handler = {f}
    ConnMax = 2
    PortMax = 1
    Segment <- Segments
    Careful = FALSE
    LeakMax = 1
SPECIFICATION Spec
INVARIANTS BufsMatchState
CHECK_DEADLOCK FALSE
