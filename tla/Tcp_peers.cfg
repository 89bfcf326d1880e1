\* Two peers on two ports compete for two slots; no port is ever closed, but
\* applications close connections whenever they want, gone ones too.
CONSTANTS
    r1 = r1  r2 = r2  p1 = p1  p2 = p2
    Free = Free
    Zero = Zero
    Ip = {a}
    RemotePort = {r1, r2}
    LocalPort = {p1, p2}
    Closable = {}
    Handler = {f, g}
    ConnMax = 2
    PortMax = 2
    Segment <- Segments
    Careful = FALSE
    LeakMax = 1
SPECIFICATION Spec
INVARIANTS KeysUnique AnswersSender CallbackGoesToPort LiveHasBuffers
PROPERTIES ImplementsService
SYMMETRY PeerSymmetry
CHECK_DEADLOCK FALSE
