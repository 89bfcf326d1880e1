\* Three frames of any of the kinds, on every small list of interfaces.
CONSTANTS
    W = 3
    net_if_ip <- Address0
    Interfaces <- Lists
    FrameSet <- Frames
    MaxFrames = 3
SPECIFICATION Spec
INVARIANTS TypeOK FindsLongest PassedOnIsOurs OutIsClean DriftBounded
CHECK_DEADLOCK FALSE
