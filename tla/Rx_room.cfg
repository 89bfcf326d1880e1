\* Pings as the ping program sends them, one after another.
CONSTANTS
    W = 3
    net_if_ip <- Address0
    Interfaces <- Single
    FrameSet <- Pings
    MaxFrames = 2500
SPECIFICATION Spec
INVARIANTS BufCopyAsserts
CHECK_DEADLOCK FALSE
