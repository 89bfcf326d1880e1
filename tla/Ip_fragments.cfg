\* Any datagram that leaves a shorter last fragment; any state of the address.
CONSTANTS
    MaxLength = 6
    HeaderLength = 1
    Headers = 2
    ArpFrame = 3
    Middle = 24
    Ids = 5
    Length <- LastIsShort
    Lookups = {"known", "asked", "unknown"}
SPECIFICATION Spec
INVARIANTS TypeOK BytesAreOriginal LastIsMarked CanBeReassembled
