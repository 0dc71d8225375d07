\* A finished connection takes no more steps.
CONSTANTS
    None = None
    MaxChunks = 3
SPECIFICATION Spec
CHECK_DEADLOCK FALSE
INVARIANTS
    TypeOK
    RequestsInOrder
    NeverSpins
PROPERTIES
    SessionReleased
    SilentPeerDropped
    ObjectSent
