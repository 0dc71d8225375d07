\* A client that has sent its script, and a closed connection, take no steps.
CONSTANTS
    None = None
    Clients <- MCClients
    BufferSize = 3
    MaxChunks = 2
    kMethodLength = 2
SPECIFICATION Spec
CHECK_DEADLOCK FALSE
INVARIANTS
    TypeOK
    FramingKept
    RepliesInOrder
    UploadIsValue
    ObjectsUnbroken
    NothingFromTheMiddle
PROPERTIES
    AllAnswered
    MalformedRejected
