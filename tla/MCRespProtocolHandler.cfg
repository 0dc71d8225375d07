\* A client that has sent its script, and a closed connection, take no steps.
CONSTANTS
    None = None
    Clients <- MCClients
    BufferSize = 2
    MaxChunks = 1
SPECIFICATION Spec
CHECK_DEADLOCK FALSE
INVARIANTS
    TypeOK
    FramingKept
    RepliesInOrder
    UploadIsValue
    ObjectsUnbroken
PROPERTIES
    AllAnswered
    ErrorsClose
