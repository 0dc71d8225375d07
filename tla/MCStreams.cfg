\* Every value is streamed.  Clients vanish and the server is killed between any
\* two callbacks, and uploads fail at the open, in a write or at the close.
CONSTANTS
    Paths = {"a", "../a"}
    Names = {"a", "a.tmp"}
    Inodes = {1, 2, 3, 4}
    Conns = {c1, c2}
    Values = {"v2", "x2", "v3"}
    W = 16
    m_maxBytes = 3
    kStreamingThreshold = 1
    kReadChunkSize = 2
    EmptyPath = ""
    Env = {"disconnect", "fault"}
    Missing = Missing
    Directory = Directory
    Hole = "hole"
    nullopt = nullopt
    Bytes <- MCBytes
    sizeOf <- MCSizeOf
    mapPath <- MCMapPath
    tempOf <- MCTempOf
    TempNames <- MCTempNames
    Ancestors <- MCAncestors
SYMMETRY MCSymmetry
SPECIFICATION Spec
INVARIANTS
    ObjectsWhole
    ReadIsSnapshot
    LeaksAreReservations
PROPERTIES
    ImplementsObjectStorage
