\* One stream, and every hazard of the environment at once; the object and its
\* temporary can both be addressed by clients.
CONSTANTS
    Paths = {"a", "a.tmp"}
    Names = {"a", "a.tmp"}
    Inodes = {1, 2, 3}
    Conns = {c1}
    Values = {"v1", "v2"}
    W = 3
    m_maxBytes = 2
    kStreamingThreshold = 1
    kReadChunkSize = 2
    EmptyPath = ""
    Env = {"contend", "overwrite", "disconnect", "fault", "unreadable", "crash"}
    Missing = Missing
    Directory = Directory
    Hole = "hole"
    nullopt = nullopt
    Bytes <- MCBytes
    sizeOf <- MCSizeOf
    mapPath <- MCMapPath
    tempOf <- MCTempOf
    TempNames <- MCTempNames
    Ancestors <- MCAncestors
SPECIFICATION Spec
INVARIANTS
    TypeOK
    TotalMatchesIndex
