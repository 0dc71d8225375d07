\* A smaller upload over an object fails after its space was given away.
CONSTANTS
    Paths = {"a", "b"}
    Names = {"a", "a.tmp", "b", "b.tmp"}
    Inodes = {1, 2, 3, 4, 5, 6}
    Conns = {c1, c2}
    Values = {"v2", "v3"}
    W = 16
    m_maxBytes = 5
    kStreamingThreshold = 1
    kReadChunkSize = 2
    EmptyPath = ""
    Env = {"fault"}
    Missing = Missing
    Directory = Directory
    Hole = "hole"
    nullopt = nullopt
    Bytes <- MCBytes
    sizeOf <- MCSizeOf
    mapPath <- MCMapPath
    tempOf <- MCTempOf
    TempNames <- MCTempNames
    Ancestors <- MCAncestors
SPECIFICATION Spec
INVARIANTS
    CapacityKept
