\* A request stores the object that an upload by SETNX found absent.
CONSTANTS
    Paths = {"a"}
    Names = {"a", "a.tmp"}
    Inodes = {1, 2, 3, 4, 5, 6}
    Conns = {c1}
    Values = {"v1", "v2"}
    W = 16
    m_maxBytes = 4
    kStreamingThreshold = 1
    kReadChunkSize = 2
    EmptyPath = ""
    Env = {"contend"}
    Missing = Missing
    Directory = Directory
    Hole = "hole"
    nullopt = nullopt
    Bytes <- MCBytes
    sizeOf <- MCSizeOf
    mapPath <- MCMapPath
    tempOf <- MCTempOf
    TempNames <- MCTempNames
    Ancestors <- MCAncestors
SPECIFICATION Spec
INVARIANTS
    SetNxReplacesNothing
