\* Well-behaved clients: no two requests on one file at a time, no lost
\* connection, no failing disk.  A name can be an object or the directory of one.
CONSTANTS
    Paths = {"a", "d", "d/f", ""}
    Names = {"a", "a.tmp", "d", "d.tmp", "d/f", "d/f.tmp"}
    Inodes = {1, 2, 3, 4, 5, 6, 7}
    Conns = {c1, c2}
    Values = {"v0", "v1", "v2", "v3"}
    W = 16
    m_maxBytes = 4
    kStreamingThreshold = 1
    kReadChunkSize = 2
    EmptyPath = ""
    Env = {}
    Missing = Missing
    Directory = Directory
    Hole = "hole"
    nullopt = nullopt
    Bytes <- MCBytes
    sizeOf <- MCSizeOf
    mapPath <- MCMapPath
    tempOf <- MCTempOf
    TempNames <- MCTempNames
    Ancestors <- MCAncestors
SYMMETRY MCSymmetry
SPECIFICATION Spec
INVARIANTS
    IndexExact
    CapacityKept
    ReadIsSnapshot
PROPERTIES
    ImplementsObjectStorage
