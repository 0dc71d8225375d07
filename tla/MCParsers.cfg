SPECIFICATION Spec
CONSTANTS
    None = None
    INT_MAX = 7
    LONG_MAX = 11
    kMaxArrayElements = 4
    kStreamingThreshold = 2
    kMaxHeaderSectionSize = 26
    kMaxBodySize = 9
    MaxPort = 5
    RespJobs <- MCRespJobs
    HttpJobs <- MCHttpJobs
    PathJobs <- MCPathJobs
    ArgJobs <- MCArgJobs
    Roots <- MCRoots
INVARIANTS ReadsBack StreamingAgrees PathsContained
PROPERTY VerdictsFinal
CHECK_DEADLOCK FALSE
