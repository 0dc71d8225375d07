CONSTANTS
    None = None
    MaxChunks = 1
SPECIFICATION Spec
CHECK_DEADLOCK FALSE
PROPERTY IdleConnectionCloses
