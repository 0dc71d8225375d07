\* The parser waits for the rest of a bulk whose length is no number.
CONSTANTS
    None = None
    Clients <- OneStuck
    BufferSize = 2
    MaxChunks = 1
SPECIFICATION Spec
CHECK_DEADLOCK FALSE
PROPERTY MalformedRejected
