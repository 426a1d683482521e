\* well-formed chunked messages
SPECIFICATION Spec
CONSTANTS
    Messages <- PlainChunked
    MaxMessages = 0
INVARIANT BodyAsSent
CHECK_DEADLOCK FALSE
