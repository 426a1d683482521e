\* messages with Content-Length, and without a body
SPECIFICATION Spec
CONSTANTS
    Messages <- LengthMessages
    MaxMessages = 1
INVARIANTS
    TypeOK
    NeverBeforeTheEnd
    AnsweredAtTheEnd
    BodyAsSent
    DecoderInverts
CHECK_DEADLOCK FALSE
