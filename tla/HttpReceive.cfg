CONSTANTS
    Responses <- Replies
    Requests <- Asks
    BUFLEN = 5
    SizeBits = 6
    NULL = NULL
SPECIFICATION ExchangeSpec
INVARIANTS
    TypeOK
    ReturnsReply
    ConnectionInStep
    RequestHeard
    UplinkInStep
PROPERTIES
    ReceiveEnds
    ExchangeEnds
