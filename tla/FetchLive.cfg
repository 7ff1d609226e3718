SPECIFICATION LiveSpec
CONSTANTS
    Url <- TlsAndPlain
    Https <- Tls
    Sloppy <- PlainOnly
    NSLOT = 2
    NCONN = 1
    PERHOST = 1
    STREAMS = 1
    RESPMAX = 1
    PREMAX = 1
    SPARE = 1
    MaxReq = 2
PROPERTIES
    EveryRequestResolves
CHECK_DEADLOCK FALSE
