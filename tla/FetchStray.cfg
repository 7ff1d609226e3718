SPECIFICATION Spec
CONSTANTS
    Url <- TlsAndPlain
    Https <- Tls
    Sloppy <- PlainOnly
    NSLOT = 1
    NCONN = 1
    PERHOST = 1
    STREAMS = 1
    RESPMAX = 1
    PREMAX = 0
    SPARE = 1
    MaxReq = 2
PROPERTY
    StraysUnusable
CHECK_DEADLOCK FALSE
