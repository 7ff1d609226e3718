SPECIFICATION Spec
CONSTANTS
    Url <- TlsAndPlain
    Https <- Tls
    Sloppy <- PlainOnly
    NSLOT = 2
    NCONN = 2
    PERHOST = 2
    STREAMS = 2
    RESPMAX = 1
    PREMAX = 1
    SPARE = 1
    MaxReq = 2
CHECK_DEADLOCK FALSE
INVARIANTS
  OwnAnswer
  LinksAgree
  SentTwiceAtMost
PROPERTIES
  HandlesKept
