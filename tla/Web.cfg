SPECIFICATION Spec
CONSTANTS
    Tokens <- MCTokens
    MAXLINE = 4
    RIO_BUFSIZE = 2
    c1 = c1
    c2 = c2
    Clients = {c1, c2}
    Leavers = {c2}
    Requests <- MCRequests
    CgiUris = {"/cgi-bin/adder?1&2", "/cgi-bin/adder"}
    Query <- MCQuery
    Path <- MCPath
    Home <- MCHome
    Files = {"/home.html", "/page", "/secret", "/empty", "/cgi-bin/adder"}
    Allowed = {"/home.html", "/page", "/empty", "/cgi-bin/adder"}
    Empty = {"/empty"}
    Versions = {"Part1", "Part2"}
    HostHeaders = {"Host: a", "Host: b"}
    ColonUris = {"/a:b"}
    NoPathUris = {"http://origin"}
    OtherHdr <- MCOtherHdr
    Site <- MCSite
CHECK_DEADLOCK FALSE
INVARIANTS
    TypeOK
    AnswersMatch
    HostForwarded
    ResetOnlyAfterRefusal
PROPERTY
    Served
