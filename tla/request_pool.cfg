SPECIFICATION FairSpec
CONSTANTS
    c1 = c1
    c2 = c2
    p1 = p1
    h1 = h1
    Creates <- CreateRequests
    Polls <- PollRequests
    Probes <- ProbeRequests
    Inline <- InlineRequests
    Threads = 2
    Capacity = 2
INVARIANTS
    TypeOK
    OneConnectionEach
    NothingHeldAfterwards
    HealthReports
PROPERTY RequestsEnd
