SPECIFICATION Spec
CONSTANTS
    j1 = j1
    p1 = p1
    p2 = p2
    b1 = b1
    Jobs    <- MCJobs
    Public  <- MCPublic
    Blocked <- MCBlocked
    MaxRetries   = 3
    MaxRotations = 2
SYMMETRY Symmetry
INVARIANTS
    TypeOK
    PayloadStaysOutside
    RemovedDomainGoesQuiet
    RotationCostsOneAttempt
