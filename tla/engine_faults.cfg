SPECIFICATION Spec
CONSTANTS
    j1 = j1
    j2 = j2
    w1 = w1
    w2 = w2
    h1 = h1
    h2 = h2
    Jobs <- TwoJobs
    OcrWorkers <- TwoOcr
    HookWorkers <- OneHook
    MaxRetries = 1
    WithScheduler = TRUE
    Faults = {"api", "db", "kill", "endpoint", "redis", "storage"}
SYMMETRY Symmetry
INVARIANTS
    TypeOK
    IInv
    FinalMeansCleaned
    WebhookAgreesWithPolling
    OneExecution
    AttemptsAccountForSends
PROPERTY ImplementsContract
