SPECIFICATION FairSpec
CONSTANTS
    j1 = j1
    j2 = j2
    w1 = w1
    w2 = w2
    h1 = h1
    h2 = h2
    Jobs <- TwoJobs
    OcrWorkers <- TwoOcr
    HookWorkers <- OneHook
    MaxRetries = 1
    WithScheduler = TRUE
    Faults = {"endpoint"}
PROPERTIES
    AcceptedIsAnswered
    ResultIsSettled
    DocumentIsDiscarded
