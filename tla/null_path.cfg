SPECIFICATION Spec
CONSTANTS
    j1 = j1
    j2 = j2
    w1 = w1
    w2 = w2
    h1 = h1
    h2 = h2
    Jobs <- OneJob
    OcrWorkers <- OneOcr
    HookWorkers <- OneHook
    MaxRetries = 1
    WithScheduler = TRUE
    Faults = {"api"}
INVARIANT NullPathMeansCleaned
