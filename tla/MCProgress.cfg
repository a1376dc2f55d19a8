SPECIFICATION OperatedSpec
CONSTANTS
    Alphabet <- MCAlphabet
    Keys <- MCKeys
    app = app
    Issues = {i1}
    Approvable = {}
    Workers = {w1, w2}
    Clients = {c1}
    Plans <- MCPlans
    WorkerStages <- MCWorkerStages
    Replanning = {}
    Results = {"succeeded", "failed"}
    Faults = {"claim", "heartbeat", "complete", "crash", "recover"}
    Lease = 1
    MaxAge = 1
    Timely = TRUE
    MaxRuns = 1
    MaxNow = 2
    LastFault = 0
    NoStage = NoStage
    NoPlan = NoPlan
    NoWorker = NoWorker
    NoIssue = NoIssue
PROPERTIES
    ActiveRunsSettle
