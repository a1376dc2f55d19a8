SPECIFICATION OperatedSpec
CONSTANTS
    Alphabet <- MCAlphabet
    Keys <- MCKeys
    app = app
    Issues <- MCIssues
    i1 = i1
    i2 = i2
    Approvable = {}
    Workers = {w1}
    w1 = w1
    w2 = w2
    Clients = {c1}
    Plans <- MCPlans
    WorkerStages <- MCWorkerStages
    Replanning = {}
    Results = {"succeeded"}
    Faults = {}
    Lease = 1
    MaxAge = 1
    Timely = TRUE
    MaxRuns = 2
    MaxNow = 0
    LastFault = 0
    NoStage = NoStage
    NoPlan = NoPlan
    NoWorker = NoWorker
    NoIssue = NoIssue
PROPERTIES
    OutcomeMirrored
