SPECIFICATION OperatedSpec
CONSTANTS
    Alphabet <- MCAlphabet
    Keys = {}
    Issues = {i1}
    Approvable = {}
    Workers = {w1}
    Clients = {c1}
    Plans <- ShippedPlans
    WorkerStages <- MCWorkerStages
    Replanning = {}
    Results = {"succeeded", "failed"}
    Faults = {}
    Lease = 1
    MaxAge = 1
    Timely = TRUE
    MaxRuns = 1
    MaxNow = 2
    LastFault = 0
    NoStage = NoStage
    NoPlan = NoPlan
    NoWorker = NoWorker
    NoIssue = NoIssue
PROPERTIES
    RollbackQueued
