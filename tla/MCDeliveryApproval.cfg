SPECIFICATION Spec
CONSTANTS
    w1 = w1
    w2 = w2
    Alphabet <- MCAlphabet
    Keys = {}
    Issues = {i1}
    Approvable = {i1}
    Workers <- MCWorkers
    Clients = {c1}
    Plans <- MCPlans
    WorkerStages <- MCWorkerStages
    Replanning = {}
    Results <- MCResults
    Faults = {}
    Lease = 1
    MaxAge = 1
    Timely = TRUE
    MaxRuns = 1
    MaxNow = 0
    LastFault = 0
    NoStage = NoStage
    NoPlan = NoPlan
    NoWorker = NoWorker
    NoIssue = NoIssue
SYMMETRY WorkerSymmetry
INVARIANTS
    AwaitingIsUnpromoted
