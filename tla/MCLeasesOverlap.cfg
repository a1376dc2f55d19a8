SPECIFICATION Spec
CONSTANTS
    app = app
    doc = doc
    w1 = w1
    w2 = w2
    Alphabet <- MCAlphabet
    Keys <- MCKeys
    Issues = {i1}
    Approvable = {}
    Workers <- MCWorkers
    Clients = {c1}
    Plans <- MCPlans
    WorkerStages <- MCWorkerStages
    Replanning = {}
    Results <- MCResults
    Faults = {}
    Lease = 1
    MaxAge = 1
    Timely = FALSE
    MaxRuns = 1
    MaxNow = 2
    LastFault = 2
    NoStage = NoStage
    NoPlan = NoPlan
    NoWorker = NoWorker
    NoIssue = NoIssue
SYMMETRY WorkerSymmetry
INVARIANTS
    MutualExclusion
