SPECIFICATION Spec
CONSTANTS
    Alphabet <- MCAlphabet
    Keys = {}
    Issues = {i1}
    Approvable = {}
    Workers = {w1}
    Clients <- MCClients
    Plans <- MCPlans
    WorkerStages <- MCWorkerStages
    Replanning = {"plan"}
    Results = {"succeeded"}
    Faults = {"reconcile", "materialize"}
    Lease = 1
    MaxAge = 1
    Timely = TRUE
    MaxRuns = 2
    MaxNow = 0
    LastFault = 0
    c1 = c1
    c2 = c2
    NoStage = NoStage
    NoPlan = NoPlan
    NoWorker = NoWorker
    NoIssue = NoIssue
SYMMETRY ClientSymmetry
INVARIANTS
    UniqueAttempts
    OneOpenRun
