SPECIFICATION FairSpec
CONSTANTS
    Name = {n1}
    Domain = {d1, d2}
    w1 = w1
    w2 = w2
    r1 = r1
    Worker = {w1, w2}
    Renewer = {r1}
    Process <- TwoProcesses
    NoJob = NoJob
    NoCert = NoCert
    MaxJobs = 2
    MaxOrders = 2
    MaxRows = 2
    MaxCrashes = 1
INVARIANTS
    TypeOK
    JobsHaveOneWorker
    NoRecordLeft
    SucceededIsServed
PROPERTIES
    UploadsAreKept
    EveryJobFinishes
    ImplementsQueue
CHECK_DEADLOCK FALSE
