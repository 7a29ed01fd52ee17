SPECIFICATION FairSpec
CONSTANTS
    Name = {n1}
    Domain = {d1}
    w1 = w1
    w2 = w2
    r1 = r1
    Worker = {w1}
    Renewer = {r1}
    Process <- OneProcess
    NoJob = NoJob
    NoCert = NoCert
    MaxJobs = 1
    MaxOrders = 2
    MaxRows = 1
    MaxCrashes = 0
PROPERTY
    RenewalReachesAgents
CHECK_DEADLOCK FALSE
