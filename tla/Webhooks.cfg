SPECIFICATION FairSpec
CONSTANTS
    Worker = {w1, w2}
    Hook = {h1, h2}
    NoJob = NoJob
    MaxAttempts = 2
    MaxJobs = 2
    MaxLosses = 1
    MaxCrashes = 1
INVARIANTS
    TypeOK
    JobsHaveOneWorker
    AttemptsAreCounted
    OutcomeIsTrue
PROPERTIES
    ImplementsQueue
    EveryDeliveryEnds
CHECK_DEADLOCK FALSE
