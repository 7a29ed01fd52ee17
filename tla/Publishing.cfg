\* Every interleaving of two publishers over two lives of one fleet, whose hosts
\* the first edit breaks and the second repairs.
SPECIFICATION Spec
CONSTANTS
    p1 = p1
    p2 = p2
    Publisher = {p1, p2}
    Broken <- MCBroken
    NoRevision = NoRevision
    MaxNumber = 2
    MaxHostEdits = 2
    MaxCertEdits = 1
    MaxLives = 2
SYMMETRY PublishersAreAlike
INVARIANTS
    TypeOK
    HistoryIsGapless
    EveryPublishHasItsRevision
    RollbackIsACopy
    RevisionsCompile
PROPERTIES
    RevisionsAreImmutable
    LaterReadsAreNewer
    ImplementsLog
