\* One agent, two revisions: polls, publishes, label edits, restarts, lost sends;
\* and, when the changes stop, whether the published revision arrives.
SPECIFICATION FairSpec
CONSTANTS
    a1 = a1
    everywhere = everywhere
    labelled = labelled
    prod = prod
    c1 = c1
    Agent = {a1}
    Host = {everywhere, labelled}
    Label = {prod}
    Selector <- MCSelector
    Cert = {}
    NoConfig = NoConfig
    MaxRevisions = 2
    MaxTimeouts = 1
    MaxCrashes = 2
INVARIANTS
    TypeOK
    NoMixture
    RestartStillRoutes
PROPERTIES
    NotModifiedIsTrue
    CacheNeverRegresses
    TraefikNeverRegresses
    ImplementsReplica
    EventuallyCurrent
    EventuallyReported
