\* A send that Traefik does not take in time.
SPECIFICATION Spec
CONSTANTS
    a1 = a1
    everywhere = everywhere
    labelled = labelled
    prod = prod
    c1 = c1
    Agent = {a1}
    Host = {everywhere, labelled}
    Label = {prod}
    Selector <- MCSelector
    Cert = {}
    NoConfig = NoConfig
    MaxRevisions = 2
    MaxTimeouts = 1
    MaxCrashes = 0
INVARIANTS
    AppliedIsRunning
