\* One certificate on its way to Traefik.
SPECIFICATION Spec
CONSTANTS
    a1 = a1
    everywhere = everywhere
    labelled = labelled
    prod = prod
    c1 = c1
    Agent = {a1}
    Host = {everywhere, labelled}
    Label = {prod}
    Selector <- MCSelector
    Cert = {c1}
    NoConfig = NoConfig
    MaxRevisions = 2
    MaxTimeouts = 0
    MaxCrashes = 0
INVARIANTS
    ServedCertsHaveKeys
