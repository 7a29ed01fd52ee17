\* No query fails and no client hangs up: is every mutation in the log?
SPECIFICATION Spec
CONSTANTS
    f1 = f1
    a1 = a1
    demo = demo
    t1 = t1
    p1 = p1
    r1 = r1
    r2 = r2
    Fleet = {f1}
    Agent = {a1}
    Token = {demo, t1}
    Prefix = {p1}
    PrefixOf <- MCPrefixOf
    Request = {r1}
    DemoFleet = f1
    DemoAgent = a1
    DemoToken = demo
    Bootstrap = Bootstrap
    NoFleet = NoFleet
    NoAgent = NoAgent
    NoRow = NoRow
    Faults = FALSE
    MaxAudit = 3
PROPERTIES
    EveryMutationIsRecorded
CHECK_DEADLOCK FALSE
