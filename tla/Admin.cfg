\* Two requests at a time over one fleet, one agent and two tokens of one prefix.
SPECIFICATION Spec
CONSTANTS
    f1 = f1
    a1 = a1
    demo = demo
    t1 = t1
    p1 = p1
    r1 = r1
    r2 = r2
    Fleet = {f1}
    Agent = {a1}
    Token = {demo, t1}
    Prefix = {p1}
    PrefixOf <- MCPrefixOf
    Request = {r1, r2}
    DemoFleet = f1
    DemoAgent = a1
    DemoToken = demo
    Bootstrap = Bootstrap
    NoFleet = NoFleet
    NoAgent = NoAgent
    NoRow = NoRow
    Faults = TRUE
    MaxAudit = 1
SYMMETRY RequestsAreAlike
INVARIANTS
    TypeOK
    HandedOutWorks
    AuditIsTrue
PROPERTIES
    RevokedIsRefused
