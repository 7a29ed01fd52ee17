\* The hosts and templates of a fleet as administrators edit and publish them.
SPECIFICATION Spec
CONSTANTS
    Character <- MCCharacter
    Replaced = {"."}
    Name <- MCName
    Hostname = {"d1", "d2"}
    EntryPoint = {"web", "udp53"}
    Body <- MCBody
    Chain <- MCChain
    MaxHosts = 2
    MaxTemplates = 1
    MaxChain = 2
INVARIANTS
    TypeOK
    EveryAgentIsServed
    OrderDoesNotMatter
    RoutersBelongToHosts
    ReferencesResolve
    TemplatesCompile
