\* Does every published host keep a router of its own?
SPECIFICATION Spec
CONSTANTS
    Character <- MCCharacter
    Replaced = {"."}
    Name <- MCName
    Hostname = {"d1", "d2"}
    EntryPoint = {"web", "udp53"}
    Body <- MCBody
    Chain <- MCChain
    MaxHosts = 2
    MaxTemplates = 1
    MaxChain = 2
INVARIANT
    NothingIsOverwritten
