\* Two publishers, one renewed certificate: which state does the newest revision hold?
SPECIFICATION Spec
CONSTANTS
    p1 = p1
    p2 = p2
    Publisher = {p1, p2}
    Broken <- MCBroken
    NoRevision = NoRevision
    MaxNumber = 2
    MaxHostEdits = 0
    MaxCertEdits = 1
    MaxLives = 1
PROPERTIES
    PublishedCertsNeverRegress
