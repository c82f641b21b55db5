SPECIFICATION Spec
CONSTANTS
    DomainSize = 6
    ResponseSize = 38
    Probe <- MCProbe
    Address <- MCAddress
    Client = {c1, c2}
    Query <- MCQuery
    Name <- MCName
    None = None
SYMMETRY Clients
CONSTRAINT NotCorrupted
INVARIANTS
    TypeOK
    ParseRight
    RedirectRight
    ProbesRedirected
    ReplyToAsker
PROPERTIES
    SilentWhenStopped
