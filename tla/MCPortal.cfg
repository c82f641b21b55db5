SPECIFICATION Spec
CONSTANTS
    Client = {c1, c2}
    Slots = 2
    Route = {"/", "/form"}
    Form = {"/form"}
    BodySize = 3
    BufferSize = 3
    None = None
INVARIANTS
    TypeOK
    Released
PROPERTIES
    PortalReached
