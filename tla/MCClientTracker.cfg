SPECIFICATION FairSpec
CONSTANTS
    N = 2
    Ip = {a, b, c}
    Mac = {m}
    NoIp = NoIp
    NoMac = NoMac
    Marker = {wifi}
    Clearer = {http}
    Scanner = {dns}
INVARIANTS
    TypeOK
    NoDuplicate
    BindingsWhole
PROPERTIES
    ImplementsWindow
    NothingHangs
