SPECIFICATION Spec
CONSTANTS
    Requests = {r1, r2}
    Addresses = {a1, a2}
    Limit = 1
    Fields = {theme, name}
    Values = {v1, v2}
    Default = v1
    Items = {i1, i2}
    MaxLinks = 2
    Callers = {c, d}
    Lifetimes = {1, 3, 5}
    Margin = 2
    Timeout = 1
    None = None
SYMMETRY Symmetry
INVARIANTS LimitKept HiddenAsReported PortalWhole TokenStillAccepted
PROPERTIES ImplementsSerial
