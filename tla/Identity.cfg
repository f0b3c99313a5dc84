SPECIFICATION Spec
CONSTANTS
    m1 = m1
    m2 = m2
    Users = {d, e}
    Manual = {s}
    Members = {m1, m2}
    ProductOf <- SoloAndAco
    Buyers = {u, v}
    Workspaces = {w1, w2}
    Claims = {a, b}
    None = None
    MaxChanges = 1
INVARIANTS TypeOK OneSoloService AccountFollowsBinding DefaultIsOwn
PROPERTIES ImplementsDirectory ClaimedByCurrentKey
SYMMETRY Symmetry
