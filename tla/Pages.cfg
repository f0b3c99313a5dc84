SPECIFICATION Spec
CONSTANTS
    Orders = {o1, o2}
    Fees = {0, 5}
    Readers = {r1, r2}
    MaxChanges = 2
    MaxOpen <- RequestsAtOnce
    Savers = {s1, s2}
    None = None
SYMMETRY Symmetry
CHECK_DEADLOCK FALSE
INVARIANTS TypeOK SyncedShowsAll SavedForItsOrder
PROPERTIES NeverBackInTime
