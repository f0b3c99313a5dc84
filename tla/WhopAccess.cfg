SPECIFICATION Spec
CONSTANTS
    Members = {m}
    Users = {u, v}
    Workspaces = {w1, w2}
    None = None
    Lease = 2
    MaxWait = 1
    Period = 2
    Fetching = 1
    MaxEvents = 2
    MaxTransfers = 1
INVARIANTS TypeOK RecentlyPaid LeaseWithinPeriod OwnWorkspace
PROPERTIES HoldLifted
SYMMETRY Symmetry
