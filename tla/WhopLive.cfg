SPECIFICATION FairSpec
CONSTANTS
    Members = {m}
    Users = {u}
    Workspaces = {w1}
    None = None
    Lease = 2
    MaxWait = 1
    Period = 2
    Fetching = 0
    MaxEvents = 1
    MaxTransfers = 0
PROPERTIES JobsProcessed PayerHasAccess
