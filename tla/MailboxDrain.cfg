SPECIFICATION FairSpec
CONSTANTS
    p = p
    q = q
    Mails = {1, 2, 3, 4, 5}
    Kind <- MixedKind
    OrderOf <- MixedOrder
    Orders = {p, q}
    Saved = {3, 4, 5}
    SyncMax = 2
    AiBudget = 1
    MaxVersion = 2
    MaxFailures = 2
INVARIANTS TypeOK DecidedByReview
PROPERTIES ImplementsRecord SavedMailRecorded BackfillEnds
