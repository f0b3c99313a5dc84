CONSTANTS
    n1 = n1  n2 = n2  t1 = t1  t2 = t2
    confirmation = confirmation  shipping = shipping  carrierMail = carrierMail  second = second
    None = None
    Numbers <- MCNumbers
    Tracks <- MCTracks
    Mails <- MCMails
    NumberOf <- MCNumberOf
    TrackOf <- MCTrackOf
    StatusOf <- MCStatusOf
    CarrierStatuses <- MCCarrierStatuses
    MaxMessages = 2
    MaxShipments = 1
SPECIFICATION FairSpec
PROPERTY ConflictFreeLoaded
