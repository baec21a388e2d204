\* Overlapping uploads and reviewed cards with every fault; reads across stops.
SPECIFICATION Spec
CONSTANTS
    p1 = p1 p2 = p2 boss = boss u1 = u1 u2 = u2 u3 = u3 u4 = u4
    NoPhoto = NoPhoto NoDraft = NoDraft
    Players = {p1, p2}
    Admins = {boss}
    Uploads = {u1, u2, u3, u4}
    UploaderOf <- Uploaders
    BusyAt = 1
    Lifetime = 1
    MaxDrafts = 2
    MaxNow = 1
    Scopes <- BothScopes
INVARIANTS TypeOK
PROPERTIES LimitsHold SavedOnceAsShown ReviewSettled ReadsEnd
