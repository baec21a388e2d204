\* One golfer's links of both kinds; joining under the quotas; the admin's forms.
SPECIFICATION Spec
CONSTANTS
    ann = ann bob = bob cal = cal NoOne = NoOne
    p = p q = q
    i = i j = j
    Golfers = {ann, bob, cal}
    Emails = {"admin@", "ann@", "bob@", "cal@", "new@"}
    Passwords <- TwoPasswords
    Browsers = {"b"}
    Addresses <- TwoAddresses
    AdminEmail = "admin@"
    FirstEmail <- AllListed
    VerificationRequired = TRUE
    MaxUsers = 3 InviteCap = 3
    VerifyTTL = 2 ResetTTL = 1
    Bounds <- AllBounds
    Labels = {"spring", "fall"}
    FirstInvites <- OneInvite
    InviteTTL = 3 SetTTL = 1 TwinSpan = 2 FormTTL = 3 ReceiptTTL = 1
    Limit <- Limits Span <- Spans
INVARIANTS TypeOK LinksHold SessionsFollowPassword AccountsHold QuotasHold OutcomesCounted InvitesApart
PROPERTIES CompletedAsIssued
CHECK_DEADLOCK FALSE
SYMMETRY Alike
