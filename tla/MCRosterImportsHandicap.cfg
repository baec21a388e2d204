\* A handicap that cannot be read, and an address shared for a while.
SPECIFICATION Spec
CONSTANTS
    t1 = t1 t2 = t2
    Texts <- AllTexts
    Tees = {"White", "Gold"}
    Numbers = {"7", "9"}
    Malformed = {"no address"}
    LowerCase <- Lowered
    NearMiss <- Suggested
    LongPhones = {}
    Digits <- PhoneDigits
    Uploads <- TwoUploads
    Retyped <- Corrections
    GolferForms <- Forms
    FirstGolfers <- Two
    Referenced = {1}
    Tabs = {t1, t2}
    MaxDataRows = 2 MaxUploadBytes = 2
    MaxWork = 4
INVARIANTS HandicapErrorStays
CHECK_DEADLOCK FALSE
SYMMETRY OtherTab
