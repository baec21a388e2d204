SPECIFICATION MatchupsSpec
CONSTANTS
    p = p
    q = q
    a = a
    b = b
    g1 = g1
    g2 = g2
    g3 = g3
    g4 = g4
    s = s
    t = t
    whites = whites
    reds = reds
    NoOne = NoOne
    Weeks = {1, 2}
    Pairings <- OnePairing
    Labels <- SelfLabels
    Golfers <- TwoAndSub
    Proposals <- WeekAndRain
    Tabs <- OneTab
    Uses <- Raining
    Edits = {}
    SeasonEdits = {}
    Changes = {}
    StartDate = 1
    MaxDate = 2
    Teams <- OneTeam
    Positions = {1, 2}
    FirstMembers <- TeamOfTwo
    Tees = {whites, reds}
    Strokes = {1, 2}
    OwnSeed <- AllStartAtOne
    Ids <- InOrder
    Scopes <- OnlyAsked
INVARIANTS
    PendingCanBeAnswered
CHECK_DEADLOCK FALSE
