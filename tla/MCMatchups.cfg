\* Two teams paired, adjusted and re-seeded; one with scores and requests; or
\* one whose roster changes.
SPECIFICATION MatchupsSpec
CONSTANTS
    p = p q = q a = a b = b g1 = g1 g2 = g2 g3 = g3 g4 = g4
    s = s t = t whites = whites reds = reds NoOne = NoOne
    Weeks = {1, 2}
    Pairings <- TwoPairings
    Labels <- AllLabels
    Golfers <- FourAndSub
    Proposals <- WeekAndRain
    Tabs <- OneTab
    Uses <- RainingAndLocking
    Edits = {}
    SeasonEdits = {}
    Changes = {"score", "delete"}
    StartDate = 1
    MaxDate = 2
    Teams <- TwoTeams
    Positions = {1, 2}
    FirstMembers <- TeamsOfTwo
    Tees = {whites, reds}
    Strokes = {1, 2}
    OwnSeed <- AllStartAtOne
    Ids <- InOrder
    Scopes <- AllScopes
INVARIANTS MatchupsTypeOK MatchupsHold
PROPERTIES AdjustmentsStay FulfilledByReplacement IsSchedule
CHECK_DEADLOCK FALSE
