\* One admin's rain dates, nines and shifts against another's edits, nines and
\* shifts, and against the deletions, matches and scores that come in meanwhile.
SPECIFICATION Spec
CONSTANTS
    p = p g = g h = h t = t u = u
    NoOne = NoOne
    Weeks = {1, 2}
    Pairings <- OnePairing
    Labels = {"1"}
    Golfers <- TwoGolfers
    Proposals <- TwoWeeks
    Tabs <- TwoTabs
    Uses <- OneAgainstOther
    Edits <- CancelOrLink
    SeasonEdits <- ShorterAndBack
    Changes = {"score", "delete"}
    StartDate = 1
    MaxDate = 3
INVARIANTS TypeOK PlayedTogether MakeupsEnd DatesDistinct
PROPERTIES ConfirmedAsShown ScoresHoldTheWeek
CHECK_DEADLOCK FALSE
SYMMETRY AnyGolferOrTab
