\* A substitute in a locked match that has no scores yet.
SPECIFICATION Spec
CONSTANTS
    m1 = m1 m2 = m2 m3 = m3
    ann = ann bob = bob cal = cal dee = dee eve = eve fay = fay sub = sub
    uAnn = uAnn uCal = uCal admin = admin
    NoOne = NoOne
    Matches = {m1}
    Golfers <- ThreeGolfers
    Holes = {1}
    Strokes = {4, 5}
    Players = {uAnn}
    Admins = {admin}
    GolferOf <- AnnOnly
    TeamMembers <- TwoGolfers
    FirstSides <- OneMatchSides
    Pages <- SheetPages
    Opened <- OpenAll
    WeekEdits = {"type", "date"}
    MaxRevision = 3
PROPERTY LockedMatchRefusesEveryChange
