\* Three matches and two players who keep score for other pairs; no admin.
SPECIFICATION Spec
CONSTANTS
    m1 = m1 m2 = m2 m3 = m3
    ann = ann bob = bob cal = cal dee = dee eve = eve fay = fay sub = sub
    uAnn = uAnn uCal = uCal admin = admin
    NoOne = NoOne
    Matches = {m1, m2, m3}
    Golfers <- SixGolfers
    Holes = {1}
    Strokes = {4}
    Players = {uAnn, uCal}
    Admins = {}
    GolferOf <- AnnAndCal
    TeamMembers <- SixGolfers
    FirstSides <- ThreeMatchSides
    Pages <- KeeperPages
    Opened <- OpenSecond
    WeekEdits = {"type", "date"}
    MaxRevision = 2
INVARIANTS KeptAtMostOne EntryOfferMatchesService
