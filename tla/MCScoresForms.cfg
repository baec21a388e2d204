\* One match; a player's form and cards, the admin's week sheet, two scores.
SPECIFICATION Spec
CONSTANTS
    m1 = m1 m2 = m2 m3 = m3
    ann = ann bob = bob cal = cal dee = dee eve = eve fay = fay sub = sub
    uAnn = uAnn uCal = uCal admin = admin
    NoOne = NoOne
    Matches = {m1}
    Golfers <- ThreeGolfers
    Holes = {1, 2}
    Strokes = {4, 5}
    Players = {uAnn}
    Admins = {admin}
    GolferOf <- AnnOnly
    TeamMembers <- TwoGolfers
    FirstSides <- OneMatchSides
    Pages <- SheetPages
    Opened <- OpenAll
    WeekEdits = {"date"}
    MaxRevision = 2
INVARIANTS TypeOK FormsTrue ScoresWhole
PROPERTIES ChangedAsAllowed IsScorebook
