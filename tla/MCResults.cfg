\* Three matches of two weeks, with cards and handicaps coming and going.
SPECIFICATION Spec
CONSTANTS
    ann = ann bob = bob cal = cal dee = dee
    m1 = m1 m2 = m2 m3 = m3
    reds = reds whites = whites NoneYet = NoneYet
    NoHandicap = NoneYet NoOne = NoOne
    Golfers = {ann, bob, cal, dee}
    Teams = {reds, whites}
    Matches = {m1, m2, m3}
    Sides <- PlayerSides
    Pairing <- Pairings
    Holes = {1, 2, 3}
    Number <- FirstHoles
    Index <- SecondIsHardest
    Cards <- Few
    Snapshots <- Seeded
    Reseeds <- Again
INVARIANTS TypeOK RoundsByRule StandingsAgree SkinsByRule
