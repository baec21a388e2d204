\* A nine of a course whose holes' ids are not their numbers.
SPECIFICATION Spec
CONSTANTS
    ann = ann bob = bob cal = cal dee = dee
    m1 = m1 m2 = m2 m3 = m3
    reds = reds whites = whites NoneYet = NoneYet
    NoHandicap = NoneYet NoOne = NoOne
    Golfers = {ann, bob, cal, dee}
    Teams = {reds, whites}
    Matches = {m1, m2, m3}
    Sides <- PlayerSides
    Pairing <- Pairings
    Holes = {19, 20, 21}
    Number <- LaterHoles
    Index <- SecondOfLaterIsHardest
    Cards <- Few
    Snapshots <- Seeded
    Reseeds <- Again
INVARIANTS SkinsDecided
