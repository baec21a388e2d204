----------------------------- MODULE MCMatchups ------------------------------
EXTENDS Matchups, TLC

CONSTANTS p, q, a, b, g1, g2, g3, g4, s, t, whites, reds

OnePairing == {p}
TwoPairings == {p, q}
OneTeam == {a}
TwoTeams == {a, b}
TwoAndSub == {g1, g2, s}
FourAndSub == {g1, g2, g3, g4, s}
OneTab == {t}
Raining == {t :> {"rain"}}
RainingAndLocking == {t :> {"rain", "lock"}}

\* One team of two, which plays against itself, or two teams.
SelfLabels == {<<1, 2>>}
AllLabels == {<<1, 1>>, <<2, 2>>, <<1, 2>>}
TeamOfTwo == a :> <<g1, g2>>
TeamsOfTwo == a :> <<g1, g2>> @@ b :> <<g3, g4>>

\* As at first, with the substitute in the team, or with a place left open.
SubJoins == {<<g1, g2>>, <<g1, s>>}
SubJoinsOrNobody == {<<g1, s>>, <<NoOne, g2>>}

AllStartAtOne == [g \in Golfers |-> [tee |-> whites, strokes |-> 1]]
InOrder == [g \in Golfers |-> CASE g = g1 -> 1 [] g = g2 -> 2 [] g = g3 -> 3 [] g = g4 -> 4 [] g = s -> 5]

\* Other strokes, another tee with its own strokes, or another tee without.
Strokes2 == [tee |-> NoOne, strokes |-> 2]
Reds2 == [tee |-> reds, strokes |-> 2]
RedsOnly == [tee |-> reds, strokes |-> NoOne]

\* Two teams with seeds that change; one that plays itself, with scores and
\* requests; or one whose roster changes.
TwoPaired == [teams |-> {a, b}, pairings |-> {p, q}, changes |-> {"rain"}, arrangements |-> SubJoins,
              selections |-> {}, golfers |-> {g1}, overrides |-> {NoOverride, Strokes2, Reds2}]
OneAsked == [teams |-> {a}, pairings |-> {p}, changes |-> {"rain", "score", "request", "stop"},
             arrangements |-> SubJoins, selections |-> {}, golfers |-> {}, overrides |-> {}]
OneRoster == [teams |-> {a}, pairings |-> {p}, changes |-> {"roster"},
              arrangements |-> SubJoinsOrNobody, selections |-> {{}, Golfers}, golfers |-> {s},
              overrides |-> {NoOverride, Strokes2, RedsOnly}]
AllScopes == {TwoPaired, OneAsked, OneRoster}
OnlyAsked == {[OneAsked EXCEPT !.changes = {"rain", "request"}, !.arrangements = {}]}

MatchLine == [kind |-> "match", status |-> "scheduled", makeup |-> 0]
RainLine == [kind |-> "rain_date", status |-> "scheduled", makeup |-> 0]
WeekAndRain == {<<MatchLine, RainLine>>}
==============================================================================
