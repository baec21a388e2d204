------------------------------- MODULE MCWeeks -------------------------------
EXTENDS Weeks, TLC

CONSTANTS p, g, h, t, u

OnePairing == {p}
TwoGolfers == {g, h}
TwoTabs == {t, u}
AnyGolferOrTab == Permutations(TwoGolfers) \cup Permutations(TwoTabs)

\* Rain dates and nines against edits and locks, rain dates against shifts, shifts
\* against edits, and two changes of nine and two shifts at once.
Races == {<<{"rain", "nine"}, {"edit", "lock"}>>, <<{"rain"}, {"shift"}>>, <<{"shift"}, {"edit"}>>,
          <<{"nine"}, {"nine"}>>, <<{"shift"}, {"shift"}>>}
\* Either tab is used for either side, as the symmetry asks for.
OneAgainstOther == {t :> race[i] @@ u :> race[3 - i] : race \in Races, i \in {1, 2}}

MatchLine == [kind |-> "match", status |-> "scheduled", makeup |-> 0]
RainLine(w) == [kind |-> "rain_date", status |-> "scheduled", makeup |-> w]
CancelledLine == [kind |-> "match", status |-> "cancelled", makeup |-> 0]
MadeUpIn(w) == [kind |-> "match", status |-> "scheduled", makeup |-> w]

\* Cancel, or schedule again with a link to week 2.
CancelOrLink == {CancelledLine, MadeUpIn(2)}

\* A season of one week that starts on the back nine, and the season as it was.
ShorterAndBack == {[end |-> 1, nine |-> "back"], [end |-> 2, nine |-> "front"]}

\* A match week with a rain date for it or with another, or links that go round,
\* to be refused.
TwoWeeks == {<<MatchLine, RainLine(1)>>, <<MatchLine, MatchLine>>, <<MadeUpIn(2), MadeUpIn(1)>>}
==============================================================================
