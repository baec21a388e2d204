------------------------------- MODULE Results -------------------------------
(***************************************************************************)
(* What the results pages compute from the score book: match results,      *)
(* standings, skins and a golfer's own rounds, by domain/scoring.py,       *)
(* services/scores.py, services/player_rounds.py and the week's scores     *)
(* page of routers/player_scores.py.  Nothing of it is stored: every page  *)
(* computes again from saved cards, the weeks' handicap snapshots and the  *)
(* season's scoring type, which are the state here.  Saving, clearing and  *)
(* reseeding are modelled in full by Scores and Weeks; here they happen as *)
(* far as they change what is computed from.                               *)
(***************************************************************************)
EXTENDS Integers, SequencesExt

CONSTANTS
    Golfers, Teams,
    Matches,         \* player matches
    Sides,           \* the golfers a and b of each match
    Pairing,         \* the team match of each match, with its week, home and away team
    Holes,           \* holes.id of the nine that is played
    Number, Index,   \* number and stroke_index_9 of each hole
    Cards,           \* the cards that may be saved in each match, strokes by hole
    Snapshots,       \* strokes of week handicaps, to start with
    Reseeds,         \* strokes a reseed may give, by week and golfer
    NoHandicap,      \* no week handicap, and no result that needs one
    NoOne

Nine == Cardinality(Holes)     \* nine, less in small instances
Numbers == {Number[h] : h \in Holes}
HoleAt == [n \in Numbers |-> CHOOSE h \in Holes : Number[h] = n]

\* The elements of S by rising key, in one of the orders if keys are equal.
Sorted(S, key) ==
    CHOOSE s \in [1..Cardinality(S) -> S] :
        \A i, j \in 1..Cardinality(S) : i < j => s[i] # s[j] /\ key[s[i]] <= key[s[j]]
InOrder == Sorted(Numbers, [n \in Numbers |-> n])

Weeks == {Pairing[m].week : m \in Matches}
MatchesOf(w) == {m \in Matches : Pairing[m].week = w}
SidesOf(m) == {Sides[m].a, Sides[m].b}
Other(m, g) == IF g = Sides[m].a THEN Sides[m].b ELSE Sides[m].a
Field(w) == UNION {SidesOf(m) : m \in MatchesOf(w)}
ScoringTypes == {"match_play", "stroke_play"}
Blank == <<>>

ASSUME ResultsAssumption ==
    /\ Sides \in [Matches -> [a : Golfers, b : Golfers]]
    /\ \A m \in Matches : Sides[m].a # Sides[m].b
    /\ Pairing \in [Matches -> [id : Nat, week : Nat, home : Teams, away : Teams]]
    /\ IsFiniteSet(Matches) /\ IsFiniteSet(Golfers)
    /\ Holes \subseteq Nat \ {0} /\ IsFiniteSet(Holes) /\ Holes # {}
    /\ Number \in [Holes -> Nat \ {0}]
    /\ \A h, k \in Holes : h < k => Number[h] < Number[k]   \* stored in their order
    /\ {Index[h] : h \in Holes} = 1..Nine
    /\ \A m \in Matches : Cards[m] \subseteq [Holes -> 1..15]
    /\ Snapshots \subseteq [Weeks -> [Golfers -> Int \cup {NoHandicap}]]
    /\ \A w \in Weeks, g \in Golfers : Reseeds[w][g] \subseteq Int
    /\ NoHandicap \notin Int /\ NoOne \notin Golfers

VARIABLES
    book,       \* each golfer's saved card in each match, by hole, or Blank
    snapshot,   \* week_handicaps.strokes of each golfer in each week
    scoring     \* seasons.scoring_type

vars == <<book, snapshot, scoring>>

--------------------------------------------------------------------------------
(* One match. *)

HasCard(m, g) == DOMAIN book[m][g] = Holes
CardOf(m, g) == [n \in Numbers |-> book[m][g][HoleAt[n]]]
IndexAt(n) == Index[HoleAt[n]]
Total(f) == SumFunctionOnSet(f, Numbers)
HandicapOf(m, g) == snapshot[Pairing[m].week][g]

\* Slips: the last stroke is forgotten; a hole gets one stroke at most.
StrokesBelow(relative) ==
    [n \in Numbers |-> relative \div Nine + IF IndexAt(n) < relative % Nine THEN 1 ELSE 0]
StrokesCapped(relative) == [n \in Numbers |-> IF IndexAt(n) <= relative THEN 1 ELSE 0]

StrokesForRelative(relative) ==
    [n \in Numbers |-> relative \div Nine + IF IndexAt(n) <= relative % Nine THEN 1 ELSE 0]

\* What a side gets for a hole or a round won by the lower of two nets.
TwoForLower(net, others) == IF net < others THEN 2 ELSE IF net = others THEN 1 ELSE 0

\* A match is pending until both cards are complete and both snapshots are there.
Pending(m) ==
    \E g \in SidesOf(m) : ~HasCard(m, g) \/ HandicapOf(m, g) = NoHandicap

\* A slip: over the lowest of the week, as for skins.
LowerOfField(m) ==
    Min({snapshot[Pairing[m].week][g] : g \in Field(Pairing[m].week)} \ {NoHandicap})

\* Strokes are given over the lower of the two handicaps.
Lower(m) == Min({HandicapOf(m, g) : g \in SidesOf(m)})

\* The result of one side of a match that is not pending.
Round(m, g) ==
    LET o == Other(m, g)
        Net(x) == LET card == CardOf(m, x)
                      given == StrokesForRelative(HandicapOf(m, x) - Lower(m))
                  IN  [n \in Numbers |-> card[n] - given[n]]
        mine == Net(g)
        theirs == Net(o)
        points == [n \in Numbers |-> TwoForLower(mine[n], theirs[n])]
        NetTotal(x) == Total(CardOf(m, x)) - HandicapOf(m, x)
        bonus == IF NetTotal(g) <= NetTotal(o) THEN 2 ELSE 0
    IN  [net |-> mine, total |-> NetTotal(g),
         points |-> IF scoring = "match_play" THEN Total(points) + bonus
                    ELSE Max({0, NetTotal(o) - NetTotal(g)})]

\* The cells of the week's scores page for a match under stroke play: how far side a
\* leads after each hole.
Lead(m) ==
    LET lead[i \in 0..Nine] ==
            IF i = 0 THEN 0
            ELSE lead[i - 1] + Round(m, Sides[m].b).net[InOrder[i]]
                             - Round(m, Sides[m].a).net[InOrder[i]]
    IN  lead

--------------------------------------------------------------------------------
(* Standings. *)

Decided(w) == {m \in MatchesOf(w) : ~Pending(m)}
TeamOf(m, g) == IF g = Sides[m].a THEN Pairing[m].home ELSE Pairing[m].away
Credits(M) == {c \in M \X Golfers : c[2] \in SidesOf(c[1])}

\* Points and appearances of golfers, points and team matches of teams, in a week.
WeekPlayers(w) ==
    [g \in UNION {SidesOf(m) : m \in Decided(w)} |->
        LET mine == {c \in Credits(Decided(w)) : c[2] = g}
        IN  [points |-> SumFunction([c \in mine |-> Round(c[1], g).points]),
             matches |-> Cardinality(mine)]]

\* A slip: a match a team plays against itself counts one side.
WeekTeamsOnce(w) ==
    [t \in {TeamOf(c[1], c[2]) : c \in Credits(Decided(w))} |->
        LET ours == {c \in Credits(Decided(w)) : TeamOf(c[1], c[2]) = t}
        IN  [points |-> SumFunction([m \in {c[1] : c \in ours} |->
                            Round(m, IF TeamOf(m, Sides[m].a) = t THEN Sides[m].a
                                     ELSE Sides[m].b).points]),
             matches |-> Cardinality({Pairing[c[1]].id : c \in ours})]]

WeekTeams(w) ==
    [t \in {TeamOf(c[1], c[2]) : c \in Credits(Decided(w))} |->
        LET ours == {c \in Credits(Decided(w)) : TeamOf(c[1], c[2]) = t}
        IN  [points |-> SumFunction([c \in ours |-> Round(c[1], c[2]).points]),
             matches |-> Cardinality({Pairing[c[1]].id : c \in ours})]]

\* Totals of complete cards, whether or not the match is decided.
Carded(w) == {c \in Credits(MatchesOf(w)) : HasCard(c[1], c[2])}
WeekTotals(w) ==
    [g \in {c[2] : c \in Carded(w)} |->
        LET mine == {c \in Carded(w) : c[2] = g}
        IN  [gross |-> SumFunction([c \in mine |-> Total(CardOf(c[1], g))]),
             net |-> IF snapshot[w][g] = NoHandicap THEN NoHandicap
                     ELSE SumFunction([c \in mine |-> Total(CardOf(c[1], g)) - snapshot[w][g]]),
             rounds |-> Cardinality(mine)]]

\* The weeks' tables added up; a total without a net leaves the season without one.
Summed(table) ==
    [x \in UNION {DOMAIN table[w] : w \in Weeks} |->
        LET in == {w \in Weeks : x \in DOMAIN table[w]}
        IN  [points |-> SumFunction([w \in in |-> table[w][x].points]),
             matches |-> SumFunction([w \in in |-> table[w][x].matches])]]
SeasonPlayers == Summed([w \in Weeks |-> WeekPlayers(w)])
SeasonTeams == Summed([w \in Weeks |-> WeekTeams(w)])

\* A slip: a week without a net adds nothing.
SeasonTotalsOfKnown ==
    LET table == [w \in Weeks |-> WeekTotals(w)]
    IN  [g \in UNION {DOMAIN table[w] : w \in Weeks} |->
            LET in == {w \in Weeks : g \in DOMAIN table[w]}
                known == {w \in in : table[w][g].net # NoHandicap}
            IN  [gross |-> SumFunction([w \in in |-> table[w][g].gross]),
                 net |-> IF known = {} THEN NoHandicap
                         ELSE SumFunction([w \in known |-> table[w][g].net]),
                 rounds |-> SumFunction([w \in in |-> table[w][g].rounds])]]

SeasonTotals ==
    LET table == [w \in Weeks |-> WeekTotals(w)]
    IN  [g \in UNION {DOMAIN table[w] : w \in Weeks} |->
            LET in == {w \in Weeks : g \in DOMAIN table[w]}
            IN  [gross |-> SumFunction([w \in in |-> table[w][g].gross]),
                 net |-> IF \E w \in in : table[w][g].net = NoHandicap THEN NoHandicap
                         ELSE SumFunction([w \in in |-> table[w][g].net]),
                 rounds |-> SumFunction([w \in in |-> table[w][g].rounds])]]

\* A slip: the rank after a tie follows on.
DenseRanks(table) ==
    [x \in DOMAIN table |->
        1 + Cardinality({table[y].points : y \in {z \in DOMAIN table : table[z].points > table[x].points}})]

\* A table sorted by points; who has as many as the one before shares the rank.
CompetitionRanks(table) ==
    LET order == Sorted(DOMAIN table, [x \in DOMAIN table |-> -table[x].points])
        ranks[i \in 0..Cardinality(DOMAIN table)] ==
            IF i = 0 THEN 0
            ELSE IF i > 1 /\ table[order[i]].points = table[order[i - 1]].points THEN ranks[i - 1]
            ELSE i
    IN  [x \in DOMAIN table |->
            ranks[CHOOSE i \in 1..Cardinality(DOMAIN table) : order[i] = x]]

\* The golfer's own page: a round for each complete card of theirs.
PlayerRounds(g) ==
    [m \in {k \in Matches : g \in SidesOf(k) /\ HasCard(k, g)} |->
        [gross |-> Total(CardOf(m, g)),
         net |-> IF HandicapOf(m, g) = NoHandicap THEN NoHandicap
                 ELSE Total(CardOf(m, g)) - HandicapOf(m, g),
         points |-> IF Pending(m) THEN NoHandicap ELSE Round(m, g).points]]

--------------------------------------------------------------------------------
(* Skins. *)

\* The saved holes of a golfer in a week, over all matches.
Rows(w, g) == {r \in MatchesOf(w) \X Holes : r[2] \in DOMAIN book[r[1]][g]}

\* A saved hole is looked up by its id in a table that gives the id of a number, and is
\* kept under what is found there.
HoleIdByNumber(n) == {h \in Holes : Number[h] = n}
KeptUnder(row) == HoleIdByNumber(row[2])

\* A golfer has exactly one complete card in the week.
CardFound(w, g) ==
    /\ \A r \in Rows(w, g) : KeptUnder(r) # {}
    /\ \A r, s \in Rows(w, g) : r # s => KeptUnder(r) # KeptUnder(s)
    /\ Cardinality(Rows(w, g)) = Nine
CardFoundOf(w, g) ==
    [n \in Numbers |-> LET r == CHOOSE x \in Rows(w, g) : KeptUnder(x) = {n} IN book[r[1]][g][r[2]]]

SkinsPending(w) == Field(w) = {} \/ \E g \in Field(w) : ~CardFound(w, g)
NetSkinsPending(w) == SkinsPending(w) \/ \E g \in Field(w) : snapshot[w][g] = NoHandicap

\* A slip: what was carried is won again and again.
SkinHolesCarried(score) ==
    LET leaders(n) == {g \in DOMAIN score : \A o \in DOMAIN score : score[g][n] <= score[o][n]}
        won(n) == Cardinality(leaders(n)) = 1
        holes[i \in 0..Nine] ==
            IF i = 0 THEN [winner |-> NoOne, units |-> 0, carry |-> 0]
            ELSE LET n == InOrder[i]
                     carry == holes[i - 1].carry
                 IN  IF won(n)
                     THEN [winner |-> CHOOSE g \in leaders(n) : TRUE, units |-> 1 + carry, carry |-> carry]
                     ELSE [winner |-> NoOne, units |-> 0, carry |-> carry + 1]
    IN  holes

\* Hole after hole: the one golfer with the lowest score takes the hole and what was
\* carried; a tie carries one more.
SkinHoles(score) ==
    LET leaders(n) == {g \in DOMAIN score : \A o \in DOMAIN score : score[g][n] <= score[o][n]}
        won(n) == Cardinality(leaders(n)) = 1
        holes[i \in 0..Nine] ==
            IF i = 0 THEN [winner |-> NoOne, units |-> 0, carry |-> 0]
            ELSE LET n == InOrder[i]
                     carry == holes[i - 1].carry
                 IN  IF won(n)
                     THEN [winner |-> CHOOSE g \in leaders(n) : TRUE, units |-> 1 + carry, carry |-> 0]
                     ELSE [winner |-> NoOne, units |-> 0, carry |-> carry + 1]
    IN  holes

GrossSkins(w) == SkinHoles([g \in Field(w) |-> CardFoundOf(w, g)])

\* Strokes are given over the lowest handicap of the field.
NetSkins(w) ==
    LET lowest == Min({snapshot[w][g] : g \in Field(w)})
    IN  SkinHoles([g \in Field(w) |->
            LET given == StrokesForRelative(snapshot[w][g] - lowest)
            IN  [n \in Numbers |-> CardFoundOf(w, g)[n] - given[n]]])

UnitsOf(skins, g) ==
    SumFunction([i \in {k \in 1..Nine : skins[k].winner = g} |-> skins[i].units])

--------------------------------------------------------------------------------
(* What changes the score book and the snapshots. *)

\* A slip: a card of whoever played is kept.
SaveAnyCard(m, g, card) ==
    /\ card # book[m][g]
    /\ book' = [book EXCEPT ![m][g] = card]
    /\ UNCHANGED <<snapshot, scoring>>

SaveCard(m, g, card) ==
    /\ g \in SidesOf(m) /\ card # book[m][g]
    /\ book' = [book EXCEPT ![m][g] = card]
    /\ UNCHANGED <<snapshot, scoring>>

ClearScores(m) ==
    /\ \E g \in SidesOf(m) : book[m][g] # Blank
    /\ book' = [book EXCEPT ![m] = [g \in Golfers |-> Blank]]
    /\ UNCHANGED <<snapshot, scoring>>

\* The golfer's strokes of one week are seeded anew.
Reseed(w, g, strokes) ==
    /\ snapshot[w][g] # strokes
    /\ snapshot' = [snapshot EXCEPT ![w][g] = strokes]
    /\ UNCHANGED <<book, scoring>>

\* The season's form may change its scoring type at any time.
ChangeScoring(type) ==
    /\ scoring' = type
    /\ UNCHANGED <<book, snapshot>>

Init ==
    /\ book = [m \in Matches |-> [g \in Golfers |-> Blank]]
    /\ snapshot \in Snapshots
    /\ scoring \in ScoringTypes

Next ==
    \/ \E m \in Matches, g \in Golfers : \E card \in Cards[m] : SaveCard(m, g, card)
    \/ \E m \in Matches : ClearScores(m)
    \/ \E w \in Weeks, g \in Golfers : \E strokes \in Reseeds[w][g] : Reseed(w, g, strokes)
    \/ \E type \in ScoringTypes : ChangeScoring(type)

Spec == Init /\ [][Next]_vars

--------------------------------------------------------------------------------
(* Properties. *)

\* Cards are whole nines of the two sides of a match; a week's handicap is a number or
\* is missing.
TypeOK ==
    /\ \A m \in Matches : book[m] \in [Golfers -> Cards[m] \cup {Blank}]
    /\ \A m \in Matches : \A g \in Golfers \ SidesOf(m) : book[m][g] = Blank
    /\ \A w \in Weeks, g \in Golfers : snapshot[w][g] = NoHandicap \/ snapshot[w][g] \in Int
    /\ scoring \in ScoringTypes

\* The rule of the strokes: the k-th goes to stroke index k, and after the last index
\* to the first again.
GivenByRule(relative, n) ==
    Cardinality({k \in 1..relative : ((k - 1) % Nine) + 1 = IndexAt(n)})
RuleNet(m, g, n) ==
    CardOf(m, g)[n] - GivenByRule(HandicapOf(m, g) - HandicapOf(m, Other(m, g)), n)

\* Nets by the strokes, two points for the lower and one each for a tie, two more for
\* the lower total; or the points of a stroke play.
RoundByRule(m) ==
    \A g \in SidesOf(m) :
        LET won == {n \in Numbers : RuleNet(m, g, n) < RuleNet(m, Other(m, g), n)}
            tied == {n \in Numbers : RuleNet(m, g, n) = RuleNet(m, Other(m, g), n)}
            mine == Round(m, g)
            lead == Round(m, Other(m, g)).total - mine.total
        IN  /\ \A n \in Numbers : mine.net[n] = RuleNet(m, g, n)
            /\ mine.points =
                   IF scoring = "stroke_play" THEN IF lead > 0 THEN lead ELSE 0
                   ELSE 2 * Cardinality(won) + Cardinality(tied) + IF lead >= 0 THEN 2 ELSE 0

LeadEndsAtPoints(m) ==
    scoring = "stroke_play" =>
        Lead(m)[Nine] = Round(m, Sides[m].a).points - Round(m, Sides[m].b).points

\* Every result follows the rules as they are written, for signed handicaps and for
\* more strokes than holes (score_result_match); and the running lead a week's page
\* shows hole by hole, computed from relative strokes, ends at the points, computed
\* from signed totals.
RoundsByRule == \A m \in Matches : ~Pending(m) => RoundByRule(m) /\ LeadEndsAtPoints(m)

PointsIn(table) == SumFunction([x \in DOMAIN table |-> table[x].points])

\* The season's points of a golfer are those of the rounds on the golfer's own page,
\* and golfers and teams share the same points, also of a team that plays itself.
PointsAgree ==
    LET players == SeasonPlayers
    IN  /\ \A g \in DOMAIN players :
              LET rounds == PlayerRounds(g)
              IN  players[g].points =
                      SumFunction([m \in {k \in DOMAIN rounds : rounds[k].points # NoHandicap} |->
                                       rounds[m].points])
        /\ PointsIn(players) = PointsIn(SeasonTeams)

\* The season's totals are those of the golfer's own page, and there is no net total
\* while any of its rounds has no snapshot: a missing one is never a zero.
TotalsAgree ==
    LET season == SeasonTotals
    IN  \A g \in DOMAIN season :
            LET rounds == PlayerRounds(g)
            IN  /\ season[g].gross = SumFunction([m \in DOMAIN rounds |-> rounds[m].gross])
                /\ season[g].net =
                       IF \E m \in DOMAIN rounds : rounds[m].net = NoHandicap THEN NoHandicap
                       ELSE SumFunction([m \in DOMAIN rounds |-> rounds[m].net])

\* A rank is one more than the number of those with more points (_competition_ranks).
RanksByPoints ==
    \A table \in {SeasonPlayers, SeasonTeams} :
        CompetitionRanks(table) =
            [x \in DOMAIN table |->
                1 + Cardinality({y \in DOMAIN table : table[y].points > table[x].points})]

\* Pages computed apart from each other, from the same cards, tell the same season.
StandingsAgree == PointsAgree /\ TotalsAgree /\ RanksByPoints

\* A hole is won by who alone is lowest, with every hole tied since the last one won;
\* what nobody won after it is carried.  So every hole's unit is awarded once at most.
ByRule(skins, score) ==
    LET players == DOMAIN score
        Alone(g, n) == \A o \in players \ {g} : score[g][n] < score[o][n]
        Won(i) == \E g \in players : Alone(g, InOrder[i])
        Before(i) == Max({0} \cup {j \in 1..(i - 1) : Won(j)})
    IN  /\ \A i \in 1..Nine :
              IF Won(i) THEN Alone(skins[i].winner, InOrder[i]) /\ skins[i].units = i - Before(i)
              ELSE skins[i].winner = NoOne /\ skins[i].units = 0
        /\ skins[Nine].carry = Nine - Before(Nine + 1)
        /\ SumFunction([g \in players |-> UnitsOf(skins, g)]) + skins[Nine].carry = Nine

\* Gross and net skins of a week follow that rule, over the cards as they were saved
\* and the strokes over the lowest handicap of the field.
SkinsByRule ==
    \A w \in Weeks :
        LET Played(g) == CHOOSE m \in MatchesOf(w) : g \in SidesOf(m) /\ HasCard(m, g)
            gross == [g \in Field(w) |-> CardOf(Played(g), g)]
            lowest == Min({snapshot[w][o] : o \in Field(w)})
            net == [g \in Field(w) |-> [n \in Numbers |->
                        gross[g][n] - GivenByRule(snapshot[w][g] - lowest, n)]]
        IN  /\ ~SkinsPending(w) => ByRule(GrossSkins(w), gross)
            /\ ~NetSkinsPending(w) => ByRule(NetSkins(w), net)

\* Skins are decided once every golfer of the week has a complete card.
SkinsDecided ==
    \A w \in Weeks : (\A m \in MatchesOf(w) : \A g \in SidesOf(m) : HasCard(m, g)) => ~SkinsPending(w)

=============================================================================
