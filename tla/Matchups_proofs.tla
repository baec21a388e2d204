--------------------------- MODULE Matchups_proofs ---------------------------
(***************************************************************************)
(* What the matchups keep for any season, teams, golfers and bounds: the   *)
(* schedule they leave is one that Weeks allows, and the teams stay within *)
(* the season's roster.                                                    *)
(***************************************************************************)
EXTENDS Matchups, Weeks_proofs

\* A step that leaves one pairing arranged is a step of the schedule's matchups.
LEMMA ArrangedIsMatchup ==
    ASSUME NEW p \in Pairings, ArrangedAsLeft(p)
    PROVE  MatchupNext
<1> DEFINE sides == [l \in Labels |-> plays'[<<p, l>>]]
<1>1. place'[p] \in Weeks /\ sides \in [Labels -> PlayedBy] /\ Arrange(p, place'[p], sides)
  BY DEF ArrangedAsLeft
<1> HIDE DEF sides
<1>2. \E w \in Weeks, to \in [Labels -> PlayedBy] : Arrange(p, w, to)
  BY <1>1
<1> QED  BY <1>2 DEF MatchupNext

LEMMA AllowedIsNext == [AllowedStep]_vars => [Next]_vars
BY ArrangedIsMatchup DEF Next, AllowedStep

\* The schedule that the matchups are checked against (IsSchedule, a property of
\* the matchups' runs) is a behaviour of the schedule itself, so every theorem of
\* Weeks holds of it: schedule.py's checks rest on nothing else the matchups do.
THEOREM ScheduleAllows == IsSchedule => Spec
<1>1. [AllowedStep]_vars => [Next]_vars
  BY AllowedIsNext
<1> QED  BY <1>1, PTL DEF IsSchedule, Spec

-----------------------------------------------------------------------------
(* Teams and the season's roster.                                           *)

RosterInv == RosterTypeOK /\ OneSlotIncluded

\* NoOne is no golfer, and the members of a team are golfers.
LEMMA MembersAreGolfers ==
    ASSUME RosterTypeOK, NEW team \in Teams
    PROVE  MembersOf(team) \subseteq Golfers /\ NoOne \notin MembersOf(team)
BY DEF RosterTypeOK, MembersOf

\* Giving positions out by handicap places members only, each in one position.
LEMMA BySeedPlacesMembers ==
    ASSUME RosterTypeOK, NEW team \in Teams, NEW i \in Positions
    PROVE  /\ BySeed(team)[i] \in MembersOf(team) \cup {NoOne}
           /\ \A j \in Positions : BySeed(team)[i] = BySeed(team)[j] /\ BySeed(team)[i] # NoOne => i = j
<1> DEFINE earlier(g) == {h \in MembersOf(team) : Before(h, g)}
           At(k) == {g \in MembersOf(team) : Cardinality(earlier(g)) = k - 1}
<1>1. ASSUME NEW k \in Positions
      PROVE  BySeed(team)[k] # NoOne => BySeed(team)[k] \in At(k)
  <2>1. BySeed(team)[k] = IF \E g \in MembersOf(team) : Cardinality(earlier(g)) = k - 1
                          THEN CHOOSE g \in MembersOf(team) : Cardinality(earlier(g)) = k - 1
                          ELSE NoOne
    BY DEF BySeed
  <2> QED  BY <2>1
<1>2. BySeed(team)[i] \in MembersOf(team) \cup {NoOne}
  BY <1>1
<1>3. ASSUME NEW j \in Positions, BySeed(team)[i] = BySeed(team)[j], BySeed(team)[i] # NoOne
      PROVE  i = j
  <2>1. BySeed(team)[i] \in At(i) /\ BySeed(team)[i] \in At(j)
    BY <1>1, <1>3
  <2>2. i - 1 = j - 1
    BY <2>1
  <2>3. i \in Nat /\ j \in Nat
    BY SeasonRosterAssumption DEF SeasonRosterAssumption
  <2> QED  BY <2>2, <2>3
<1> QED  BY <1>2, <1>3

\* The members of every team after one team is given `arrangement`.
LEMMA Rearranged ==
    ASSUME RosterInv, NEW team \in Teams, NEW arrangement \in [Positions -> Golfers \cup {NoOne}],
           members' = [members EXCEPT ![team] = arrangement],
           UNCHANGED <<active, included, overrides, underway, answers>>,
           \A i, j \in Positions : arrangement[i] = arrangement[j] /\ arrangement[i] # NoOne => i = j,
           \A i \in Positions : arrangement[i] # NoOne =>
              /\ arrangement[i] \in included
              /\ \A other \in Teams \ {team} : arrangement[i] \notin MembersOf(other)
    PROVE  RosterInv'
<1>1. RosterTypeOK /\ OneSlotIncluded
  BY DEF RosterInv
<1>2. RosterTypeOK'
  BY <1>1 DEF RosterTypeOK
<1>3. ASSUME NEW other \in Teams, NEW i \in Positions
      PROVE  members'[other][i] = IF other = team THEN arrangement[i] ELSE members[other][i]
  BY <1>1 DEF RosterTypeOK
<1>4. (TeamGolfers \subseteq included)'
  <2> SUFFICES ASSUME NEW other \in Teams, NEW i \in Positions, members'[other][i] # NoOne
               PROVE  members'[other][i] \in included
    BY DEF TeamGolfers, MembersOf
  <2>1. CASE other = team
    BY <2>1, <1>3
  <2>2. CASE other # team
    BY <2>2, <1>3, <1>1 DEF OneSlotIncluded, TeamGolfers, MembersOf
  <2> QED  BY <2>1, <2>2
<1>5. ASSUME NEW t \in Teams, NEW u \in Teams, NEW i \in Positions, NEW j \in Positions,
             members'[t][i] = members'[u][j], members'[t][i] # NoOne
      PROVE  t = u /\ i = j
  <2>1. CASE t = team /\ u = team
    BY <2>1, <1>3, <1>5
  <2>2. CASE t = team /\ u # team
    <3>1. arrangement[i] = members[u][j] /\ arrangement[i] # NoOne
      BY <2>2, <1>3, <1>5
    <3>2. arrangement[i] \in MembersOf(u)
      BY <3>1 DEF MembersOf
    <3> QED  BY <3>1, <3>2, <2>2
  <2>3. CASE t # team /\ u = team
    <3>1. arrangement[j] = members[t][i] /\ arrangement[j] # NoOne
      BY <2>3, <1>3, <1>5
    <3>2. arrangement[j] \in MembersOf(t)
      BY <3>1 DEF MembersOf
    <3> QED  BY <3>1, <3>2, <2>3
  <2>4. CASE t # team /\ u # team
    <3>1. members[t][i] = members[u][j] /\ members[t][i] # NoOne
      BY <2>4, <1>3, <1>5
    <3>2. <<t, i>> = <<u, j>>
      <4>1. <<t, i>> \in Teams \X Positions /\ <<u, j>> \in Teams \X Positions
        OBVIOUS
      <4> QED  BY <4>1, <3>1, <1>1 DEF OneSlotIncluded
    <3> QED  BY <3>2
  <2> QED  BY <2>1, <2>2, <2>3, <2>4
<1>6. OneSlotIncluded'
  BY <1>4, <1>5 DEF OneSlotIncluded
<1> QED  BY <1>2, <1>6 DEF RosterInv

LEMMA SaveTeamKeeps ==
    ASSUME RosterInv, NEW team \in Teams, NEW arrangement \in [Positions -> Golfers \cup {NoOne}],
           SaveTeam(team, arrangement)
    PROVE  RosterInv'
<1>1. \A i \in Positions : arrangement[i] # NoOne => MayJoin(team, arrangement[i])
  BY DEF SaveTeam
<1>2. \A i \in Positions : arrangement[i] # NoOne =>
         /\ arrangement[i] \in included
         /\ \A other \in Teams \ {team} : arrangement[i] \notin MembersOf(other)
  BY <1>1 DEF MayJoin
<1> QED  BY <1>2, Rearranged DEF SaveTeam

LEMMA AssignPositionsKeeps ==
    ASSUME RosterInv, NEW team \in Teams, AssignPositions(team)
    PROVE  RosterInv'
<1>1. RosterTypeOK /\ OneSlotIncluded
  BY DEF RosterInv
<1>2. \A i \in Positions : BySeed(team)[i] \in MembersOf(team) \cup {NoOne}
  BY <1>1, BySeedPlacesMembers
<1>3. BySeed(team) \in [Positions -> Golfers \cup {NoOne}]
  <2>1. BySeed(team) = [i \in Positions |-> BySeed(team)[i]]
    BY DEF BySeed
  <2> QED  BY <2>1, <1>2, <1>1, MembersAreGolfers
<1>4. \A i \in Positions : BySeed(team)[i] # NoOne => BySeed(team)[i] \in included
  BY <1>2, <1>1 DEF OneSlotIncluded, TeamGolfers
<1>5. ASSUME NEW i \in Positions, BySeed(team)[i] # NoOne, NEW other \in Teams \ {team}
      PROVE  BySeed(team)[i] \notin MembersOf(other)
  <2>1. SUFFICES ASSUME BySeed(team)[i] \in MembersOf(other) PROVE FALSE
    OBVIOUS
  <2>2. PICK k \in Positions : members[team][k] = BySeed(team)[i]
    BY <1>2, <1>5 DEF MembersOf
  <2>3. PICK l \in Positions : members[other][l] = BySeed(team)[i]
    BY <2>1 DEF MembersOf
  <2>4. <<team, k>> \in Teams \X Positions /\ <<other, l>> \in Teams \X Positions
    OBVIOUS
  <2>5. <<team, k>> = <<other, l>>
    BY <2>2, <2>3, <2>4, <1>1, <1>5 DEF OneSlotIncluded
  <2> QED  BY <2>5
<1>6. \A i, j \in Positions :
         BySeed(team)[i] = BySeed(team)[j] /\ BySeed(team)[i] # NoOne => i = j
  BY <1>1, BySeedPlacesMembers
<1> QED  BY <1>3, <1>4, <1>5, <1>6, Rearranged DEF AssignPositions

\* Every other form leaves the teams as they are and the roster around them.
LEMMA TeamsUntouched ==
    ASSUME RosterInv, members' = members, RosterTypeOK', included \cap TeamGolfers \subseteq included'
    PROVE  RosterInv'
<1>1. TeamGolfers' = TeamGolfers
  BY DEF TeamGolfers, MembersOf
<1> QED  BY <1>1 DEF RosterInv, OneSlotIncluded

LEMMA RosterStepKeeps ==
    ASSUME RosterInv, scope \in Scopes, RosterNext
    PROVE  RosterInv'
<1>1. /\ scope.teams \subseteq Teams
      /\ scope.arrangements \subseteq [Positions -> Golfers \cup {NoOne}]
      /\ scope.selections \subseteq SUBSET Golfers
      /\ scope.golfers \subseteq Golfers /\ scope.overrides \subseteq Override
  BY MatchupsAssumption DEF MatchupsAssumption
<1>2. RosterTypeOK
  BY DEF RosterInv
<1>3. ASSUME NEW team \in scope.teams, NEW arrangement \in scope.arrangements,
             SaveTeam(team, arrangement)
      PROVE  RosterInv'
  BY <1>1, <1>3, SaveTeamKeeps
<1>4. ASSUME NEW team \in scope.teams, AssignPositions(team)
      PROVE  RosterInv'
  BY <1>1, <1>4, AssignPositionsKeeps
<1>5. ASSUME NEW g \in scope.golfers, NEW o \in scope.overrides, AddOverride(g, o) \/ UpdateOverride(g, o)
      PROVE  RosterInv'
  <2>1. /\ overrides' = [overrides EXCEPT ![g] = o]
        /\ UNCHANGED <<active, included, members, underway, answers>>
    BY <1>5 DEF AddOverride, UpdateOverride
  <2>2. RosterTypeOK'
    BY <2>1, <1>1, <1>2 DEF RosterTypeOK
  <2> QED  BY <2>1, <2>2, TeamsUntouched
<1>6. ASSUME NEW selected \in scope.selections, SaveSeasonGolfers(selected)
      PROVE  RosterInv'
  <2>1. TeamGolfers \subseteq Golfers
    BY <1>2, MembersAreGolfers DEF TeamGolfers
  <2>2. RosterTypeOK'
    BY <1>6, <1>1, <1>2, <2>1 DEF SaveSeasonGolfers, RosterTypeOK
  <2>3. members' = members /\ TeamGolfers \subseteq included'
    BY <1>6 DEF SaveSeasonGolfers
  <2> QED  BY <2>2, <2>3, TeamsUntouched
<1>7. ASSUME NEW g \in scope.golfers, ChangeActive(g)
      PROVE  RosterInv'
  <2>1. RosterTypeOK'
    BY <1>7, <1>1, <1>2 DEF ChangeActive, RosterTypeOK
  <2> QED  BY <1>7, <2>1, TeamsUntouched DEF ChangeActive
<1>8. ASSUME ChangeStatus
      PROVE  RosterInv'
  <2>1. RosterTypeOK'
    BY <1>8, <1>2 DEF ChangeStatus, RosterTypeOK
  <2> QED  BY <1>8, <2>1, TeamsUntouched DEF ChangeStatus
<1>9. ASSUME NEW w \in Weeks, NEW g \in scope.golfers, Answer(w, g)
      PROVE  RosterInv'
  <2>1. RosterTypeOK'
    BY <1>9, <1>1, <1>2 DEF Answer, RosterTypeOK
  <2> QED  BY <1>9, <2>1, TeamsUntouched DEF Answer
<1> QED  BY <1>3, <1>4, <1>5, <1>6, <1>7, <1>8, <1>9 DEF RosterNext, TeamNext, ParticipantsNext

LEMMA RosterInvInit == RosterInit => RosterInv
<1> SUFFICES ASSUME RosterInit PROVE RosterInv
  OBVIOUS
<1>1. RosterTypeOK
  BY SeasonRosterAssumption
     DEF RosterInit, RosterTypeOK, SeasonRosterAssumption, Override, NoOverride
<1>2. TeamGolfers \subseteq included
  BY <1>1, MembersAreGolfers DEF RosterInit, TeamGolfers
<1>3. OneSlotIncluded
  BY <1>2, SeasonRosterAssumption
     DEF RosterInit, OneSlotIncluded, SeasonRosterAssumption
<1> QED  BY <1>1, <1>3 DEF RosterInv

\* "Team membership always implies season inclusion" (season_roster.py:54), and no
\* golfer has two slots in the season's teams: whatever forms are posted, in which
\* order, while matches are made, moved, answered and scored around them.
THEOREM TeamsWithinRoster == MatchupsSpec => []OneSlotIncluded
<1> DEFINE Kept == RosterInv /\ scope \in Scopes
<1>1. MatchupsInit => Kept
  <2> SUFFICES ASSUME MatchupsInit PROVE Kept
    OBVIOUS
  <2>1. RosterTypeOK
    BY SeasonRosterAssumption
       DEF MatchupsInit, RosterInit, RosterTypeOK, SeasonRosterAssumption, Override, NoOverride
  <2>2. TeamGolfers \subseteq included
    BY <2>1, MembersAreGolfers DEF MatchupsInit, RosterInit, TeamGolfers
  <2>3. OneSlotIncluded
    BY <2>2, SeasonRosterAssumption
       DEF MatchupsInit, RosterInit, OneSlotIncluded, SeasonRosterAssumption
  <2> QED  BY <2>1, <2>3 DEF RosterInv, MatchupsInit
<1>2. Kept /\ [MatchupsNext]_allVars => Kept'
  <2> SUFFICES ASSUME Kept, [MatchupsNext]_allVars PROVE Kept'
    OBVIOUS
  <2>1. ASSUME UNCHANGED <<roster, scope>> PROVE Kept'
    BY <2>1 DEF roster, RosterInv, RosterTypeOK, OneSlotIncluded, TeamGolfers, MembersOf
  <2>2. CASE ScheduleNext
    <3>1. UNCHANGED <<roster, scope>>
      BY <2>2 DEF ScheduleNext, detail
    <3> QED  BY <3>1, <2>1
  <2>3. CASE MoveToRainDate
    <3>1. UNCHANGED <<roster, scope>>
      BY <2>3 DEF MoveToRainDate
    <3> QED  BY <3>1, <2>1
  <2>4. CASE PairingNext
    <3>1. UNCHANGED <<roster, scope>>
      <4>1. ASSUME NEW p, NEW w, NEW home, NEW away, GeneratePairing(p, w, home, away)
            PROVE  UNCHANGED <<roster, scope>>
        BY <4>1 DEF GeneratePairing
      <4>2. ASSUME NEW m, NEW side, NEW g, Substitute(m, side, g)
            PROVE  UNCHANGED <<roster, scope>>
        BY <4>2 DEF Substitute, Replace
      <4> QED  BY <2>4, <4>1, <4>2 DEF PairingNext, CreatePairing, Regenerate
    <3> QED  BY <3>1, <2>1
  <2>5. CASE RequestNext
    <3>1. UNCHANGED <<roster, scope>>
      <4>1. PICK m \in Matches :
               \/ \E g \in Golfers : MakeRequest(m, g) \/ Fulfill(m, g)
               \/ NoticeSent(m) \/ NoticeFailed(m) \/ NoticeLost(m)
               \/ Decline(m)
        BY <2>5 DEF RequestNext
      <4>2. ASSUME NEW g \in Golfers, Fulfill(m, g) PROVE UNCHANGED <<roster, scope>>
        BY <4>2 DEF Fulfill, Replace, KeepSubstitute
      <4>3. ASSUME NEW g \in Golfers, MakeRequest(m, g) PROVE UNCHANGED <<roster, scope>>
        BY <4>3 DEF MakeRequest
      <4>4. ASSUME NoticeSent(m) \/ NoticeFailed(m) \/ NoticeLost(m) PROVE UNCHANGED <<roster, scope>>
        BY <4>4 DEF NoticeSent, NoticeFailed, NoticeLost
      <4>5. ASSUME Decline(m) PROVE UNCHANGED <<roster, scope>>
        BY <4>5 DEF Decline
      <4> QED  BY <4>1, <4>2, <4>3, <4>4, <4>5
    <3> QED  BY <3>1, <2>1
  <2>6. CASE RosterNext
    <3>1. RosterInv'
      BY <2>6, RosterStepKeeps
    <3>2. scope' = scope
      BY <2>6 DEF RosterNext, detail
    <3> QED  BY <3>1, <3>2
  <2>7. CASE HandicapNext
    <3>1. UNCHANGED <<roster, scope>>
      BY <2>7 DEF HandicapNext, Reseed
    <3> QED  BY <3>1, <2>1
  <2>8. CASE UNCHANGED allVars
    <3>1. UNCHANGED <<roster, scope>>
      BY <2>8 DEF allVars, detail
    <3> QED  BY <3>1, <2>1
  <2> QED  BY <2>2, <2>3, <2>4, <2>5, <2>6, <2>7, <2>8 DEF MatchupsNext
<1>3. Kept => OneSlotIncluded
  BY DEF RosterInv
<1> QED  BY <1>1, <1>2, <1>3, PTL DEF MatchupsSpec

-----------------------------------------------------------------------------
(* What is kept about the matches themselves.                               *)

\* Matches only have the golfers of slots their pairing has.
ShapesHold ==
    \A m \in Matches :
        plays[m] # NoMatch => m[2] \in Shape(teams[m[1]].home, teams[m[1]].away)

TeamsTyped ==
    /\ teams \in [Pairings -> [home : Teams, away : Teams] \cup {NoTeams}]
    /\ \A p \in Pairings : teams[p] = NoTeams <=> place[p] = 0

AdjustedPlayed ==
    /\ manual \subseteq {m \in Matches : plays[m] # NoMatch}
    /\ subs \subseteq manual \X Sides

TeamsInv == TeamsTyped /\ ShapesHold /\ AdjustedPlayed /\ OncePerWeek

StrokesInv ==
    /\ strokes \in [Weeks -> [Golfers -> Seed \cup {NoSeed}]]
    /\ StrokesKnown

\* Nobody can answer a request whose notice is still being sent.
RequestsTyped ==
    /\ requests \in [Matches -> Request \cup {NoRequest}]
    /\ \A m \in Matches : requests[m].notice = "sending" => requests[m].status = "pending"

MatchupsInv ==
    /\ Inv
    /\ RosterInv /\ scope \in Scopes
    /\ TeamsInv
    /\ StrokesInv
    /\ RequestsTyped
    /\ AnsweredPrinted

\* A match in which somebody plays is in a week, and its slot is one of its pairing.
LEMMA PlayedPlaced ==
    ASSUME Inv, TeamsInv, NEW m \in Matches, plays[m] # NoMatch
    PROVE  /\ m[1] \in Pairings /\ m[2] \in Labels /\ m = <<m[1], m[2]>>
           /\ place[m[1]] \in Weeks
           /\ teams[m[1]] \in [home : Teams, away : Teams]
           /\ m[2] \in Shape(teams[m[1]].home, teams[m[1]].away)
           /\ plays[m] \in [Sides -> Golfers] /\ plays[m]["a"] # plays[m]["b"]
<1>1. m[1] \in Pairings /\ m[2] \in Labels /\ m = <<m[1], m[2]>>
  BY DEF Matches
<1>2. plays[m] \in [Sides -> Golfers] /\ plays[m]["a"] # plays[m]["b"]
  BY DEF Inv, Typed, TypeOK, PlayedBy
<1>3. plays[m]["a"] # NoOne /\ "a" \in Sides
  BY <1>2, WeeksAssumption DEF WeeksAssumption, Sides
<1>4. place[m[1]] # 0
  BY <1>3 DEF Inv, SnapshotsFollowMatches
<1>5. place[m[1]] \in Weeks
  BY <1>1, <1>4 DEF Inv, Typed, TypeOK
<1>6. teams[m[1]] \in [home : Teams, away : Teams]
  BY <1>1, <1>4 DEF TeamsInv, TeamsTyped
<1> QED  BY <1>1, <1>2, <1>5, <1>6 DEF TeamsInv, ShapesHold

\* A slot of a pairing is of two of the teams' positions, two different ones for a
\* team that plays itself; every pairing has a slot.
LEMMA ShapeSlots ==
    ASSUME NEW home \in Teams, NEW away \in Teams
    PROVE  /\ Shape(home, away) \subseteq Labels
           /\ Shape(home, away) # {}
           /\ \A l \in Shape(home, away) :
                 l[1] \in Positions /\ l[2] \in Positions /\ (home = away => l[1] # l[2])
<1>1. Shape(home, away) \subseteq Labels
  BY MatchupsAssumption DEF MatchupsAssumption
<1>2. CASE home = away
  <2>1. Shape(home, away) = {<<i, i + 1>> : i \in {j \in Positions : j % 2 = 1}}
    BY <1>2 DEF Shape
  <2>2. PICK i \in Positions : i % 2 = 1
    BY MatchupsAssumption DEF MatchupsAssumption
  <2>3. <<i, i + 1>> \in Shape(home, away)
    BY <2>1, <2>2
  <2>4. ASSUME NEW l \in Shape(home, away)
        PROVE  l[1] \in Positions /\ l[2] \in Positions /\ l[1] # l[2]
    <3>1. PICK j \in Positions : j % 2 = 1 /\ l = <<j, j + 1>>
      BY <2>1
    <3>2. j \in Nat /\ j + 1 \in Positions
      BY <3>1, MatchupsAssumption, SeasonRosterAssumption
      DEF MatchupsAssumption, SeasonRosterAssumption
    <3> QED  BY <3>1, <3>2
  <2> QED  BY <1>1, <2>3, <2>4
<1>3. CASE home # away
  <2>1. Shape(home, away) = {<<i, i>> : i \in Positions}
    BY <1>3 DEF Shape
  <2>2. PICK i \in Positions : TRUE
    BY MatchupsAssumption DEF MatchupsAssumption
  <2>3. <<i, i>> \in Shape(home, away)
    BY <2>1, <2>2
  <2>4. \A l \in Shape(home, away) : l[1] \in Positions /\ l[2] \in Positions
    BY <2>1
  <2> QED  BY <1>1, <1>3, <2>3, <2>4
<1> QED  BY <1>2, <1>3

\* What a pairing is generated with: two golfers in each slot of it, those of an
\* adjusted match as they are, and golfers of the season's roster otherwise.
LEMMA LineupPlays ==
    ASSUME MatchupsInv, NEW p \in Pairings, NEW home \in Teams, NEW away \in Teams, Ready,
           NEW l \in Labels
    PROVE  /\ Lineup(p, home, away)[l] \in PlayedBy
           /\ l \in Shape(home, away) => Lineup(p, home, away)[l] # NoMatch
           /\ l \notin Shape(home, away) => Lineup(p, home, away)[l] = NoMatch
           /\ l \in Shape(home, away) /\ <<p, l>> \in manual => Lineup(p, home, away)[l] = plays[<<p, l>>]
           /\ l \in Shape(home, away) /\ <<p, l>> \notin manual =>
                 \A side \in Sides : Lineup(p, home, away)[l][side] \in TeamGolfers
<1> DEFINE new == [side \in Sides |-> IF side = "a" THEN members[home][l[1]] ELSE members[away][l[2]]]
<1>1. Lineup(p, home, away)[l] = IF l \notin Shape(home, away) THEN NoMatch
                                 ELSE IF <<p, l>> \in manual THEN plays[<<p, l>>] ELSE new
  BY DEF Lineup
<1> HIDE DEF new
<1>2. CASE l \notin Shape(home, away)
  BY <1>1, <1>2 DEF PlayedBy
<1>3. CASE l \in Shape(home, away) /\ <<p, l>> \in manual
  <2>1. <<p, l>> \in Matches /\ plays[<<p, l>>] # NoMatch
    BY <1>3 DEF MatchupsInv, TeamsInv, AdjustedPlayed
  <2>2. plays[<<p, l>>] \in PlayedBy
    BY <2>1 DEF MatchupsInv, Inv, Typed, TypeOK
  <2> QED  BY <1>1, <1>3, <2>1, <2>2
<1>4. CASE l \in Shape(home, away) /\ <<p, l>> \notin manual
  <2>1. l[1] \in Positions /\ l[2] \in Positions /\ (home = away => l[1] # l[2])
    BY <1>4, ShapeSlots
  <2>2. RosterTypeOK /\ OneSlotIncluded
    BY DEF MatchupsInv, RosterInv
  <2>3. members[home][l[1]] \in Golfers /\ members[away][l[2]] \in Golfers
    BY <2>1, <2>2 DEF Ready, RosterTypeOK
  <2>4. members[home][l[1]] \in TeamGolfers /\ members[away][l[2]] \in TeamGolfers
    BY <2>1 DEF Ready, TeamGolfers, MembersOf
  <2>5. members[home][l[1]] # members[away][l[2]]
    <3>1. SUFFICES ASSUME members[home][l[1]] = members[away][l[2]] PROVE FALSE
      OBVIOUS
    <3>2. <<home, l[1]>> \in Teams \X Positions /\ <<away, l[2]>> \in Teams \X Positions
      BY <2>1
    <3>3. members[home][l[1]] # NoOne
      BY <2>1 DEF Ready
    <3>4. <<home, l[1]>> = <<away, l[2]>>
      BY <3>1, <3>2, <3>3, <2>2 DEF OneSlotIncluded
    <3> QED  BY <3>4, <2>1
  <2>6. new \in [Sides -> Golfers] /\ new["a"] = members[home][l[1]] /\ new["b"] = members[away][l[2]]
    BY <2>3 DEF new, Sides
  <2>7. new \in PlayedBy
    BY <2>5, <2>6 DEF PlayedBy
  <2>8. new # NoMatch
    BY <2>3, <2>6, WeeksAssumption DEF WeeksAssumption, NoMatch, Sides
  <2>9. \A side \in Sides : new[side] \in TeamGolfers
    BY <2>4, <2>6 DEF Sides
  <2> QED  BY <1>1, <1>4, <2>7, <2>8, <2>9
<1> QED  BY <1>2, <1>3, <1>4

\* Steps that leave matches, teams and snapshots where they are keep what is said of them.
LEMMA TeamsKept ==
    ASSUME TeamsInv, UNCHANGED <<place, plays, teams, manual, subs>>
    PROVE  TeamsInv'
BY DEF TeamsInv, TeamsTyped, ShapesHold, AdjustedPlayed, OncePerWeek

LEMMA StrokesKept ==
    ASSUME StrokesInv, strokes' = strokes,
           \A w \in Weeks, g \in Golfers : snaps'[w][g] = "none" <=> snaps[w][g] = "none"
    PROVE  StrokesInv'
BY DEF StrokesInv, StrokesKnown

LEMMA AnswersKept ==
    ASSUME AnsweredPrinted, answers' = answers, \A w \in Weeks : w \in Printed => weeks'[w] # NoWeek
    PROVE  AnsweredPrinted'
BY DEF AnsweredPrinted, Printed

LEMMA RosterKept ==
    ASSUME RosterInv, UNCHANGED roster
    PROVE  RosterInv'
BY DEF roster, RosterInv, RosterTypeOK, OneSlotIncluded, TeamGolfers, MembersOf

\* Seeds are of the season's tees and strokes, and a seeded golfer has strokes.
LEMMA EffectiveSeed ==
    ASSUME RosterTypeOK, NEW g \in Golfers
    PROVE  /\ Effective(g) \in Seed
           /\ Seeded(g) => Effective(g).strokes # NoOne
           /\ Effective(g).tee \in Tees
<1>1. overrides[g] \in Override /\ OwnSeed[g] \in [tee : Tees, strokes : Strokes]
  BY SeasonRosterAssumption DEF RosterTypeOK, SeasonRosterAssumption
<1>2. Effective(g).tee \in Tees
  BY <1>1 DEF Effective, Override
<1>3. Effective(g).strokes \in Strokes \cup {NoOne}
  BY <1>1 DEF Effective, Override
<1>4. Effective(g) \in Seed
  BY <1>1, <1>2, <1>3 DEF Effective, Seed
<1> QED  BY <1>2, <1>4 DEF Seeded

\* The forms, confirmations and scores of the schedule leave matches where they are
\* and who has a snapshot.
LEMMA ScheduleLeavesMatches ==
    ASSUME Inv, FormNext \/ ConfirmNext \/ SeasonNext \/ ScoreNext
    PROVE  /\ UNCHANGED <<place, plays>>
           /\ \A w \in Weeks, g \in Golfers : snaps'[w][g] = "none" <=> snaps[w][g] = "none"
<1>1. CASE FormNext
  BY <1>1, FormsOnlyShow DEF held, Inv, Typed
<1>2. CASE ConfirmNext
  <2>1. PICK t \in Tabs :
           \/ \E edit \in Edits : EditWeek(t, edit.kind, edit.status, edit.makeup)
           \/ ConfirmShift(t)
           \/ ConfirmNine(t)
    BY <1>2 DEF ConfirmNext
  <2>2. CASE \E edit \in Edits : EditWeek(t, edit.kind, edit.status, edit.makeup)
    BY <2>2 DEF EditWeek, held
  <2>3. CASE ConfirmShift(t)
    BY <2>3, ShiftStep DEF held
  <2>4. CASE ConfirmNine(t)
    <3>1. PICK changed, rotated :
             /\ \A v \in changed : rotated[v] \in Nines
             /\ snaps' = [v \in Weeks |-> [g \in Golfers |->
                   IF v \in changed /\ g \in Snapped(v) THEN rotated[v] ELSE snaps[v][g]]]
             /\ UNCHANGED <<place, plays>>
      BY <2>4, NineStep
    <3>2. "none" \notin Nines
      BY DEF Nines
    <3> QED  BY <3>1, <3>2 DEF Snapped
  <2> QED  BY <2>1, <2>2, <2>3, <2>4
<1>3. CASE SeasonNext
  BY <1>3 DEF SeasonNext, Generate, EditSeason, DeleteWeek, held
<1>4. CASE ScoreNext
  BY <1>4 DEF ScoreNext, SaveScores, ClearScores, Lock, Unlock
<1> QED  BY <1>1, <1>2, <1>3, <1>4

\* Ensuring snapshots gives them to those who join, on the week's nine, with strokes.
LEMMA EnsureGives ==
    ASSUME Inv, StrokesInv, RosterTypeOK, NEW w \in Weeks, Open(w),
           NEW joining \in SUBSET Golfers, Ensure(w, joining)
    PROVE  /\ snaps' = [snaps EXCEPT ![w] = [g \in Golfers |->
                          IF g \in joining THEN weeks[w].nine ELSE snaps[w][g]]]
           /\ \A g \in joining : snaps[w][g] \in {"none", weeks[w].nine}
           /\ weeks[w].nine \in Nines
           /\ \A v \in Weeks, g \in Golfers :
                 strokes'[v][g] = IF v = w /\ g \in joining \ Snapped(w) THEN Effective(g) ELSE strokes[v][g]
           /\ StrokesInv'
<1>1. w \in Printed /\ weeks[w].kind = "match"
  BY DEF Open
<1>2. weeks[w].nine \in Nines
  BY <1>1, PrintedRow DEF Row
<1>3. /\ \A g \in joining : Seeded(g)
      /\ \A g \in joining \cap Snapped(w) : snaps[w][g] = weeks[w].nine
      /\ snaps' = [snaps EXCEPT ![w] = [g \in Golfers |->
                      IF g \in joining \ Snapped(w) THEN weeks[w].nine ELSE snaps[w][g]]]
      /\ strokes' = [strokes EXCEPT ![w] = [g \in Golfers |->
                      IF g \in joining \ Snapped(w) THEN Effective(g) ELSE strokes[w][g]]]
  BY DEF Ensure
<1>4. snaps \in [Weeks -> [Golfers -> Nines \cup {"none"}]]
  BY DEF Inv, Typed, TypeOK
<1>5. strokes \in [Weeks -> [Golfers -> Seed \cup {NoSeed}]]
  BY DEF StrokesInv
<1>6. \A g \in joining : snaps[w][g] \in {"none", weeks[w].nine}
  BY <1>3 DEF Snapped
<1>7. \A g \in Golfers : (IF g \in joining \ Snapped(w) THEN weeks[w].nine ELSE snaps[w][g])
                           = IF g \in joining THEN weeks[w].nine ELSE snaps[w][g]
  BY <1>3 DEF Snapped
<1>8. snaps' = [snaps EXCEPT ![w] = [g \in Golfers |->
                   IF g \in joining THEN weeks[w].nine ELSE snaps[w][g]]]
  BY <1>3, <1>7, Zenon
<1>9. \A v \in Weeks, g \in Golfers :
         strokes'[v][g] = IF v = w /\ g \in joining \ Snapped(w) THEN Effective(g) ELSE strokes[v][g]
  BY <1>3, <1>5
<1>10. \A v \in Weeks, g \in Golfers :
          snaps'[v][g] = IF v = w /\ g \in joining THEN weeks[w].nine ELSE snaps[v][g]
  BY <1>8, <1>4
<1>11. strokes' \in [Weeks -> [Golfers -> Seed \cup {NoSeed}]]
  <2>1. \A g \in Golfers : Effective(g) \in Seed
    BY EffectiveSeed
  <2> QED  BY <1>3, <1>5, <2>1
<1>12. ASSUME NEW v \in Weeks, NEW g \in Golfers
       PROVE  IF snaps'[v][g] = "none" THEN strokes'[v][g] = NoSeed
                                       ELSE strokes'[v][g].strokes # NoOne
  <2>1. CASE v = w /\ g \in joining
    <3>1. snaps'[v][g] # "none"
      BY <2>1, <1>10, <1>2 DEF Nines
    <3>2. CASE g \in Snapped(w)
      BY <2>1, <3>1, <3>2, <1>9 DEF StrokesInv, StrokesKnown, Snapped
    <3>3. CASE g \notin Snapped(w)
      BY <2>1, <3>1, <3>3, <1>9, <1>3, EffectiveSeed
    <3> QED  BY <3>2, <3>3
  <2>2. CASE ~(v = w /\ g \in joining)
    <3>1. snaps'[v][g] = snaps[v][g] /\ strokes'[v][g] = strokes[v][g]
      BY <2>2, <1>9, <1>10
    <3> QED  BY <3>1 DEF StrokesInv, StrokesKnown
  <2> QED  BY <2>1, <2>2
<1>13. StrokesInv'
  BY <1>11, <1>12 DEF StrokesInv, StrokesKnown
<1> QED  BY <1>2, <1>6, <1>8, <1>9, <1>13

-----------------------------------------------------------------------------
(* Pairings, substitutions and moves.                                       *)

\* Generating a pairing, for the first time or again, is one arrangement of the
\* schedule: adjusted and scored matches are those it had.
LEMMA GenerateArranges ==
    ASSUME MatchupsInv, NEW p \in Pairings, NEW w \in Weeks, NEW home \in Teams, NEW away \in Teams,
           GeneratePairing(p, w, home, away),
           place' = [place EXCEPT ![p] = w],
           teams' = [teams EXCEPT ![p] = [home |-> home, away |-> away]],
           place[p] = 0 \/ (place[p] = w /\ teams[p] = [home |-> home, away |-> away])
    PROVE  /\ ArrangedAsLeft(p)
           /\ \A m \in manual : plays'[m] = plays[m] /\ place'[m[1]] = place[m[1]]
           /\ \A l \in Labels : plays'[<<p, l>>] = Lineup(p, home, away)[l]
           /\ \A m \in Matches : m[1] # p => plays'[m] = plays[m]
           /\ StrokesInv'
           /\ \A v \in Weeks : \A g \in Snapped(v) : strokes'[v][g] = strokes[v][g]
<1> DEFINE lineup == Lineup(p, home, away)
           joining == {lineup[l][side] : l \in {k \in Shape(home, away) : <<p, k>> \notin manual},
                                         side \in Sides}
           sides == [l \in Labels |-> plays'[<<p, l>>]]
           joined == {g \in Golfers : \E l \in Labels, side \in Sides : sides[l][side] = g}
<1>1. /\ Open(w) /\ Ready
      /\ \A l \in Shape(home, away) : <<p, l>> \in scored => lineup[l] = plays[<<p, l>>]
      /\ plays' = [m \in Matches |-> IF m[1] = p THEN lineup[m[2]] ELSE plays[m]]
      /\ joining \subseteq included
      /\ Ensure(w, joining)
      /\ UNCHANGED <<weeks, season, scored, locked, tabs>>
  BY SMTT(30) DEF GeneratePairing
<1>2. Inv /\ TeamsInv /\ StrokesInv /\ RosterTypeOK /\ OneSlotIncluded
  BY DEF MatchupsInv, RosterInv
<1>3. \A l \in Labels : /\ lineup[l] \in PlayedBy
                        /\ l \in Shape(home, away) => lineup[l] # NoMatch
                        /\ l \notin Shape(home, away) => lineup[l] = NoMatch
                        /\ l \in Shape(home, away) /\ <<p, l>> \in manual => lineup[l] = plays[<<p, l>>]
  BY <1>1, LineupPlays
<1> HIDE DEF lineup
<1>a. /\ \A g \in joining : \E l \in Shape(home, away), side \in Sides :
            <<p, l>> \notin manual /\ lineup[l][side] = g
      /\ \A l \in Shape(home, away), side \in Sides :
            <<p, l>> \notin manual => lineup[l][side] \in joining
  OBVIOUS
<1> HIDE DEF joining
<1>4. joining \subseteq Golfers
  BY <1>1, <1>2 DEF RosterTypeOK
<1>b. /\ \A g \in joined : g \in Golfers /\ \E l \in Labels, side \in Sides : sides[l][side] = g
      /\ \A l \in Labels, side \in Sides : sides[l][side] \in Golfers => sides[l][side] \in joined
  OBVIOUS
<1> HIDE DEF joined
<1>5. \A l \in Labels : plays'[<<p, l>>] = lineup[l]
  BY <1>1 DEF Matches
<1>6. \A m \in Matches : m[1] # p => plays'[m] = plays[m]
  BY <1>1
<1>7. ASSUME NEW m \in Matches, m[1] = p, plays[m] # NoMatch
      PROVE  /\ place[p] = w /\ teams[p] = [home |-> home, away |-> away]
             /\ m = <<p, m[2]>> /\ m[2] \in Labels /\ m[2] \in Shape(home, away)
  <2>1. /\ m = <<m[1], m[2]>> /\ m[2] \in Labels /\ place[m[1]] \in Weeks
        /\ m[2] \in Shape(teams[m[1]].home, teams[m[1]].away)
    BY <1>2, <1>7, PlayedPlaced
  <2>2. place[p] # 0
    BY <2>1, <1>7, ZeroIsNoWeek
  <2> QED  BY <2>1, <2>2, <1>7
<1>8. \A m \in manual : m \in Matches /\ plays[m] # NoMatch
  BY <1>2 DEF TeamsInv, AdjustedPlayed
<1>9. place \in [Pairings -> Weeks \cup {0}] /\ scored \subseteq Matches
      /\ snaps \in [Weeks -> [Golfers -> Nines \cup {"none"}]]
  BY <1>2 DEF Inv, Typed, TypeOK
<1>10. ASSUME NEW m \in manual
       PROVE  plays'[m] = plays[m] /\ place'[m[1]] = place[m[1]]
  <2>1. m \in Matches /\ plays[m] # NoMatch /\ m[1] \in Pairings
    BY <1>8 DEF Matches
  <2>2. CASE m[1] = p
    <3>1. place[p] = w /\ m = <<p, m[2]>> /\ m[2] \in Labels /\ m[2] \in Shape(home, away)
      BY <2>1, <2>2, <1>7
    <3>2. plays'[m] = lineup[m[2]] /\ lineup[m[2]] = plays[m]
      BY <3>1, <1>3, <1>5
    <3> QED  BY <3>1, <3>2, <2>2, <1>9
  <2>3. CASE m[1] # p
    BY <2>1, <2>3, <1>6, <1>9
  <2> QED  BY <2>2, <2>3
<1>11. sides \in [Labels -> PlayedBy] /\ \A l \in Labels : sides[l] = lineup[l]
  BY <1>3, <1>5
<1>12. \A l \in Labels : <<p, l>> \in scored => sides[l] = plays[<<p, l>>]
  <2> SUFFICES ASSUME NEW l \in Labels, <<p, l>> \in scored
               PROVE  lineup[l] = plays[<<p, l>>]
    BY <1>11
  <2>1. <<p, l>> \in Matches /\ plays[<<p, l>>] # NoMatch
    BY <1>2, <1>9 DEF Inv, ScoresNeedMatches
  <2>2. <<p, l>>[1] = p /\ <<p, l>>[2] = l
    OBVIOUS
  <2>3. l \in Shape(home, away)
    BY <2>1, <2>2, <1>7
  <2> QED  BY <2>3, <1>1
<1>13. \A g \in joined \ joining : snaps[w][g] = weeks[w].nine
  <2> SUFFICES ASSUME NEW g \in joined, g \notin joining PROVE snaps[w][g] = weeks[w].nine
    OBVIOUS
  <2>1. g \in Golfers /\ \E l \in Labels, side \in Sides : sides[l][side] = g
    BY <1>b
  <2>a. PICK l \in Labels, side \in Sides : sides[l][side] = g
    BY <2>1
  <2>2. lineup[l][side] = g /\ g \in Golfers /\ g # NoOne
    BY <2>1, <2>a, <1>11, WeeksAssumption DEF WeeksAssumption
  <2>3. l \in Shape(home, away)
    BY <2>2, <1>3 DEF NoMatch
  <2>4. <<p, l>> \in manual
    BY <2>2, <2>3, <1>a
  <2>5. <<p, l>> \in Matches /\ plays[<<p, l>>][side] = g /\ plays[<<p, l>>] # NoMatch
    BY <2>2, <2>3, <2>4, <1>3, <1>8
  <2>6. place[p] = w
    <3>1. <<p, l>>[1] = p
      OBVIOUS
    <3> QED  BY <2>5, <3>1, <1>7
  <2>7. place[<<p, l>>[1]] = w
    BY <2>6
  <2>8. g \in Snapped(w)
    BY <2>5, <2>7, <2>2, <1>2 DEF Inv, SnapshotsFollowMatches
  <2>9. w \in Printed
    BY <1>1 DEF Open
  <2> QED  BY <2>8, <2>9, <1>2 DEF Inv, SnapshotsFollowMatches
<1>14. joining \subseteq joined
  <2> SUFFICES ASSUME NEW g \in joining PROVE g \in joined
    OBVIOUS
  <2>1. PICK l \in Shape(home, away), side \in Sides : lineup[l][side] = g
    BY <1>a
  <2>2. l \in Labels /\ g \in Golfers
    BY <1>4, ShapeSlots
  <2> QED  BY <2>1, <2>2, <1>11, <1>b
<1>15. /\ snaps' = [snaps EXCEPT ![w] = [g \in Golfers |->
                       IF g \in joining THEN weeks[w].nine ELSE snaps[w][g]]]
       /\ \A g \in joining : snaps[w][g] \in {"none", weeks[w].nine}
       /\ \A v \in Weeks, g \in Golfers :
             strokes'[v][g] = IF v = w /\ g \in joining \ Snapped(w) THEN Effective(g) ELSE strokes[v][g]
       /\ StrokesInv'
  BY <1>1, <1>2, <1>4, EnsureGives
<1>16. joined # {}
  <2>1. PICK l \in Shape(home, away) : l \in Labels
    BY ShapeSlots
  <2>2. lineup[l] \in [Sides -> Golfers]
    BY <2>1, <1>3 DEF PlayedBy
  <2>3. lineup[l]["a"] \in Golfers /\ "a" \in Sides
    BY <2>2 DEF Sides
  <2>4. sides[l]["a"] \in Golfers
    BY <2>1, <2>3, <1>11
  <2> QED  BY <2>1, <2>3, <2>4, <1>b
<1> HIDE DEF sides
<1>17. snaps' = [snaps EXCEPT ![w] = [g \in Golfers |->
                    IF g \in joined THEN weeks[w].nine ELSE snaps[w][g]]]
  <2>1. \A g \in Golfers : (IF g \in joining THEN weeks[w].nine ELSE snaps[w][g])
                              = IF g \in joined THEN weeks[w].nine ELSE snaps[w][g]
    BY <1>13, <1>14
  <2> QED  BY <1>15, <2>1, Zenon
<1>18. plays' = [m \in Matches |-> IF m[1] = p THEN sides[m[2]] ELSE plays[m]]
  <2>1. \A m \in Matches : (IF m[1] = p THEN lineup[m[2]] ELSE plays[m])
                             = IF m[1] = p THEN sides[m[2]] ELSE plays[m]
    BY <1>11 DEF Matches
  <2> QED  BY <1>1, <2>1, Zenon
<1>19. \A g \in joined : snaps[w][g] \in {"none", weeks[w].nine}
  BY <1>13, <1>15
<1>20. Arrange(p, w, sides)
  BY <1>1, <1>12, <1>16, <1>17, <1>18, <1>19 DEF Arrange, joined
<1>21. place'[p] = w
  BY <1>9
<1>22. ArrangedAsLeft(p)
  BY <1>11, <1>20, <1>21 DEF ArrangedAsLeft, sides
<1>23. \A v \in Weeks : \A g \in Snapped(v) : strokes'[v][g] = strokes[v][g]
  BY <1>15 DEF Snapped
<1> QED  BY <1>5, <1>6, <1>10, <1>15, <1>22, <1>23 DEF lineup

\* A golfer replaced in one match is an arrangement of its pairing as well, and the
\* one who comes in does not play that week.
LEMMA ReplaceArranges ==
    ASSUME MatchupsInv, NEW m \in Matches, NEW side \in Sides, NEW g \in Golfers, Replace(m, side, g)
    PROVE  /\ ArrangedAsLeft(m[1])
           /\ m[1] \in Pairings /\ place' = place
           /\ plays' = [plays EXCEPT ![m] = [plays[m] EXCEPT ![side] = g]]
           /\ plays[m] # NoMatch /\ plays'[m] # NoMatch
           /\ g \notin TeamGolfers /\ ~PlaysIn(place[m[1]], g) /\ m \notin scored
           /\ manual' = manual \cup {m} /\ subs' = subs \cup {<<m, side>>}
           /\ StrokesInv'
           /\ \A v \in Weeks : \A h \in Snapped(v) : strokes'[v][h] = strokes[v][h]
<1> DEFINE p == m[1]
           w == place[p]
           sides == [l \in Labels |-> plays'[<<p, l>>]]
           joined == {h \in Golfers : \E l \in Labels, s \in Sides : sides[l][s] = h}
<1>1. /\ plays[m] # NoMatch
      /\ Open(w) /\ m \notin scored /\ g \notin TeamGolfers /\ ~PlaysIn(w, g)
      /\ Ensure(w, {g})
      /\ plays' = [plays EXCEPT ![m] = [plays[m] EXCEPT ![side] = g]]
      /\ manual' = manual \cup {m} /\ subs' = subs \cup {<<m, side>>}
      /\ UNCHANGED <<weeks, season, place, scored, locked, tabs>>
  BY DEF Replace, MaySubstitute
<1>2. Inv /\ TeamsInv /\ StrokesInv /\ RosterTypeOK /\ OneSlotIncluded
  BY DEF MatchupsInv, RosterInv
<1>3. /\ p \in Pairings /\ m[2] \in Labels /\ m = <<p, m[2]>> /\ w \in Weeks
      /\ plays[m] \in [Sides -> Golfers] /\ plays[m]["a"] # plays[m]["b"]
  BY <1>1, <1>2, PlayedPlaced
<1>4. m \in MatchesOf(w)
  BY <1>1 DEF MatchesOf
<1>5. plays[m]["a"] # g /\ plays[m]["b"] # g
  BY <1>1, <1>4 DEF PlaysIn, Sides
<1>6. /\ plays'[m] \in [Sides -> Golfers] /\ plays'[m]["a"] # plays'[m]["b"]
      /\ plays'[m][side] = g
      /\ \A s \in Sides : plays'[m][s] \in {g, plays[m][s]}
      /\ \A n \in Matches : n # m => plays'[n] = plays[n]
      /\ plays \in [Matches -> PlayedBy]
  <2>1. plays \in [Matches -> PlayedBy]
    BY <1>2 DEF Inv, Typed, TypeOK
  <2>2. plays'[m] = [plays[m] EXCEPT ![side] = g] /\ \A n \in Matches : n # m => plays'[n] = plays[n]
    BY <2>1, <1>1
  <2>3. CASE side = "a"
    BY <2>1, <2>2, <2>3, <1>3, <1>5 DEF Sides
  <2>4. CASE side = "b"
    BY <2>1, <2>2, <2>4, <1>3, <1>5 DEF Sides
  <2> QED  BY <2>3, <2>4 DEF Sides
<1>7. plays'[m] \in PlayedBy /\ plays'[m] # NoMatch
  <2>1. plays'[m]["a"] \in Golfers /\ "a" \in Sides
    BY <1>6 DEF Sides
  <2> QED  BY <2>1, <1>6, WeeksAssumption DEF PlayedBy, NoMatch, WeeksAssumption
<1>8. sides \in [Labels -> PlayedBy]
  <2>1. ASSUME NEW l \in Labels PROVE plays'[<<p, l>>] \in PlayedBy
    <3>1. <<p, l>> \in Matches
      BY <1>3 DEF Matches
    <3> QED  BY <3>1, <1>6, <1>7
  <2> QED  BY <2>1
<1>9. sides[m[2]] = plays'[m]
  BY <1>3
<1>10. \A l \in Labels : l # m[2] => sides[l] = plays[<<p, l>>]
  <2> SUFFICES ASSUME NEW l \in Labels, l # m[2] PROVE plays'[<<p, l>>] = plays[<<p, l>>]
    OBVIOUS
  <2>1. <<p, l>> \in Matches /\ <<p, l>> # m
    BY <1>3 DEF Matches
  <2> QED  BY <2>1, <1>6
<1>b. /\ \A h \in joined : h \in Golfers /\ \E l \in Labels, s \in Sides : sides[l][s] = h
      /\ \A l \in Labels, s \in Sides : sides[l][s] \in Golfers => sides[l][s] \in joined
  OBVIOUS
<1> HIDE DEF joined, sides
<1>11. g \in joined
  BY <1>3, <1>6, <1>9, <1>b
<1>12. \A h \in joined \ {g} : snaps[w][h] = weeks[w].nine
  <2> SUFFICES ASSUME NEW h \in joined, h # g PROVE snaps[w][h] = weeks[w].nine
    OBVIOUS
  <2>1. h \in Golfers /\ \E l \in Labels, s \in Sides : sides[l][s] = h
    BY <1>b
  <2>2. PICK l \in Labels, s \in Sides : sides[l][s] = h
    BY <2>1
  <2>3. plays[<<p, l>>][s] = h
    <3>1. CASE l = m[2]
      BY <3>1, <2>2, <1>3, <1>6, <1>9
    <3>2. CASE l # m[2]
      BY <3>2, <2>2, <1>10
    <3> QED  BY <3>1, <3>2
  <2>4. <<p, l>> \in Matches /\ <<p, l>>[1] = p /\ h # NoOne
    BY <1>3, <2>1, WeeksAssumption DEF Matches, WeeksAssumption
  <2>5. h \in Snapped(w)
    BY <2>3, <2>4, <1>2 DEF Inv, SnapshotsFollowMatches
  <2>6. w \in Printed
    BY <1>1 DEF Open
  <2> QED  BY <2>5, <2>6, <1>2 DEF Inv, SnapshotsFollowMatches
<1>13. /\ snaps' = [snaps EXCEPT ![w] = [h \in Golfers |->
                       IF h \in {g} THEN weeks[w].nine ELSE snaps[w][h]]]
       /\ \A h \in {g} : snaps[w][h] \in {"none", weeks[w].nine}
       /\ \A v \in Weeks, h \in Golfers :
             strokes'[v][h] = IF v = w /\ h \in {g} \ Snapped(w) THEN Effective(h) ELSE strokes[v][h]
       /\ StrokesInv'
  <2>1. {g} \in SUBSET Golfers
    OBVIOUS
  <2> QED  BY <2>1, <1>1, <1>2, <1>3, EnsureGives
<1>14. snaps' = [snaps EXCEPT ![w] = [h \in Golfers |->
                    IF h \in joined THEN weeks[w].nine ELSE snaps[w][h]]]
  <2>1. \A h \in Golfers : (IF h \in {g} THEN weeks[w].nine ELSE snaps[w][h])
                              = IF h \in joined THEN weeks[w].nine ELSE snaps[w][h]
    BY <1>11, <1>12
  <2> QED  BY <1>13, <2>1, Zenon
<1>15. plays' = [n \in Matches |-> IF n[1] = p THEN sides[n[2]] ELSE plays[n]]
  <2>1. plays' = [n \in Matches |-> plays'[n]]
    BY <1>1, <1>6
  <2>2. ASSUME NEW n \in Matches
        PROVE  plays'[n] = IF n[1] = p THEN sides[n[2]] ELSE plays[n]
    <3>1. n = <<n[1], n[2]>> /\ n[2] \in Labels
      BY DEF Matches
    <3>2. CASE n[1] = p
      BY <3>1, <3>2 DEF sides
    <3>3. CASE n[1] # p
      BY <3>3, <1>6
    <3> QED  BY <3>2, <3>3
  <2> QED  BY <2>1, <2>2, Zenon
<1>16. place' = [place EXCEPT ![p] = w]
  <2>1. place \in [Pairings -> Weeks \cup {0}]
    BY <1>2 DEF Inv, Typed, TypeOK
  <2> QED  BY <2>1, <1>1, <1>3
<1>17. \A l \in Labels : <<p, l>> \in scored => sides[l] = plays[<<p, l>>]
  BY <1>1, <1>3, <1>10
<1>18. Arrange(p, w, sides)
  BY <1>1, <1>11, <1>12, <1>13, <1>14, <1>15, <1>16, <1>17 DEF Arrange, joined
<1>19. ArrangedAsLeft(p)
  BY <1>1, <1>3, <1>8, <1>18 DEF ArrangedAsLeft, sides
<1>20. \A v \in Weeks : \A h \in Snapped(v) : strokes'[v][h] = strokes[v][h]
  BY <1>13 DEF Snapped
<1> QED  BY <1>1, <1>3, <1>7, <1>13, <1>19, <1>20

\* A re-seed finds the snapshots on the week's nine and leaves them there.
LEMMA ReseedLeavesSnapshots ==
    ASSUME MatchupsInv, NEW w \in Weeks, Reseed(w)
    PROVE  /\ UNCHANGED vars /\ UNCHANGED <<roster, teams, manual, subs, requests, scope>>
           /\ StrokesInv'
           /\ \A v \in Weeks, g \in Golfers : strokes'[v][g] # strokes[v][g] =>
                 v = w /\ g \notin Adjusted(w) /\ strokes'[v][g] = Effective(g)
<1>1. Inv /\ StrokesInv /\ RosterTypeOK
  BY DEF MatchupsInv, RosterInv
<1>2. /\ Open(w)
      /\ strokes' = [strokes EXCEPT ![w] = [g \in Golfers |->
                       IF g \in Reseeded(w) THEN Effective(g) ELSE strokes[w][g]]]
      /\ snaps' = [snaps EXCEPT ![w] = [g \in Golfers |->
                       IF g \in Reseeded(w) THEN weeks[w].nine ELSE snaps[w][g]]]
      /\ UNCHANGED <<weeks, season, place, plays, scored, locked, tabs>>
      /\ UNCHANGED <<roster, teams, manual, subs, requests, scope>>
  BY DEF Reseed
<1>3. \A g \in Reseeded(w) : g \in Snapped(w) /\ g \notin Adjusted(w) /\ Seeded(g) /\ g \in Golfers
  BY DEF Reseeded, Snapped
<1>4. w \in Printed
  BY <1>2 DEF Open
<1>5. \A g \in Reseeded(w) : snaps[w][g] = weeks[w].nine
  BY <1>1, <1>3, <1>4 DEF Inv, SnapshotsFollowMatches
<1>6. snaps \in [Weeks -> [Golfers -> Nines \cup {"none"}]]
  BY <1>1 DEF Inv, Typed, TypeOK
<1>7. snaps' = snaps
  <2>1. snaps[w] = [g \in Golfers |-> IF g \in Reseeded(w) THEN weeks[w].nine ELSE snaps[w][g]]
    BY <1>5, <1>6
  <2> QED  BY <2>1, <1>2, <1>6
<1>8. strokes \in [Weeks -> [Golfers -> Seed \cup {NoSeed}]]
  BY <1>1 DEF StrokesInv
<1>9. \A v \in Weeks, g \in Golfers :
         strokes'[v][g] = IF v = w /\ g \in Reseeded(w) THEN Effective(g) ELSE strokes[v][g]
  BY <1>2, <1>8
<1>10. strokes' \in [Weeks -> [Golfers -> Seed \cup {NoSeed}]]
  <2>1. \A g \in Golfers : Effective(g) \in Seed
    BY <1>1, EffectiveSeed
  <2> QED  BY <1>2, <1>8, <2>1
<1>11. ASSUME NEW v \in Weeks, NEW g \in Golfers
       PROVE  IF snaps'[v][g] = "none" THEN strokes'[v][g] = NoSeed
                                       ELSE strokes'[v][g].strokes # NoOne
  <2>1. CASE v = w /\ g \in Reseeded(w)
    <3>1. snaps[v][g] # "none"
      BY <2>1, <1>3 DEF Snapped
    <3> QED  BY <2>1, <3>1, <1>1, <1>3, <1>7, <1>9, EffectiveSeed
  <2>2. CASE ~(v = w /\ g \in Reseeded(w))
    <3>1. strokes'[v][g] = strokes[v][g]
      BY <2>2, <1>9
    <3> QED  BY <3>1, <1>1, <1>7 DEF StrokesInv, StrokesKnown
  <2> QED  BY <2>1, <2>2
<1>12. StrokesInv'
  BY <1>10, <1>11 DEF StrokesInv, StrokesKnown
<1>13. UNCHANGED vars
  BY <1>2, <1>7 DEF vars
<1> QED  BY <1>2, <1>3, <1>9, <1>12, <1>13

\* What a step of the requests is: a golfer replaced, or nothing but the requests.
LEMMA RequestSteps ==
    ASSUME RequestNext
    PROVE  \/ \E m \in Matches, side \in Sides, g \in Golfers :
                 Replace(m, side, g) /\ Answerable(m) /\ plays[m][side] = requests[m].golfer
                 /\ requests' = [requests EXCEPT ![m].status = "fulfilled"]
           \/ UNCHANGED <<vars, roster, teams, manual, subs, strokes, scope>>
<1>1. PICK m \in Matches :
         \/ \E g \in Golfers : MakeRequest(m, g) \/ Fulfill(m, g)
         \/ NoticeSent(m) \/ NoticeFailed(m) \/ NoticeLost(m)
         \/ Decline(m)
  BY DEF RequestNext
<1>2. CASE \E g \in Golfers : Fulfill(m, g)
  <2>1. PICK g \in Golfers : Fulfill(m, g)
    BY <1>2
  <2>2. PICK side \in Sides : /\ plays[m][side] = requests[m].golfer
                              /\ Replace(m, side, g) \/ KeepSubstitute(m, side, g)
    BY <2>1 DEF Fulfill
  <2>3. Answerable(m) /\ requests' = [requests EXCEPT ![m].status = "fulfilled"]
    BY <2>1 DEF Fulfill
  <2>4. CASE Replace(m, side, g)
    BY <2>2, <2>3, <2>4
  <2>5. CASE KeepSubstitute(m, side, g)
    BY <2>5 DEF KeepSubstitute
  <2> QED  BY <2>2, <2>4, <2>5
<1>3. CASE \E g \in Golfers : MakeRequest(m, g)
  BY <1>3 DEF MakeRequest
<1>4. CASE NoticeSent(m) \/ NoticeFailed(m) \/ NoticeLost(m)
  BY <1>4 DEF NoticeSent, NoticeFailed, NoticeLost
<1>5. CASE Decline(m)
  BY <1>5 DEF Decline
<1> QED  BY <1>1, <1>2, <1>3, <1>4, <1>5

\* A pairing made or generated again, with its place and teams in one form.
LEMMA PairingSteps ==
    ASSUME MatchupsInv, PairingNext
    PROVE  \/ \E p \in Pairings, w \in Weeks, home, away \in Teams :
                 /\ GeneratePairing(p, w, home, away)
                 /\ place' = [place EXCEPT ![p] = w]
                 /\ teams' = [teams EXCEPT ![p] = [home |-> home, away |-> away]]
                 /\ place[p] = 0 \/ (place[p] = w /\ teams[p] = [home |-> home, away |-> away])
           \/ \E m \in Matches, side \in Sides, g \in Golfers :
                 Replace(m, side, g) /\ UNCHANGED requests
<1>1. scope.teams \subseteq Teams /\ scope.pairings \subseteq Pairings
  BY MatchupsAssumption DEF MatchupsInv, MatchupsAssumption
<1>2. CASE \E p \in scope.pairings, w \in Weeks, home, away \in scope.teams :
              CreatePairing(p, w, home, away)
  BY <1>1, <1>2 DEF CreatePairing
<1>3. ASSUME NEW p \in Pairings, Regenerate(p)
      PROVE  \E w \in Weeks, home, away \in Teams :
                 /\ GeneratePairing(p, w, home, away)
                 /\ place' = [place EXCEPT ![p] = w]
                 /\ teams' = [teams EXCEPT ![p] = [home |-> home, away |-> away]]
                 /\ place[p] = 0 \/ (place[p] = w /\ teams[p] = [home |-> home, away |-> away])
  <2>1. /\ place \in [Pairings -> Weeks \cup {0}]
        /\ teams \in [Pairings -> [home : Teams, away : Teams] \cup {NoTeams}]
    BY DEF MatchupsInv, Inv, Typed, TypeOK, TeamsInv, TeamsTyped
  <2>2. /\ place[p] # 0 /\ GeneratePairing(p, place[p], teams[p].home, teams[p].away)
        /\ place' = place /\ teams' = teams
    BY <1>3 DEF Regenerate
  <2>3. place[p] \in Weeks
    BY <2>1, <2>2
  <2>4. teams[p] \in [home : Teams, away : Teams]
    BY <2>1, <2>2 DEF MatchupsInv, TeamsInv, TeamsTyped
  <2>5. /\ teams[p].home \in Teams /\ teams[p].away \in Teams
        /\ teams[p] = [home |-> teams[p].home, away |-> teams[p].away]
    BY <2>4
  <2>6. place' = [place EXCEPT ![p] = place[p]]
    BY <2>1, <2>2
  <2>7. teams' = [teams EXCEPT ![p] = [home |-> teams[p].home, away |-> teams[p].away]]
    BY <2>1, <2>2, <2>5
  <2> QED  BY <2>2, <2>3, <2>5, <2>6, <2>7
<1>4. CASE \E p \in Pairings : Regenerate(p)
  BY <1>3, <1>4
<1>5. CASE \E m \in Matches, side \in Sides, g \in Golfers : Substitute(m, side, g)
  BY <1>5 DEF Substitute
<1> QED  BY <1>2, <1>4, <1>5 DEF PairingNext

\* Every step of the matchups is one that the schedule allows, or leaves it alone.
LEMMA StepsAllowed == MatchupsInv /\ [MatchupsNext]_allVars => [AllowedStep]_vars
<1> SUFFICES ASSUME MatchupsInv, [MatchupsNext]_allVars PROVE AllowedStep \/ UNCHANGED vars
  OBVIOUS
<1>1. CASE ScheduleNext
  BY <1>1 DEF ScheduleNext, AllowedStep
<1>2. CASE MoveToRainDate
  BY <1>2 DEF MoveToRainDate, AllowedStep, RainNext
<1>3. CASE PairingNext
  BY <1>3, PairingSteps, GenerateArranges, ReplaceArranges DEF AllowedStep
<1>4. CASE RequestNext
  BY <1>4, RequestSteps, ReplaceArranges DEF AllowedStep
<1>5. CASE RosterNext
  BY <1>5 DEF RosterNext, TeamNext, ParticipantsNext, SaveTeam, AssignPositions, AddOverride,
              UpdateOverride, SaveSeasonGolfers, ChangeActive, ChangeStatus, Answer
<1>6. CASE HandicapNext
  BY <1>6, ReseedLeavesSnapshots DEF HandicapNext
<1>7. CASE UNCHANGED allVars
  BY <1>7 DEF allVars
<1> QED  BY <1>1, <1>2, <1>3, <1>4, <1>5, <1>6, <1>7 DEF MatchupsNext

\* A team in one pairing of a week, a substitute on one side: what pairing keeps.
LEMMA GenerateKeepsTeams ==
    ASSUME MatchupsInv, NEW p \in Pairings, NEW w \in Weeks, NEW home \in Teams, NEW away \in Teams,
           GeneratePairing(p, w, home, away),
           place' = [place EXCEPT ![p] = w],
           teams' = [teams EXCEPT ![p] = [home |-> home, away |-> away]],
           place[p] = 0 \/ (place[p] = w /\ teams[p] = [home |-> home, away |-> away])
    PROVE  TeamsInv'
<1>1. /\ \A m \in manual : plays'[m] = plays[m] /\ place'[m[1]] = place[m[1]]
      /\ \A l \in Labels : plays'[<<p, l>>] = Lineup(p, home, away)[l]
      /\ \A m \in Matches : m[1] # p => plays'[m] = plays[m]
  BY GenerateArranges
<1>2. Ready /\ TeamsFree(p, w, home, away) /\ UNCHANGED <<manual, subs>>
  BY DEF GeneratePairing
<1>3. TeamsTyped /\ ShapesHold /\ AdjustedPlayed /\ OncePerWeek /\ Inv
  BY DEF MatchupsInv, TeamsInv
<1>4. place \in [Pairings -> Weeks \cup {0}] /\ 0 \notin Weeks
  BY <1>3, ZeroIsNoWeek DEF Inv, Typed, TypeOK
<1>5. [home |-> home, away |-> away] # NoTeams
  BY MatchupsAssumption DEF MatchupsAssumption, NoTeams
<1>6. TeamsTyped'
  BY <1>3, <1>4, <1>5 DEF TeamsTyped
<1>7. \A q \in Pairings \ {p} : place'[q] = place[q] /\ teams'[q] = teams[q]
  BY <1>3, <1>4 DEF TeamsTyped
<1>8. place'[p] = w /\ teams'[p] = [home |-> home, away |-> away]
  BY <1>3, <1>4 DEF TeamsTyped
<1>9. ShapesHold'
  <2> SUFFICES ASSUME NEW m \in Matches, plays'[m] # NoMatch
               PROVE  m[2] \in Shape(teams'[m[1]].home, teams'[m[1]].away)
    BY DEF ShapesHold
  <2>1. m = <<m[1], m[2]>> /\ m[1] \in Pairings /\ m[2] \in Labels
    BY DEF Matches
  <2>2. CASE m[1] = p
    <3>1. Lineup(p, home, away)[m[2]] # NoMatch
      BY <2>1, <2>2, <1>1
    <3>2. m[2] \in Shape(home, away)
      BY <3>1, <2>1, <1>2, LineupPlays
    <3> QED  BY <3>2, <2>2, <1>8
  <2>3. CASE m[1] # p
    BY <2>1, <2>3, <1>1, <1>3, <1>7 DEF ShapesHold
  <2> QED  BY <2>2, <2>3
<1>10. AdjustedPlayed'
  BY <1>1, <1>2, <1>3 DEF AdjustedPlayed
<1>11. ASSUME NEW q \in Pairings, NEW r \in Pairings, q # r, place'[q] # 0, place'[q] = place'[r]
       PROVE  {teams'[q].home, teams'[q].away} \cap {teams'[r].home, teams'[r].away} = {}
  <2>1. CASE q = p
    <3>1. place[r] = w /\ r # p
      BY <2>1, <1>11, <1>7, <1>8
    <3>2. {home, away} \cap {teams[r].home, teams[r].away} = {}
      BY <3>1, <1>2 DEF TeamsFree, Within
    <3> QED  BY <3>1, <3>2, <2>1, <1>7, <1>8
  <2>2. CASE r = p
    <3>1. place[q] = w /\ q # p
      BY <2>2, <1>11, <1>7, <1>8
    <3>2. {home, away} \cap {teams[q].home, teams[q].away} = {}
      BY <3>1, <1>2 DEF TeamsFree, Within
    <3> QED  BY <3>1, <3>2, <2>2, <1>7, <1>8
  <2>3. CASE q # p /\ r # p
    BY <2>3, <1>11, <1>7, <1>3 DEF OncePerWeek
  <2> QED  BY <2>1, <2>2, <2>3
<1>12. ASSUME NEW x \in subs, NEW y \in subs, place'[x[1][1]] = place'[y[1][1]],
              plays'[x[1]][x[2]] = plays'[y[1]][y[2]]
       PROVE  x = y
  <2>1. x[1] \in manual /\ y[1] \in manual
    BY <1>3 DEF AdjustedPlayed
  <2> QED  BY <2>1, <1>12, <1>1, <1>3 DEF OncePerWeek
<1>13. OncePerWeek'
  BY <1>2, <1>11, <1>12 DEF OncePerWeek
<1> QED  BY <1>6, <1>9, <1>10, <1>13 DEF TeamsInv

\* ... and what a substitution keeps.
LEMMA ReplaceKeepsTeams ==
    ASSUME MatchupsInv, NEW m \in Matches, NEW side \in Sides, NEW g \in Golfers, Replace(m, side, g)
    PROVE  TeamsInv'
<1>1. /\ m[1] \in Pairings /\ place' = place /\ teams' = teams
      /\ plays' = [plays EXCEPT ![m] = [plays[m] EXCEPT ![side] = g]]
      /\ plays[m] # NoMatch /\ plays'[m] # NoMatch
      /\ ~PlaysIn(place[m[1]], g)
      /\ manual' = manual \cup {m} /\ subs' = subs \cup {<<m, side>>}
  BY ReplaceArranges DEF Replace
<1>2. TeamsTyped /\ ShapesHold /\ AdjustedPlayed /\ OncePerWeek /\ Inv
  BY DEF MatchupsInv, TeamsInv
<1>3. plays \in [Matches -> PlayedBy]
  BY <1>2 DEF Inv, Typed, TypeOK
<1>4. \A n \in Matches : n # m => plays'[n] = plays[n]
  BY <1>1, <1>3
<1>5. plays'[m] = [plays[m] EXCEPT ![side] = g]
  BY <1>1, <1>3
<1>6. plays[m] \in [Sides -> Golfers]
  BY <1>1, <1>3 DEF PlayedBy
<1>7. plays'[m][side] = g /\ \A s \in Sides \ {side} : plays'[m][s] = plays[m][s]
  BY <1>5, <1>6
<1>8. TeamsTyped'
  BY <1>1, <1>2 DEF TeamsTyped
<1>9. ShapesHold'
  BY <1>1, <1>2, <1>4 DEF ShapesHold
<1>10. AdjustedPlayed'
  BY <1>1, <1>2, <1>4 DEF AdjustedPlayed
<1>11. ASSUME NEW x \in subs, place[x[1][1]] = place[m[1]], x # <<m, side>>
       PROVE  plays'[x[1]][x[2]] = plays[x[1]][x[2]] /\ plays'[x[1]][x[2]] # g
  <2>1. x = <<x[1], x[2]>> /\ x[1] \in Matches /\ x[2] \in Sides /\ plays[x[1]] # NoMatch
    BY <1>2 DEF AdjustedPlayed
  <2>2. plays'[x[1]][x[2]] = plays[x[1]][x[2]]
    BY <2>1, <1>4, <1>7, <1>11
  <2>3. x[1] \in MatchesOf(place[m[1]])
    BY <2>1, <1>11 DEF MatchesOf
  <2>4. plays[x[1]][x[2]] # g
    BY <2>1, <2>3, <1>1 DEF PlaysIn
  <2> QED  BY <2>2, <2>4
<1>12. ASSUME NEW x \in subs', NEW y \in subs', place[x[1][1]] = place[y[1][1]],
              plays'[x[1]][x[2]] = plays'[y[1]][y[2]]
       PROVE  x = y
  <2> DEFINE new == <<m, side>>
  <2>0. new[1] = m /\ new[2] = side /\ (x \in subs \/ x = new) /\ (y \in subs \/ y = new)
    BY <1>1
  <2> HIDE DEF new
  <2>1. CASE x = new /\ y # new
    BY <2>0, <2>1, <1>7, <1>11, <1>12 DEF new
  <2>2. CASE y = new /\ x # new
    BY <2>0, <2>2, <1>7, <1>11, <1>12 DEF new
  <2>3. CASE x # new /\ y # new
    <3>1. x \in subs /\ y \in subs
      BY <2>0, <2>3
    <3>2. plays'[x[1]][x[2]] = plays[x[1]][x[2]] /\ plays'[y[1]][y[2]] = plays[y[1]][y[2]]
      <4>1. CASE place[x[1][1]] = place[m[1]]
        BY <4>1, <3>1, <2>3, <1>11, <1>12 DEF new
      <4>2. CASE place[x[1][1]] # place[m[1]]
        <5>1. x[1] # m /\ y[1] # m /\ x[1] \in Matches /\ y[1] \in Matches
          BY <4>2, <3>1, <1>2, <1>12 DEF AdjustedPlayed
        <5> QED  BY <5>1, <1>4
      <4> QED  BY <4>1, <4>2
    <3> QED  BY <3>1, <3>2, <1>12, <1>2 DEF OncePerWeek
  <2> QED  BY <2>1, <2>2, <2>3
<1>13. OncePerWeek'
  BY <1>1, <1>2, <1>12 DEF OncePerWeek
<1> QED  BY <1>8, <1>9, <1>10, <1>13 DEF TeamsInv

\* A rain date takes a week's pairings and snapshots with their strokes to a week
\* that has none.
LEMMA RainKeeps ==
    ASSUME MatchupsInv, MoveToRainDate
    PROVE  /\ TeamsInv' /\ StrokesInv'
           /\ \A w \in Weeks : w \in Printed => weeks'[w] # NoWeek
           /\ plays' = plays /\ UNCHANGED <<roster, teams, manual, subs, requests, scope>>
           /\ \A w \in Weeks : \A g \in Snapped(w) : strokes'[w][g] # strokes[w][g] =>
                 \E v \in Weeks : weeks'[v].makeup = w /\ strokes'[v][g] = strokes[w][g]
<1>1. PICK t \in Tabs :
        /\ ConfirmRain(t)
        /\ strokes' = [strokes EXCEPT ![tabs[t].to] = strokes[tabs[t].week],
                                      ![tabs[t].week] = [g \in Golfers |-> NoSeed]]
        /\ UNCHANGED <<roster, teams, manual, subs, requests, scope>>
  BY DEF MoveToRainDate
<1>2. TeamsTyped /\ ShapesHold /\ AdjustedPlayed /\ OncePerWeek /\ StrokesInv /\ Inv
  BY DEF MatchupsInv, TeamsInv
<1>3. PICK w, to \in Printed :
        /\ tabs[t].kind = "rain" /\ tabs[t].week = w /\ tabs[t].to = to
        /\ UpToDate(tabs[t])
        /\ w # to /\ w \in Weeks /\ to \in Weeks
        /\ weeks[w].nine \in Nines /\ weeks[to].nine = "none"
        /\ MatchesOf(w) \cap scored = {}
        /\ Within(to) = {} /\ Snapped(to) = {}
        /\ \A v \in Weeks \ {w, to} : weeks'[v] = weeks[v]
        /\ \A v \in Weeks : weeks'[v].date = weeks[v].date
        /\ weeks'[w].nine = weeks[w].nine
        /\ weeks'[to].nine = weeks[w].nine
        /\ weeks'[to].kind = "match" /\ weeks'[to].status = "scheduled"
        /\ weeks'[w] # NoWeek /\ weeks'[to] # NoWeek
        /\ place' = [p \in Pairings |-> IF place[p] = w THEN to ELSE place[p]]
        /\ snaps' = [v \in Weeks |-> [g \in Golfers |->
              IF v = w THEN "none"
              ELSE IF v = to /\ g \in Snapped(w) THEN weeks[w].nine
              ELSE snaps[v][g]]]
        /\ UNCHANGED <<season, plays, scored, locked, tabs>>
  BY <1>1, <1>2, RainStep
<1>4. weeks'[to].makeup = w
  <2>1. weeks \in [Weeks -> Row \cup {NoWeek}] /\ weeks[to] # NoWeek
    BY <1>2 DEF Inv, Typed, TypeOK, Printed
  <2>2. weeks' = [weeks EXCEPT ![w].status = "cancelled",
                               ![to].kind = "match", ![to].status = "scheduled",
                               ![to].nine = weeks[w].nine, ![to].makeup = w]
    BY <1>1, <1>3 DEF ConfirmRain
  <2>3. weeks[to] \in Row
    BY <2>1, <1>3
  <2> QED  BY <2>1, <2>2, <2>3, <1>3 DEF Row
<1>5. 0 \notin Weeks /\ place \in [Pairings -> Weeks \cup {0}]
  BY <1>2, ZeroIsNoWeek DEF Inv, Typed, TypeOK
<1>6. \A p \in Pairings : place[p] # to
  BY <1>3 DEF Within
<1>7. \A p, q \in Pairings : place'[p] = place'[q] => place[p] = place[q]
  BY <1>3, <1>6
<1>8. \A p \in Pairings : place'[p] = 0 <=> place[p] = 0
  BY <1>3, <1>5
<1>9. TeamsTyped' /\ ShapesHold' /\ AdjustedPlayed'
  BY <1>1, <1>2, <1>3, <1>8 DEF TeamsTyped, ShapesHold, AdjustedPlayed
<1>10. OncePerWeek'
  <2>1. \A x \in subs : x[1][1] \in Pairings
    BY <1>2 DEF AdjustedPlayed, Matches
  <2> QED  BY <2>1, <1>1, <1>2, <1>3, <1>7, <1>8 DEF OncePerWeek
<1>11. strokes \in [Weeks -> [Golfers -> Seed \cup {NoSeed}]]
  BY <1>2 DEF StrokesInv
<1>12. /\ strokes'[to] = strokes[w] /\ strokes'[w] = [g \in Golfers |-> NoSeed]
       /\ \A v \in Weeks \ {w, to} : strokes'[v] = strokes[v]
       /\ strokes' \in [Weeks -> [Golfers -> Seed \cup {NoSeed}]]
  BY <1>1, <1>3, <1>11
<1>13. ASSUME NEW v \in Weeks, NEW g \in Golfers
       PROVE  IF snaps'[v][g] = "none" THEN strokes'[v][g] = NoSeed
                                       ELSE strokes'[v][g].strokes # NoOne
  <2>1. snaps'[v][g] = IF v = w THEN "none"
                       ELSE IF v = to /\ g \in Snapped(w) THEN weeks[w].nine ELSE snaps[v][g]
    BY <1>3
  <2>2. CASE v = w
    BY <2>1, <2>2, <1>12
  <2>3. CASE v = to
    <3>1. snaps[to][g] = "none" /\ "none" \notin Nines
      BY <1>3 DEF Snapped, Nines
    <3>2. snaps'[v][g] = "none" <=> snaps[w][g] = "none"
      BY <2>1, <2>3, <3>1, <1>3 DEF Snapped
    <3> QED  BY <3>2, <2>3, <1>2, <1>3, <1>12 DEF StrokesInv, StrokesKnown
  <2>4. CASE v # w /\ v # to
    BY <2>1, <2>4, <1>2, <1>12 DEF StrokesInv, StrokesKnown
  <2> QED  BY <2>2, <2>3, <2>4
<1>14. StrokesInv'
  BY <1>12, <1>13 DEF StrokesInv, StrokesKnown
<1>15. \A v \in Weeks : v \in Printed => weeks'[v] # NoWeek
  BY <1>3 DEF Printed
<1>16. ASSUME NEW v \in Weeks, NEW g \in Snapped(v), strokes'[v][g] # strokes[v][g]
       PROVE  \E u \in Weeks : weeks'[u].makeup = v /\ strokes'[u][g] = strokes[v][g]
  <2>1. v = w
    BY <1>16, <1>3, <1>12
  <2> QED  BY <2>1, <1>3, <1>4, <1>12
<1> QED  BY <1>1, <1>3, <1>9, <1>10, <1>14, <1>15, <1>16 DEF TeamsInv

-----------------------------------------------------------------------------
(* The invariant.                                                           *)

LEMMA RequestsStayTyped ==
    ASSUME Inv, RequestsTyped, RequestNext
    PROVE  RequestsTyped'
<1>1. PICK m \in Matches :
         \/ \E g \in Golfers : MakeRequest(m, g) \/ Fulfill(m, g)
         \/ NoticeSent(m) \/ NoticeFailed(m) \/ NoticeLost(m)
         \/ Decline(m)
  BY DEF RequestNext
<1>2. requests \in [Matches -> Request \cup {NoRequest}]
  BY DEF RequestsTyped
<1>3. ASSUME NEW r \in Request \cup {NoRequest}, requests' = [requests EXCEPT ![m] = r],
             r.notice = "sending" => r.status = "pending"
      PROVE  RequestsTyped'
  BY <1>2, <1>3 DEF RequestsTyped
<1>4. requests[m].status = "pending" \/ requests[m].notice = "sending" => requests[m] \in Request
  BY <1>2 DEF NoRequest
<1>5. CASE \E g \in Golfers : MakeRequest(m, g)
  <2>1. PICK g \in Golfers : MakeRequest(m, g)
    BY <1>5
  <2>2. place[m[1]] \in Weeks
    BY <2>1 DEF MakeRequest, Open, Printed
  <2>3. [status |-> "pending", week |-> place[m[1]], golfer |-> g, notice |-> "sending"] \in Request
    BY <2>2 DEF Request
  <2> QED  BY <2>1, <2>3, <1>3 DEF MakeRequest
<1>6. ASSUME NEW s \in {"fulfilled", "declined"}, Answerable(m),
             requests' = [requests EXCEPT ![m].status = s]
      PROVE  RequestsTyped'
  <2>1. requests[m] \in Request
    BY <1>4, <1>6 DEF Answerable
  <2> DEFINE r == [requests[m] EXCEPT !.status = s]
  <2>2. r \in Request /\ r.notice # "sending" /\ requests' = [requests EXCEPT ![m] = r]
    BY <2>1, <1>6 DEF Request, Answerable
  <2> HIDE DEF r
  <2> QED  BY <2>2, <1>3
<1>7. ASSUME NEW n \in {"sent", "lost"}, requests[m].notice = "sending",
             requests' = [requests EXCEPT ![m].notice = n]
      PROVE  RequestsTyped'
  <2>1. requests[m] \in Request
    BY <1>4, <1>7
  <2> DEFINE r == [requests[m] EXCEPT !.notice = n]
  <2>2. r \in Request /\ r.notice # "sending" /\ requests' = [requests EXCEPT ![m] = r]
    BY <2>1, <1>7 DEF Request
  <2> HIDE DEF r
  <2> QED  BY <2>2, <1>3
<1>8. CASE \E g \in Golfers : Fulfill(m, g)
  BY <1>8, <1>6 DEF Fulfill
<1>9. CASE Decline(m)
  BY <1>9, <1>6 DEF Decline
<1>10. CASE NoticeSent(m) \/ NoticeLost(m)
  BY <1>10, <1>7 DEF NoticeSent, NoticeLost
<1>11. CASE NoticeFailed(m)
  BY <1>11, <1>3 DEF NoticeFailed, NoRequest
<1> QED  BY <1>1, <1>5, <1>8, <1>9, <1>10, <1>11

LEMMA MatchupsInvInit == MatchupsInit => MatchupsInv
<1> SUFFICES ASSUME MatchupsInit PROVE MatchupsInv
  OBVIOUS
<1>1. Inv
  BY InvInit DEF MatchupsInit
<1>2. RosterInv /\ scope \in Scopes
  BY RosterInvInit DEF MatchupsInit
<1>3. TeamsInv
  BY DEF MatchupsInit, Init, TeamsInv, TeamsTyped, ShapesHold, AdjustedPlayed, OncePerWeek
<1>4. StrokesInv
  BY DEF MatchupsInit, Init, StrokesInv, StrokesKnown
<1>5. RequestsTyped /\ AnsweredPrinted
  BY DEF MatchupsInit, RosterInit, RequestsTyped, AnsweredPrinted, NoRequest
<1> QED  BY <1>1, <1>2, <1>3, <1>4, <1>5 DEF MatchupsInv

LEMMA MatchupsInvNext == MatchupsInv /\ [MatchupsNext]_allVars => MatchupsInv'
<1> SUFFICES ASSUME MatchupsInv, [MatchupsNext]_allVars PROVE MatchupsInv'
  OBVIOUS
<1>1. /\ Inv /\ RosterInv /\ scope \in Scopes /\ TeamsInv /\ StrokesInv /\ RequestsTyped
      /\ AnsweredPrinted
  BY DEF MatchupsInv
<1>2. [AllowedStep]_vars
  BY StepsAllowed
<1>3. Inv'
  BY <1>1, <1>2, AllowedIsNext, InvNext
<1>4. CASE ScheduleNext
  <2>1. /\ UNCHANGED <<roster, detail>>
        /\ \A w \in Weeks : answers[w] # {} => weeks'[w] # NoWeek
        /\ FormNext \/ ConfirmNext \/ SeasonNext \/ ScoreNext
    BY <1>4 DEF ScheduleNext
  <2>2. /\ UNCHANGED <<place, plays>>
        /\ \A w \in Weeks, g \in Golfers : snaps'[w][g] = "none" <=> snaps[w][g] = "none"
    BY <2>1, <1>1, ScheduleLeavesMatches
  <2>3. UNCHANGED <<teams, manual, subs, strokes, requests, scope, answers>>
    BY <2>1 DEF detail, roster
  <2>4. TeamsInv' /\ StrokesInv' /\ RosterInv'
    BY <2>1, <2>2, <2>3, <1>1, TeamsKept, StrokesKept, RosterKept
  <2>5. AnsweredPrinted'
    BY <2>1, <2>3 DEF AnsweredPrinted, Printed
  <2>6. RequestsTyped' /\ scope' \in Scopes
    BY <2>3, <1>1 DEF RequestsTyped
  <2> QED  BY <2>4, <2>5, <2>6, <1>3 DEF MatchupsInv
<1>5. CASE MoveToRainDate
  <2>1. /\ TeamsInv' /\ StrokesInv'
        /\ \A w \in Weeks : w \in Printed => weeks'[w] # NoWeek
        /\ UNCHANGED <<roster, requests, scope>>
    BY <1>5, RainKeeps
  <2>2. RosterInv' /\ AnsweredPrinted'
    BY <2>1, <1>1, RosterKept, AnswersKept DEF roster
  <2> QED  BY <2>1, <2>2, <1>1, <1>3 DEF MatchupsInv, RequestsTyped
<1>6. ASSUME NEW m \in Matches, NEW side \in Sides, NEW g \in Golfers, Replace(m, side, g)
      PROVE  TeamsInv' /\ StrokesInv' /\ RosterInv' /\ AnsweredPrinted' /\ scope' = scope
  <2>1. UNCHANGED <<roster, weeks, scope>>
    BY <1>6 DEF Replace
  <2>2. RosterInv' /\ AnsweredPrinted'
    BY <2>1, <1>1, RosterKept, AnswersKept DEF roster, Printed
  <2> QED  BY <2>1, <2>2, <1>6, ReplaceKeepsTeams, ReplaceArranges
<1>7. CASE PairingNext
  <2>1. CASE \E m \in Matches, side \in Sides, g \in Golfers : Replace(m, side, g) /\ UNCHANGED requests
    <3>1. UNCHANGED requests /\ TeamsInv' /\ StrokesInv' /\ RosterInv' /\ AnsweredPrinted' /\ scope' = scope
      BY <2>1, <1>6
    <3> QED  BY <3>1, <1>1, <1>3 DEF MatchupsInv, RequestsTyped
  <2>2. CASE \E p \in Pairings, w \in Weeks, home, away \in Teams :
                 /\ GeneratePairing(p, w, home, away)
                 /\ place' = [place EXCEPT ![p] = w]
                 /\ teams' = [teams EXCEPT ![p] = [home |-> home, away |-> away]]
                 /\ place[p] = 0 \/ (place[p] = w /\ teams[p] = [home |-> home, away |-> away])
    <3>1. PICK p \in Pairings, w \in Weeks, home \in Teams, away \in Teams :
                 /\ GeneratePairing(p, w, home, away)
                 /\ place' = [place EXCEPT ![p] = w]
                 /\ teams' = [teams EXCEPT ![p] = [home |-> home, away |-> away]]
                 /\ place[p] = 0 \/ (place[p] = w /\ teams[p] = [home |-> home, away |-> away])
      BY <2>2
    <3>2. TeamsInv' /\ StrokesInv'
      BY <3>1, GenerateKeepsTeams, GenerateArranges
    <3>3. UNCHANGED <<roster, weeks, requests, scope>>
      BY <3>1 DEF GeneratePairing
    <3>4. RosterInv' /\ AnsweredPrinted'
      BY <3>3, <1>1, RosterKept, AnswersKept DEF roster, Printed
    <3> QED  BY <3>2, <3>3, <3>4, <1>1, <1>3 DEF MatchupsInv, RequestsTyped
  <2> QED  BY <2>1, <2>2, <1>7, PairingSteps
<1>8. CASE RequestNext
  <2>1. RequestsTyped'
    BY <1>1, <1>8, RequestsStayTyped
  <2>2. CASE \E m \in Matches, side \in Sides, g \in Golfers : Replace(m, side, g)
    <3>1. TeamsInv' /\ StrokesInv' /\ RosterInv' /\ AnsweredPrinted' /\ scope' = scope
      BY <2>2, <1>6
    <3> QED  BY <2>1, <3>1, <1>1, <1>3 DEF MatchupsInv
  <2>3. CASE UNCHANGED <<vars, roster, teams, manual, subs, strokes, scope>>
    <3>1. UNCHANGED <<weeks, place, plays, snaps, answers>>
      BY <2>3 DEF vars, roster
    <3>2. TeamsInv' /\ StrokesInv' /\ RosterInv' /\ AnsweredPrinted'
      BY <2>3, <3>1, <1>1, TeamsKept, StrokesKept, RosterKept, AnswersKept DEF Printed
    <3> QED  BY <2>1, <2>3, <3>2, <1>1, <1>3 DEF MatchupsInv
  <2> QED  BY <2>2, <2>3, <1>8, RequestSteps
<1>9. CASE RosterNext
  <2>1. UNCHANGED vars /\ UNCHANGED detail
    BY <1>9 DEF RosterNext, TeamNext, ParticipantsNext, SaveTeam, AssignPositions, AddOverride,
                UpdateOverride, SaveSeasonGolfers, ChangeActive, ChangeStatus, Answer
  <2>2. RosterInv'
    BY <1>1, <1>9, RosterStepKeeps
  <2>3. UNCHANGED <<weeks, place, plays, snaps, teams, manual, subs, strokes, requests, scope>>
    BY <2>1 DEF vars, detail
  <2>4. TeamsInv' /\ StrokesInv' /\ RequestsTyped' /\ scope' \in Scopes
    BY <2>3, <1>1, TeamsKept, StrokesKept DEF RequestsTyped
  <2>5. AnsweredPrinted'
    <3>1. CASE answers' = answers
      BY <3>1, <2>3, <1>1, AnswersKept DEF Printed
    <3>2. CASE \E w \in Weeks, g \in scope.golfers : Answer(w, g)
      <4>1. PICK w \in Weeks, g \in scope.golfers : Answer(w, g)
        BY <3>2
      <4>2. w \in Printed /\ answers' = [answers EXCEPT ![w] = @ \cup {g}]
        BY <4>1 DEF Answer
      <4>3. answers \in [Weeks -> SUBSET Golfers]
        BY <1>1 DEF RosterInv, RosterTypeOK
      <4> QED  BY <4>2, <4>3, <2>3, <1>1 DEF AnsweredPrinted, Printed
    <3> QED
      BY <3>1, <3>2, <1>9 DEF RosterNext, TeamNext, ParticipantsNext, SaveTeam, AssignPositions,
         AddOverride, UpdateOverride, SaveSeasonGolfers, ChangeActive, ChangeStatus
  <2> QED  BY <2>2, <2>4, <2>5, <1>3 DEF MatchupsInv
<1>10. CASE HandicapNext
  <2>1. PICK w \in Weeks : Reseed(w)
    BY <1>10 DEF HandicapNext
  <2>2. /\ UNCHANGED vars /\ UNCHANGED <<roster, teams, manual, subs, requests, scope>>
        /\ StrokesInv'
    BY <2>1, ReseedLeavesSnapshots
  <2>3. UNCHANGED <<weeks, place, plays, answers>>
    BY <2>2 DEF vars, roster
  <2>4. TeamsInv' /\ RosterInv' /\ AnsweredPrinted'
    BY <2>2, <2>3, <1>1, TeamsKept, RosterKept, AnswersKept DEF Printed
  <2> QED  BY <2>2, <2>4, <1>1, <1>3 DEF MatchupsInv, RequestsTyped
<1>11. CASE UNCHANGED allVars
  <2>1. UNCHANGED <<weeks, place, plays, snaps, roster, teams, manual, subs, strokes, requests, scope, answers>>
    BY <1>11 DEF allVars, vars, detail, roster
  <2>2. TeamsInv' /\ StrokesInv' /\ RosterInv' /\ AnsweredPrinted'
    BY <2>1, <1>1, TeamsKept, StrokesKept, RosterKept, AnswersKept DEF Printed
  <2> QED  BY <2>1, <2>2, <1>1, <1>3 DEF MatchupsInv, RequestsTyped
<1> QED  BY <1>4, <1>5, <1>7, <1>8, <1>9, <1>10, <1>11 DEF MatchupsNext

LEMMA MatchupsInvariance == MatchupsSpec => []MatchupsInv
BY MatchupsInvInit, MatchupsInvNext, PTL DEF MatchupsSpec

\* Whatever is paired, replaced, asked, moved and edited, the tables keep their shape.
THEOREM MatchupsTypeCorrect == MatchupsSpec => []MatchupsTypeOK
<1>1. MatchupsInv => MatchupsTypeOK
  BY DEF MatchupsInv, MatchupsTypeOK, RosterInv, TeamsInv, TeamsTyped, AdjustedPlayed, StrokesInv,
         RequestsTyped
<1> QED  BY <1>1, MatchupsInvariance, PTL

\* A team plays once a week and a substitute on one side, every snapshot has its
\* strokes, teams and the season's golfers agree and answers are for weeks there are.
THEOREM MatchupsStayRight == MatchupsSpec => []MatchupsHold
<1>1. MatchupsInv => MatchupsHold
  BY DEF MatchupsInv, MatchupsHold, RosterInv, TeamsInv, StrokesInv
<1> QED  BY <1>1, MatchupsInvariance, PTL

\* The matchups in detail implement the schedule: pairing, generating and replacing
\* are arrangements of it, re-seeding and asking leave it alone.
THEOREM MatchupsAreSchedule == MatchupsSpec => IsSchedule
<1>1. MatchupsInit => Init
  BY DEF MatchupsInit
<1> QED  BY <1>1, MatchupsInvariance, StepsAllowed, PTL DEF MatchupsSpec, IsSchedule

\* So what is proved of the schedule holds of the matchups in detail: played weeks
\* keep together, dates apart, and scores hold their weeks.
THEOREM MatchupsPlayedTogether ==
    MatchupsSpec => []PlayedTogether /\ ScoresHoldTheWeek /\ ConfirmedAsShown
BY MatchupsAreSchedule, ScheduleAllows, StaysTogether, ScoresHold, ConfirmsAsShown, PTL


-----------------------------------------------------------------------------
(* What a single step may do to golfers, strokes and requests.              *)

\* Generating only brings in golfers who are active, on the season's roster and in
\* one of its teams when it happens.
LEMMA GenerateFromRoster ==
    ASSUME MatchupsInv, NEW p \in Pairings, NEW w \in Weeks, NEW home \in Teams, NEW away \in Teams,
           GeneratePairing(p, w, home, away),
           place' = [place EXCEPT ![p] = w],
           teams' = [teams EXCEPT ![p] = [home |-> home, away |-> away]],
           place[p] = 0 \/ (place[p] = w /\ teams[p] = [home |-> home, away |-> away])
    PROVE  \A m \in Matches, s \in Sides : FromRoster(m, s)
<1> DEFINE lineup == Lineup(p, home, away)
           joining == {lineup[l][side] : l \in {k \in Shape(home, away) : <<p, k>> \notin manual},
                                         side \in Sides}
<1>1. /\ Open(w) /\ Ready
      /\ \A l \in Shape(home, away) : <<p, l>> \in scored => lineup[l] = plays[<<p, l>>]
      /\ plays' = [m \in Matches |-> IF m[1] = p THEN lineup[m[2]] ELSE plays[m]]
      /\ joining \subseteq included
      /\ Ensure(w, joining)
      /\ UNCHANGED <<weeks, season, scored, locked, tabs>>
  BY SMTT(30) DEF GeneratePairing
<1>2. manual' = manual
  BY DEF GeneratePairing
<1>3. /\ \A l \in Labels : plays'[<<p, l>>] = lineup[l]
      /\ \A m \in Matches : m[1] # p => plays'[m] = plays[m]
  BY GenerateArranges
<1>4. \A l \in Shape(home, away), side \in Sides :
         <<p, l>> \notin manual => lineup[l][side] \in joining
  OBVIOUS
<1> HIDE DEF joining
<1>5. \A g \in joining : g \in active
  BY <1>1 DEF Ensure
<1> SUFFICES ASSUME NEW m \in Matches, NEW s \in Sides PROVE FromRoster(m, s)
  OBVIOUS
<1>6. CASE m[1] # p
  BY <1>6, <1>3 DEF FromRoster
<1>7. CASE m[1] = p
  <2>1. PICK l \in Labels : m = <<p, l>>
    BY <1>7 DEF Matches
  <2>2. plays'[m] = lineup[l]
    BY <2>1, <1>3
  <2>3. CASE l \notin Shape(home, away)
    <3>1. lineup[l] = NoMatch
      BY <2>3, <1>1, LineupPlays
    <3> QED  BY <3>1, <2>2 DEF FromRoster, NoMatch
  <2>4. CASE l \in Shape(home, away) /\ m \notin manual
    <3>1. lineup[l][s] \in TeamGolfers
      BY <2>4, <2>1, <1>1, LineupPlays
    <3> QED  BY <3>1, <2>1, <2>2, <2>4, <1>2, <1>1, <1>5, <1>4 DEF FromRoster
  <2> QED  BY <2>3, <2>4, <1>2 DEF FromRoster
<1> QED  BY <1>6, <1>7

StepAdjusts ==
    /\ \A m \in manual : GolfersStay(m)
    /\ \A m \in Matches, side \in Sides : FromRoster(m, side)
    /\ \A w \in Weeks : \A g \in Snapped(w) : StrokesStay(w, g)

\* A step that leaves plays, adjustments and the strokes of golfers with a
\* snapshot alone breaks nothing.
LEMMA LeftAlone ==
    ASSUME plays' = plays, manual' = manual,
           \A w \in Weeks : \A g \in Snapped(w) : StrokesStay(w, g)
    PROVE  StepAdjusts
BY DEF StepAdjusts, GolfersStay, FromRoster

LEMMA ReplaceAdjusts ==
    ASSUME MatchupsInv, NEW m \in Matches, NEW side \in Sides, NEW g \in Golfers, Replace(m, side, g)
    PROVE  StepAdjusts
<1>1. /\ plays' = [plays EXCEPT ![m] = [plays[m] EXCEPT ![side] = g]]
      /\ g \notin TeamGolfers /\ ~PlaysIn(place[m[1]], g)
      /\ manual' = manual \cup {m}
      /\ \A v \in Weeks : \A h \in Snapped(v) : strokes'[v][h] = strokes[v][h]
  BY ReplaceArranges
<1>2. plays \in [Matches -> PlayedBy]
  BY DEF MatchupsInv, Inv, Typed, TypeOK
<1>3. plays'[m] = [plays[m] EXCEPT ![side] = g] /\ \A n \in Matches : n # m => plays'[n] = plays[n]
  BY <1>1, <1>2
<1>4. manual \subseteq Matches
  BY DEF MatchupsInv, TeamsInv, AdjustedPlayed
<1>5. \A n \in manual : GolfersStay(n)
  BY <1>1, <1>3, <1>4 DEF GolfersStay
<1>6. \A n \in Matches, s \in Sides : FromRoster(n, s)
  BY <1>1, <1>3 DEF FromRoster
<1>7. \A w \in Weeks : \A h \in Snapped(w) : StrokesStay(w, h)
  BY <1>1 DEF StrokesStay
<1> QED  BY <1>5, <1>6, <1>7 DEF StepAdjusts

LEMMA StepsAdjust == MatchupsInv /\ [MatchupsNext]_allVars => StepAdjusts \/ UNCHANGED allVars
<1> SUFFICES ASSUME MatchupsInv, MatchupsNext PROVE StepAdjusts
  OBVIOUS
<1>1. CASE ScheduleNext
  <2>1. UNCHANGED detail /\ (FormNext \/ ConfirmNext \/ SeasonNext \/ ScoreNext)
    BY <1>1 DEF ScheduleNext
  <2>2. plays' = plays
    BY <2>1, ScheduleLeavesMatches DEF MatchupsInv
  <2> QED  BY <2>1, <2>2, LeftAlone DEF detail, StrokesStay
<1>2. CASE MoveToRainDate
  <2>1. /\ plays' = plays /\ manual' = manual
        /\ \A w \in Weeks : \A g \in Snapped(w) : strokes'[w][g] # strokes[w][g] =>
              \E v \in Weeks : weeks'[v].makeup = w /\ strokes'[v][g] = strokes[w][g]
    BY <1>2, RainKeeps
  <2> QED  BY <2>1, LeftAlone DEF StrokesStay
<1>3. CASE PairingNext
  <2>1. ASSUME NEW p \in Pairings, NEW w \in Weeks, NEW home \in Teams, NEW away \in Teams,
               GeneratePairing(p, w, home, away),
               place' = [place EXCEPT ![p] = w],
               teams' = [teams EXCEPT ![p] = [home |-> home, away |-> away]],
               place[p] = 0 \/ (place[p] = w /\ teams[p] = [home |-> home, away |-> away])
        PROVE  StepAdjusts
    <3>1. /\ \A m \in manual : plays'[m] = plays[m]
          /\ \A l \in Labels : plays'[<<p, l>>] = Lineup(p, home, away)[l]
          /\ \A m \in Matches : m[1] # p => plays'[m] = plays[m]
          /\ \A v \in Weeks : \A g \in Snapped(v) : strokes'[v][g] = strokes[v][g]
      BY <2>1, GenerateArranges
    <3>2. manual' = manual
      BY <2>1 DEF GeneratePairing
    <3>3. \A m \in Matches, side \in Sides : FromRoster(m, side)
      BY <2>1, <3>1, GenerateFromRoster
    <3> QED  BY <3>1, <3>2, <3>3 DEF StepAdjusts, GolfersStay, StrokesStay
  <2> QED  BY <1>3, <2>1, PairingSteps, ReplaceAdjusts
<1>4. CASE RequestNext
  <2>1. CASE UNCHANGED <<vars, roster, teams, manual, subs, strokes, scope>>
    <3>1. plays' = plays /\ manual' = manual /\ strokes' = strokes
      BY <2>1 DEF vars, held
    <3> QED  BY <3>1, LeftAlone DEF StrokesStay
  <2> QED  BY <1>4, <2>1, RequestSteps, ReplaceAdjusts
<1>5. CASE RosterNext
  <2>1. UNCHANGED vars /\ UNCHANGED detail
    BY <1>5 DEF RosterNext, TeamNext, ParticipantsNext, SaveTeam, AssignPositions, AddOverride,
                UpdateOverride, SaveSeasonGolfers, ChangeActive, ChangeStatus, Answer
  <2>2. plays' = plays
    BY <2>1 DEF vars, held
  <2> QED  BY <2>1, <2>2, LeftAlone DEF detail, StrokesStay
<1>6. CASE HandicapNext
  <2>1. PICK w \in Weeks : Reseed(w)
    BY <1>6 DEF HandicapNext
  <2>2. /\ plays' = plays /\ manual' = manual
        /\ \A v \in Weeks, g \in Golfers : strokes'[v][g] # strokes[v][g] =>
              v = w /\ g \notin Adjusted(w) /\ strokes'[v][g] = Effective(g)
    BY <2>1, ReseedLeavesSnapshots DEF Reseed
  <2>3. \A v \in Weeks : Snapped(v) \subseteq Golfers
    BY DEF Snapped
  <2> QED  BY <2>2, <2>3, LeftAlone DEF StrokesStay
<1> QED  BY <1>1, <1>2, <1>3, <1>4, <1>5, <1>6 DEF MatchupsNext

\* Adjusted matches keep their golfers through every regeneration, only golfers of
\* the season's teams come in otherwise, and strokes stay as they were taken.
THEOREM AdjustmentsHold == MatchupsSpec => AdjustmentsStay
<1>1. MatchupsInv /\ [MatchupsNext]_allVars => [StepAdjusts]_allVars
  BY StepsAdjust
<1>2. MatchupsSpec => [][StepAdjusts]_allVars
  BY <1>1, MatchupsInvariance, PTL DEF MatchupsSpec
<1> QED  BY <1>2 DEF AdjustmentsStay, StepAdjusts


StepAnswers(m) ==
    requests'[m].status \in {"fulfilled", "declined"} /\ requests'[m] # requests[m] =>
       /\ requests[m].status = "pending"
       /\ m \notin locked
       /\ requests'[m].status = "fulfilled" =>
             \E side \in Sides :
                /\ plays[m][side] = requests[m].golfer
                /\ <<m, side>> \in subs'
                /\ plays'[m] # plays[m] => m \notin scored

\* Only the request of one match changes, and the steps that leave an answer need
\* one that is pending, and replace the golfer who asked or find that done.
LEMMA RequestAnswers ==
    ASSUME MatchupsInv, RequestNext
    PROVE  \A m \in Matches : StepAnswers(m)
<1>1. requests \in [Matches -> Request \cup {NoRequest}]
  BY DEF MatchupsInv, RequestsTyped
<1>2. PICK m \in Matches :
         \/ \E g \in Golfers : MakeRequest(m, g) \/ Fulfill(m, g)
         \/ NoticeSent(m) \/ NoticeFailed(m) \/ NoticeLost(m)
         \/ Decline(m)
  BY DEF RequestNext
<1>3. ASSUME NEW r, requests' = [requests EXCEPT ![m] = r], StepAnswers(m)
      PROVE  \A n \in Matches : StepAnswers(n)
  BY <1>1, <1>3 DEF StepAnswers
<1>4. \A r : requests' = [requests EXCEPT ![m] = r] => requests'[m] = r
  BY <1>1
<1>5. ASSUME NEW g \in Golfers, MakeRequest(m, g) PROVE \A n \in Matches : StepAnswers(n)
  <2> DEFINE r == [status |-> "pending", week |-> place[m[1]], golfer |-> g, notice |-> "sending"]
  <2>1. requests' = [requests EXCEPT ![m] = r] /\ r.status = "pending"
    BY <1>5 DEF MakeRequest
  <2> HIDE DEF r
  <2>2. StepAnswers(m)
    BY <2>1, <1>4 DEF StepAnswers
  <2> QED  BY <2>1, <2>2, <1>3
<1>6. ASSUME NEW g \in Golfers, Fulfill(m, g) PROVE \A n \in Matches : StepAnswers(n)
  <2> DEFINE r == [requests[m] EXCEPT !.status = "fulfilled"]
  <2>1. requests' = [requests EXCEPT ![m] = r] /\ Answerable(m)
    BY <1>6 DEF Fulfill
  <2> HIDE DEF r
  <2>2. PICK side \in Sides : /\ plays[m][side] = requests[m].golfer
                              /\ Replace(m, side, g) \/ KeepSubstitute(m, side, g)
    BY <1>6 DEF Fulfill
  <2>3. <<m, side>> \in subs' /\ (plays'[m] # plays[m] => m \notin scored)
    <3>1. CASE Replace(m, side, g)
      BY <3>1, ReplaceArranges
    <3>2. CASE KeepSubstitute(m, side, g)
      BY <3>2 DEF KeepSubstitute, vars, held
    <3> QED  BY <2>2, <3>1, <3>2
  <2>4. StepAnswers(m)
    BY <2>1, <2>2, <2>3 DEF StepAnswers, Answerable
  <2> QED  BY <2>1, <2>4, <1>3
<1>7. CASE Decline(m)
  <2> DEFINE r == [requests[m] EXCEPT !.status = "declined"]
  <2>1. requests' = [requests EXCEPT ![m] = r] /\ Answerable(m)
    BY <1>7 DEF Decline
  <2>2. r.status = "declined"
    BY <2>1, <1>1 DEF Answerable, Request, NoRequest
  <2> HIDE DEF r
  <2>3. StepAnswers(m)
    BY <2>1, <2>2, <1>4 DEF StepAnswers, Answerable
  <2> QED  BY <2>1, <2>3, <1>3
<1>8. CASE NoticeSent(m) \/ NoticeLost(m)
  <2>1. PICK n \in {"sent", "lost"} : requests' = [requests EXCEPT ![m].notice = n]
    BY <1>8 DEF NoticeSent, NoticeLost
  <2>2. requests[m].status = "pending"
    BY <1>8 DEF NoticeSent, NoticeLost, MatchupsInv, RequestsTyped
  <2>3. [requests[m] EXCEPT !.notice = n].status = "pending"
    BY <2>2, <1>1 DEF Request, NoRequest
  <2> DEFINE r == [requests[m] EXCEPT !.notice = n]
  <2>4. requests' = [requests EXCEPT ![m] = r] /\ r.status = "pending"
    BY <2>1, <2>3
  <2> HIDE DEF r
  <2>5. StepAnswers(m)
    BY <2>4, <1>4 DEF StepAnswers
  <2> QED  BY <2>4, <2>5, <1>3
<1>9. CASE NoticeFailed(m)
  <2>1. requests' = [requests EXCEPT ![m] = NoRequest]
    BY <1>9 DEF NoticeFailed
  <2>2. StepAnswers(m)
    BY <2>1, <1>4 DEF StepAnswers, NoRequest
  <2> QED  BY <2>1, <2>2, <1>3
<1> QED  BY <1>2, <1>5, <1>6, <1>7, <1>8, <1>9

LEMMA StepsAnswer == MatchupsInv /\ [MatchupsNext]_allVars => \A m \in Matches : StepAnswers(m)
<1> SUFFICES ASSUME MatchupsInv, [MatchupsNext]_allVars PROVE \A m \in Matches : StepAnswers(m)
  OBVIOUS
<1>1. requests' = requests => \A m \in Matches : StepAnswers(m)
  BY DEF StepAnswers
<1>2. CASE ScheduleNext \/ MoveToRainDate \/ HandicapNext \/ RosterNext \/ UNCHANGED allVars
  BY <1>1, <1>2 DEF ScheduleNext, MoveToRainDate, HandicapNext, Reseed, RosterNext, detail, allVars
<1>3. CASE PairingNext
  <2>1. ASSUME NEW p \in Pairings, NEW w \in Weeks, NEW home \in Teams, NEW away \in Teams,
               GeneratePairing(p, w, home, away)
        PROVE  requests' = requests
    BY <2>1 DEF GeneratePairing
  <2>2. requests' = requests
    BY <1>3, <2>1, PairingSteps
  <2> QED  BY <2>2, <1>1
<1> QED  BY <1>2, <1>3, RequestAnswers DEF MatchupsNext

\* Whatever order requests, answers, notices, locks and regenerations come in, a
\* request is answered once, and fulfilled only by a substitute in its golfer's place.
THEOREM RequestsFulfilled == MatchupsSpec => FulfilledByReplacement
<1>1. MatchupsSpec => [][\A m \in Matches : StepAnswers(m)]_allVars
  BY StepsAnswer, MatchupsInvariance, PTL DEF MatchupsSpec
<1> QED  BY <1>1 DEF FulfilledByReplacement, StepAnswers
=============================================================================
