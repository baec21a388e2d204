------------------------------- MODULE Matchups -------------------------------
(***************************************************************************)
(* The matches of the weeks in detail: services/matchups.py pairs teams    *)
(* and generates their player matches, services/handicaps.py snapshots     *)
(* each golfer's strokes for the week, services/substitute_requests.py     *)
(* lets a golfer ask to be replaced.  The weeks, with their forms, rain    *)
(* dates and scores, are those of Weeks; who may play in them, and with    *)
(* which handicap, is what SeasonRoster says at the moment of a step.      *)
(***************************************************************************)
EXTENDS SeasonRoster

CONSTANT Scopes   \* bound: what a behaviour changes, and with what

\* A slot is named by the two positions that meet in it: a team against itself
\* plays 1 against 2 and 3 against 4, other teams play position by position.
Shape(home, away) ==
    IF home = away THEN {<<i, i + 1>> : i \in {j \in Positions : j % 2 = 1}}
                   ELSE {<<i, i>> : i \in Positions}

NoRequest == [status |-> "none", week |-> 0, golfer |-> NoOne, notice |-> "none"]
Request == [status : {"pending", "fulfilled", "declined"}, week : Weeks,
            golfer : Golfers, notice : {"sending", "sent", "lost"}]

ASSUME MatchupsAssumption ==
    /\ NoOne \notin Teams
    /\ \E i \in Positions : i % 2 = 1
    /\ \A i \in Positions : i % 2 = 1 => i + 1 \in Positions
    /\ Labels = UNION {Shape(home, away) : home, away \in Teams}
    /\ \A scope \in Scopes :
          /\ scope.teams \subseteq Teams /\ scope.pairings \subseteq Pairings
          /\ scope.changes \subseteq {"rain", "score", "request", "stop", "roster"}
          /\ scope.arrangements \subseteq [Positions -> Golfers \cup {NoOne}]
          /\ scope.selections \subseteq SUBSET Golfers
          /\ scope.golfers \subseteq Golfers /\ scope.overrides \subseteq Override

VARIABLES
    teams,      \* TeamMatch.home_team_id and away_team_id
    manual,     \* player matches with manually_adjusted set
    subs,       \* sides with a_is_sub or b_is_sub set
    strokes,    \* WeekHandicap.tee_set_id and strokes by week and golfer
    requests,   \* SubstituteRequest by match, and where its notice is
    scope       \* which of Scopes this behaviour stays within

detail == <<teams, manual, subs, strokes, requests, scope>>
allVars == <<vars, roster, detail>>

-----------------------------------------------------------------------------
NoSeed == [tee |-> NoOne, strokes |-> NoOne]
NoTeams == [home |-> NoOne, away |-> NoOne]

PlaysIn(w, g) == \E m \in MatchesOf(w), side \in Sides : plays[m][side] = g

\* Slip: the away team is not looked at.
TeamsFreeHome(p, w, home, away) ==
    \A q \in Within(w) \ {p} : home \notin {teams[q].home, teams[q].away}

TeamsFree(p, w, home, away) ==
    \A q \in Within(w) \ {p} : {home, away} \cap {teams[q].home, teams[q].away} = {}

\* Slip: what was adjusted by hand is generated again as well.
LineupOver(p, home, away) ==
    [l \in Labels |->
        IF l \notin Shape(home, away) THEN NoMatch
        ELSE [side \in Sides |-> IF side = "a" THEN members[home][l[1]]
                                               ELSE members[away][l[2]]]]

\* The matches of a pairing as the teams are now; adjusted ones stay.
Lineup(p, home, away) ==
    [l \in Labels |->
        IF l \notin Shape(home, away) THEN NoMatch
        ELSE IF <<p, l>> \in manual THEN plays[<<p, l>>]
        ELSE [side \in Sides |-> IF side = "a" THEN members[home][l[1]]
                                               ELSE members[away][l[2]]]]

\* Slip: whether a golfer is active and has a handicap is not looked at again.
EnsureUnseeded(w, joining) ==
    LET new == joining \ Snapped(w)
    IN  /\ \A g \in joining \cap Snapped(w) :
              strokes[w][g].tee = Effective(g).tee /\ snaps[w][g] = weeks[w].nine
        /\ snaps' = [snaps EXCEPT ![w] = [g \in Golfers |->
                        IF g \in new THEN weeks[w].nine ELSE snaps[w][g]]]
        /\ strokes' = [strokes EXCEPT ![w] = [g \in Golfers |->
                        IF g \in new THEN Effective(g) ELSE strokes[w][g]]]

\* ensure_week_handicap for each golfer of the set, active and with a handicap:
\* a snapshot that exists is kept when its tee and nine still fit, and refuses
\* the whole step otherwise.
Ensure(w, joining) ==
    LET new == joining \ Snapped(w)
    IN  /\ \A g \in joining : g \in active /\ Seeded(g)
        /\ \A g \in joining \cap Snapped(w) :
              strokes[w][g].tee = Effective(g).tee /\ snaps[w][g] = weeks[w].nine
        /\ snaps' = [snaps EXCEPT ![w] = [g \in Golfers |->
                        IF g \in new THEN weeks[w].nine ELSE snaps[w][g]]]
        /\ strokes' = [strokes EXCEPT ![w] = [g \in Golfers |->
                        IF g \in new THEN Effective(g) ELSE strokes[w][g]]]

-----------------------------------------------------------------------------
(* Pairing and generating.                                                  *)

\* Every slot that was not adjusted gets the teams' golfers of today; a scored
\* match may not change by it; only those golfers' snapshots are ensured.
GeneratePairing(p, w, home, away) ==
    LET lineup == Lineup(p, home, away)
        joining == {lineup[l][side] : l \in {k \in Shape(home, away) : <<p, k>> \notin manual},
                                      side \in Sides}
    IN  /\ Open(w)
        /\ Ready
        /\ TeamsFree(p, w, home, away)
        /\ \A l \in Shape(home, away) : <<p, l>> \in scored => lineup[l] = plays[<<p, l>>]
        /\ plays' = [m \in Matches |-> IF m[1] = p THEN lineup[m[2]] ELSE plays[m]]
        /\ joining \subseteq included
        /\ Ensure(w, joining)
        /\ UNCHANGED <<weeks, season, scored, locked, tabs, roster,
                       manual, subs, requests, scope>>

CreatePairing(p, w, home, away) ==
    /\ place[p] = 0
    /\ place' = [place EXCEPT ![p] = w]
    /\ teams' = [teams EXCEPT ![p] = [home |-> home, away |-> away]]
    /\ GeneratePairing(p, w, home, away)

Regenerate(p) ==
    /\ place[p] # 0
    /\ GeneratePairing(p, place[p], teams[p].home, teams[p].away)
    /\ UNCHANGED <<place, teams>>

-----------------------------------------------------------------------------
(* Substitutions.                                                           *)

\* Slip: the other matches of the week are not looked at.
MaySubstituteAgain(m, g) ==
    /\ Open(place[m[1]])
    /\ m \notin scored
    /\ g \notin TeamGolfers

\* Slip: scores do not hold the golfers.
MaySubstituteScored(m, g) ==
    /\ Open(place[m[1]])
    /\ g \notin TeamGolfers
    /\ ~PlaysIn(place[m[1]], g)

\* An unscored match of a scheduled match week, and a golfer who has no team
\* slot this season and does not play that week.
MaySubstitute(m, g) ==
    /\ Open(place[m[1]])
    /\ m \notin scored
    /\ g \notin TeamGolfers
    /\ ~PlaysIn(place[m[1]], g)

\* Slip: the match is not marked as adjusted.
ReplaceUnmarked(m, side, g) ==
    /\ plays[m] # NoMatch
    /\ MaySubstitute(m, g)
    /\ Ensure(place[m[1]], {g})
    /\ plays' = [plays EXCEPT ![m][side] = g]
    /\ subs' = subs \cup {<<m, side>>}
    /\ UNCHANGED <<weeks, season, place, scored, locked, tabs, roster, teams, manual, scope>>

Replace(m, side, g) ==
    /\ plays[m] # NoMatch
    /\ MaySubstitute(m, g)
    /\ Ensure(place[m[1]], {g})
    /\ plays' = [plays EXCEPT ![m][side] = g]
    /\ manual' = manual \cup {m}
    /\ subs' = subs \cup {<<m, side>>}
    /\ UNCHANGED <<weeks, season, place, scored, locked, tabs, roster, teams, scope>>

Substitute(m, side, g) == Replace(m, side, g) /\ UNCHANGED requests

-----------------------------------------------------------------------------
(* Substitute requests.                                                     *)

\* create_request: one request per match, answered or not.
MakeRequest(m, g) ==
    /\ "request" \in scope.changes
    /\ \E side \in Sides : plays[m][side] = g
    /\ Open(place[m[1]])
    /\ m \notin locked
    /\ requests[m] = NoRequest
    /\ requests' = [requests EXCEPT ![m] =
          [status |-> "pending", week |-> place[m[1]], golfer |-> g, notice |-> "sending"]]
    /\ UNCHANGED <<vars, roster, teams, manual, subs, strokes, scope>>

\* The notice carries the token without which nobody can answer.  It is sent
\* after the request is committed; a request that reached nobody is removed.
NoticeSent(m) ==
    /\ requests[m].notice = "sending"
    /\ requests' = [requests EXCEPT ![m].notice = "sent"]
    /\ UNCHANGED <<vars, roster, teams, manual, subs, strokes, scope>>

NoticeFailed(m) ==
    /\ requests[m].notice = "sending"
    /\ requests' = [requests EXCEPT ![m] = NoRequest]
    /\ UNCHANGED <<vars, roster, teams, manual, subs, strokes, scope>>

\* The process stops before the mail server answered.
NoticeLost(m) ==
    /\ "stop" \in scope.changes
    /\ requests[m].notice = "sending"
    /\ requests' = [requests EXCEPT ![m].notice = "lost"]
    /\ UNCHANGED <<vars, roster, teams, manual, subs, strokes, scope>>

\* Slip: an answered request is answered again.
AnswerableTwice(m) ==
    /\ requests[m] # NoRequest
    /\ requests[m].notice = "sent"
    /\ requests[m].week = place[m[1]]
    /\ Open(place[m[1]])
    /\ m \notin locked

Answerable(m) ==
    /\ requests[m].status = "pending"
    /\ requests[m].notice = "sent"
    /\ requests[m].week = place[m[1]]
    /\ Open(place[m[1]])
    /\ m \notin locked

\* The substitute who plays there already is accepted as the substitute.
KeepSubstitute(m, side, g) ==
    /\ plays[m][side] = g
    /\ <<m, side>> \in subs
    /\ UNCHANGED <<vars, roster, teams, manual, subs, strokes, scope>>

Fulfill(m, g) ==
    /\ Answerable(m)
    /\ \E side \in Sides :
          /\ plays[m][side] = requests[m].golfer
          /\ Replace(m, side, g) \/ KeepSubstitute(m, side, g)
    /\ requests' = [requests EXCEPT ![m].status = "fulfilled"]

Decline(m) ==
    /\ Answerable(m)
    /\ requests' = [requests EXCEPT ![m].status = "declined"]
    /\ UNCHANGED <<vars, roster, teams, manual, subs, strokes, scope>>

-----------------------------------------------------------------------------
(* Handicaps of a week.                                                     *)

Adjusted(w) == {g \in Golfers : \E m \in manual \cap MatchesOf(w), side \in Sides : plays[m][side] = g}

\* Slip: a golfer of an adjusted match is re-seeded too.
ReseededAll(w) ==
    {g \in Snapped(w) :
        PlaysIn(w, g) /\ Seeded(g) /\ strokes[w][g].strokes # Effective(g).strokes}

\* reseed_plan: golfers who play, have a snapshot, a seed and no adjusted match,
\* and whose strokes differ from the seed; a changed tee alone does not count.
Reseeded(w) ==
    {g \in Snapped(w) \ Adjusted(w) :
        PlaysIn(w, g) /\ Seeded(g) /\ strokes[w][g].strokes # Effective(g).strokes}

Reseed(w) ==
    /\ Open(w)
    /\ Reseeded(w) # {}
    /\ strokes' = [strokes EXCEPT ![w] = [g \in Golfers |->
                      IF g \in Reseeded(w) THEN Effective(g) ELSE strokes[w][g]]]
    /\ snaps' = [snaps EXCEPT ![w] = [g \in Golfers |->
                      IF g \in Reseeded(w) THEN weeks[w].nine ELSE snaps[w][g]]]
    /\ UNCHANGED <<weeks, season, place, plays, scored, locked, tabs,
                   roster, teams, manual, subs, requests, scope>>

-----------------------------------------------------------------------------
(* The weeks around the matches.                                            *)

\* A rain date moves the snapshots with their strokes.
MoveToRainDate ==
    \E t \in Tabs :
        LET w == tabs[t].week
            to == tabs[t].to
        IN  /\ ConfirmRain(t)
            /\ strokes' = [strokes EXCEPT ![to] = strokes[w],
                                          ![w] = [g \in Golfers |-> NoSeed]]
            /\ UNCHANGED <<roster, teams, manual, subs, requests, scope>>

\* A week that a request or an answer still names cannot be deleted: the
\* foreign key refuses.
ScheduleNext ==
    /\ \/ "rain" \in scope.changes /\ FormNext
       \/ ConfirmNext
       \/ SeasonNext
       \/ "score" \in scope.changes /\ ScoreNext
    /\ \A m \in Matches : requests[m] # NoRequest => weeks'[requests[m].week] # NoWeek
    /\ \A w \in Weeks : answers[w] # {} => weeks'[w] # NoWeek
    /\ UNCHANGED <<roster, detail>>

PairingNext ==
    \/ \E p \in scope.pairings, w \in Weeks, home, away \in scope.teams :
          CreatePairing(p, w, home, away)
    \/ \E p \in Pairings : Regenerate(p)
    \/ \E m \in Matches, side \in Sides, g \in Golfers : Substitute(m, side, g)

RequestNext ==
    \E m \in Matches :
        \/ \E g \in Golfers : MakeRequest(m, g) \/ Fulfill(m, g)
        \/ NoticeSent(m) \/ NoticeFailed(m) \/ NoticeLost(m)
        \/ Decline(m)

TeamNext ==
    \E team \in scope.teams :
        \/ \E arrangement \in scope.arrangements : SaveTeam(team, arrangement)
        \/ "roster" \in scope.changes /\ AssignPositions(team)

ParticipantsNext ==
    \/ \E g \in scope.golfers, o \in scope.overrides : AddOverride(g, o) \/ UpdateOverride(g, o)
    \/ /\ "roster" \in scope.changes
       /\ \E selected \in scope.selections : SaveSeasonGolfers(selected)

RosterNext ==
    /\ \/ TeamNext
       \/ ParticipantsNext
       \/ /\ "roster" \in scope.changes
          /\ \/ \E g \in scope.golfers : ChangeActive(g)
             \/ ChangeStatus
             \/ \E w \in Weeks, g \in scope.golfers : Answer(w, g)
    /\ UNCHANGED detail

HandicapNext == \E w \in Weeks : Reseed(w)

MatchupsInit ==
    /\ Init
    /\ RosterInit
    /\ teams = [p \in Pairings |-> NoTeams]
    /\ manual = {}
    /\ subs = {}
    /\ strokes = [w \in Weeks |-> [g \in Golfers |-> NoSeed]]
    /\ requests = [m \in Matches |-> NoRequest]
    /\ scope \in Scopes

MatchupsNext == ScheduleNext \/ MoveToRainDate \/ PairingNext \/ RequestNext \/ RosterNext \/ HandicapNext

MatchupsSpec == MatchupsInit /\ [][MatchupsNext]_allVars

-----------------------------------------------------------------------------
(* Properties.                                                              *)

MatchupsTypeOK ==
    /\ RosterTypeOK
    /\ teams \in [Pairings -> [home : Teams, away : Teams] \cup {NoTeams}]
    /\ \A p \in Pairings : teams[p] = NoTeams <=> place[p] = 0
    /\ manual \subseteq {m \in Matches : plays[m] # NoMatch}
    /\ subs \subseteq manual \X Sides
    /\ strokes \in [Weeks -> [Golfers -> Seed \cup {NoSeed}]]
    /\ requests \in [Matches -> Request \cup {NoRequest}]

OncePerWeek ==
    /\ \A p, q \in Pairings :
          p # q /\ place[p] # 0 /\ place[p] = place[q] =>
             {teams[p].home, teams[p].away} \cap {teams[q].home, teams[q].away} = {}
    /\ \A x, y \in subs :
          place[x[1][1]] = place[y[1][1]] /\ plays[x[1]][x[2]] = plays[y[1]][y[2]] => x = y

StrokesKnown ==
    \A w \in Weeks, g \in Golfers :
        IF snaps[w][g] = "none" THEN strokes[w][g] = NoSeed
                                ELSE strokes[w][g].strokes # NoOne

AnsweredPrinted == \A w \in Weeks : answers[w] # {} => w \in Printed

\* A team plays in one pairing of a week, home or away; "A substitute can replace
\* one player per week" (the substitution page): also when a substitute joins a
\* team or leaves one, matches are generated again, and weeks move.  A snapshot
\* always has its strokes, so placement refuses a golfer whose handicap went
\* missing with another tee (participants.py:211).  Teams and the season's golfers
\* agree, and the weeks people answered for exist.
MatchupsHold ==
    /\ OncePerWeek
    /\ StrokesKnown
    /\ OneSlotIncluded
    /\ AnsweredPrinted

GolfersStay(m) ==
    /\ m \in manual'
    /\ plays'[m] # plays[m] =>
          \E side \in Sides, g \in Golfers \ TeamGolfers :
             plays'[m] = [plays[m] EXCEPT ![side] = g] /\ ~PlaysIn(place[m[1]], g)

StrokesStay(w, g) ==
    strokes'[w][g] # strokes[w][g] =>
       \/ g \notin Adjusted(w) /\ strokes'[w][g] = Effective(g)
       \/ \E v \in Weeks : weeks'[v].makeup = w /\ strokes'[v][g] = strokes[w][g]

\* A golfer who comes into a match without adjustment is active, on the season's
\* roster and in one of its teams at that moment, whatever changed since the team
\* was saved.
FromRoster(m, side) ==
    plays'[m][side] \notin {plays[m][side], NoOne} /\ m \notin manual' =>
        plays'[m][side] \in active \cap included \cap TeamGolfers

\* An adjusted match keeps its golfers through every regeneration; one of them
\* is only replaced by a golfer without a team who did not play that week.
\* Others come into a match as the season's rosters are then.
\* Strokes taken for a week stay: they only change by a re-seed, which spares
\* everyone in an adjusted match, and move with the week to its rain date.
AdjustmentsStay ==
    [][/\ \A m \in manual : GolfersStay(m)
       /\ \A m \in Matches, side \in Sides : FromRoster(m, side)
       /\ \A w \in Weeks : \A g \in Snapped(w) : StrokesStay(w, g)]_allVars

\* A request is answered once, while its match is not locked; a fulfilled one
\* leaves a substitute on the side of the golfer who asked, and no golfer is
\* taken out of a scored match for it.
FulfilledByReplacement ==
    [][\A m \in Matches :
          requests'[m].status \in {"fulfilled", "declined"} /\ requests'[m] # requests[m] =>
             /\ requests[m].status = "pending"
             /\ m \notin locked
             /\ requests'[m].status = "fulfilled" =>
                   \E side \in Sides :
                      /\ plays[m][side] = requests[m].golfer
                      /\ <<m, side>> \in subs'
                      /\ plays'[m] # plays[m] => m \notin scored]_allVars

\* "The league admin will review your request and choose an eligible
\* substitute": a pending request that reached the admin can be answered while
\* its match can be changed at all.
PendingCanBeAnswered ==
    \A m \in Matches :
        /\ requests[m].status = "pending"
        /\ requests[m].notice = "sent"
        /\ Open(place[m[1]])
        /\ m \notin locked
        => Answerable(m)

\* What the matchups do to the weeks is what Weeks allows: each step is one of
\* the schedule's or, for one pairing, the arrangement it leaves behind, so that
\* the schedule's checks rest on nothing else the matchups do.
ArrangedAsLeft(p) ==
    LET sides == [l \in Labels |-> plays'[<<p, l>>]]
    IN  /\ place'[p] \in Weeks
        /\ sides \in [Labels -> PlayedBy]
        /\ Arrange(p, place'[p], sides)

AllowedStep ==
    \/ FormNext \/ ConfirmNext \/ RainNext \/ SeasonNext \/ ScoreNext
    \/ \E p \in Pairings : ArrangedAsLeft(p)

IsSchedule == Init /\ [][AllowedStep]_vars
=============================================================================
