---------------------------- MODULE SeasonRoster -----------------------------
(***************************************************************************)
(* Who may play in the season of Weeks: services/season_roster.py includes *)
(* golfers, services/participants.py gives them a tee and a handicap for   *)
(* the season, services/teams.py their team and position, services/        *)
(* roster.py says who is active, and services/rsvp.py keeps who answered   *)
(* for a week.  Each form is one transaction; what one of them checks, the *)
(* others may change before the matches are generated from it.             *)
(***************************************************************************)
EXTENDS Weeks

CONSTANTS
    Teams,
    Positions,     \* positions of a team, 1..4 in the code
    FirstMembers,  \* the teams at the start
    Tees,          \* tee sets of the course
    Strokes,       \* handicap strokes
    OwnSeed,       \* each golfer's own tee and strokes
    Ids            \* golfer ids, which break ties between equal handicaps

Seed == [tee : Tees, strokes : Strokes \cup {NoOne}]
Override == [tee : Tees \cup {NoOne}, strokes : Strokes \cup {NoOne}]
NoOverride == [tee |-> NoOne, strokes |-> NoOne]

ASSUME SeasonRosterAssumption ==
    /\ Positions \subseteq Nat
    /\ Strokes \subseteq Int
    /\ FirstMembers \in [Teams -> [Positions -> Golfers \cup {NoOne}]]
    /\ \A x, y \in Teams \X Positions :   \* one slot for a golfer
          FirstMembers[x[1]][x[2]] = FirstMembers[y[1]][y[2]] /\ FirstMembers[x[1]][x[2]] # NoOne
             => x = y
    /\ OwnSeed \in [Golfers -> [tee : Tees, strokes : Strokes]]
    /\ Ids \in [Golfers -> Nat]
    /\ \A g, h \in Golfers : Ids[g] = Ids[h] => g = h

VARIABLES
    active,     \* golfers with Golfer.is_active set
    included,   \* golfers with a SeasonGolfer row
    overrides,  \* SeasonParticipant.tee_set_id and seed_handicap_strokes
    members,    \* TeamMember.golfer_id by team and position
    underway,   \* whether Season.status is "active"
    answers     \* golfers with a WeekRsvp row, by week

roster == <<active, included, overrides, members, underway, answers>>

-----------------------------------------------------------------------------
MembersOf(team) == {members[team][i] : i \in Positions} \ {NoOne}
TeamGolfers == UNION {MembersOf(team) : team \in Teams}
Ready == \A team \in Teams, i \in Positions : members[team][i] # NoOne

\* The tee and seed handicap of a golfer this season.  A golfer's own handicap
\* was made for their own tee: with another tee and no seed there is none.
Effective(g) ==
    LET o == overrides[g]
    IN  [tee |-> IF o.tee # NoOne THEN o.tee ELSE OwnSeed[g].tee,
         strokes |-> IF o.strokes # NoOne THEN o.strokes
                     ELSE IF o.tee = NoOne THEN OwnSeed[g].strokes ELSE NoOne]
Seeded(g) == Effective(g).strokes # NoOne

-----------------------------------------------------------------------------
(* The season's golfers.                                                    *)

\* Slip: the form's boxes are taken as they are; those of team members are
\* disabled and never posted.
SaveSeasonGolfersPosted(selected) ==
    /\ selected \subseteq active
    /\ included' = selected
    /\ UNCHANGED <<vars, active, overrides, members, underway, answers>>

\* Members of teams stay whatever is posted; others must be active.
SaveSeasonGolfers(selected) ==
    /\ selected \ TeamGolfers \subseteq active
    /\ included' = selected \cup TeamGolfers
    /\ UNCHANGED <<vars, active, overrides, members, underway, answers>>

\* update_golfer: a team member stays active while the season is under way.
ChangeActive(g) ==
    /\ g \in active => ~(underway /\ g \in TeamGolfers)
    /\ active' = IF g \in active THEN active \ {g} ELSE active \cup {g}
    /\ UNCHANGED <<vars, included, overrides, members, underway, answers>>

\* update_season takes any status at any time, and looks at no golfer for it.
ChangeStatus ==
    /\ underway' = ~underway
    /\ UNCHANGED <<vars, active, included, overrides, members, answers>>

AddOverride(g, o) ==
    /\ g \in active
    /\ overrides[g] = NoOverride
    /\ o # NoOverride
    /\ overrides' = [overrides EXCEPT ![g] = o]
    /\ UNCHANGED <<vars, active, included, members, underway, answers>>

\* Each part is kept, set or cleared; nothing left deletes the row.
UpdateOverride(g, o) ==
    /\ g \in active
    /\ overrides[g] # NoOverride
    /\ overrides' = [overrides EXCEPT ![g] = o]
    /\ UNCHANGED <<vars, active, included, members, underway, answers>>

-----------------------------------------------------------------------------
(* Teams.                                                                   *)

\* Slip: another team's members may be taken.
MayJoinAny(team, g) == g \in active \cap included /\ Seeded(g)

MayJoin(team, g) ==
    /\ g \in active \cap included
    /\ Seeded(g)
    /\ g \notin UNION {MembersOf(other) : other \in Teams \ {team}}

\* save_team replaces a team's arrangement, whatever matches it has.
SaveTeam(team, arrangement) ==
    LET joining == {arrangement[i] : i \in Positions} \ {NoOne}
    IN  /\ joining # {}
        /\ \A i, j \in Positions :
              arrangement[i] = arrangement[j] /\ arrangement[i] # NoOne => i = j
        /\ \A g \in joining : MayJoin(team, g)
        /\ members' = [members EXCEPT ![team] = arrangement]
        /\ UNCHANGED <<vars, active, included, overrides, underway, answers>>

Before(g, h) ==
    \/ Effective(g).strokes < Effective(h).strokes
    \/ Effective(g).strokes = Effective(h).strokes /\ Ids[g] < Ids[h]

\* order_members_by_seed: positions from 1 by handicap, then id, without gaps.
BySeed(team) ==
    LET earlier(g) == {h \in MembersOf(team) : Before(h, g)}
    IN  [i \in Positions |->
            IF \E g \in MembersOf(team) : Cardinality(earlier(g)) = i - 1
            THEN CHOOSE g \in MembersOf(team) : Cardinality(earlier(g)) = i - 1
            ELSE NoOne]

AssignPositions(team) ==
    /\ MembersOf(team) # {}
    /\ \A g \in MembersOf(team) : g \in active /\ Seeded(g)
    /\ members' = [members EXCEPT ![team] = BySeed(team)]
    /\ UNCHANGED <<vars, active, included, overrides, underway, answers>>

-----------------------------------------------------------------------------
\* set_rsvp: an answer can be changed, never taken back.
Answer(w, g) ==
    /\ w \in Printed
    /\ answers' = [answers EXCEPT ![w] = @ \cup {g}]
    /\ UNCHANGED <<vars, active, included, overrides, members, underway>>

RosterInit ==
    /\ active = Golfers
    /\ included = Golfers
    /\ overrides = [g \in Golfers |-> NoOverride]
    /\ members = FirstMembers
    /\ underway = FALSE
    /\ answers = [w \in Weeks |-> {}]

-----------------------------------------------------------------------------
(* Properties.                                                              *)

RosterTypeOK ==
    /\ active \subseteq Golfers
    /\ included \subseteq Golfers
    /\ overrides \in [Golfers -> Override]
    /\ members \in [Teams -> [Positions -> Golfers \cup {NoOne}]]
    /\ underway \in BOOLEAN
    /\ answers \in [Weeks -> SUBSET Golfers]

\* "Team membership always implies season inclusion" (season_roster.py:54); a
\* golfer has one slot in the season's teams.
OneSlotIncluded ==
    /\ TeamGolfers \subseteq included
    /\ \A x, y \in Teams \X Positions :
          members[x[1]][x[2]] = members[y[1]][y[2]] /\ members[x[1]][x[2]] # NoOne => x = y
=============================================================================
