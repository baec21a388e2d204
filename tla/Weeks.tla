-------------------------------- MODULE Weeks --------------------------------
(***************************************************************************)
(* The printed weeks of one season, services/schedule.py: generating,      *)
(* editing, shifting, changing nines, rain dates and deleting, while       *)
(* matches are made and scored in the weeks.  An admin sees a form or a    *)
(* preview first and confirms it later; a confirmation reserves SQLite's   *)
(* writer, checks that what the preview showed is still so, and changes    *)
(* the weeks, their matches and their handicap snapshots in one step.      *)
(***************************************************************************)
EXTENDS Integers, FiniteSets

CONSTANTS
    Weeks,        \* the printed indexes, 1..n
    Pairings,     \* team matches
    Labels,       \* the slots of a team match
    Golfers,
    Proposals,    \* the ways the weeks are generated in this run
    Tabs,         \* the forms and previews admins may have open
    Uses,         \* bound: the ways they are used, each what the admin of every tab does
    Edits,        \* bound: what the edit form is filled with
    SeasonEdits,  \* bound: what the season's form is filled with
    Changes,      \* bound: the other kinds of change that are made
    StartDate,    \* Season.start_date, in weeks
    MaxDate,      \* bound: no week moves beyond it
    NoOne

Nines == {"front", "back"}
Other(nine) == IF nine = "front" THEN "back" ELSE "front"
Sides == {"a", "b"}
Matches == Pairings \X Labels
Dates == 0..MaxDate
Kinds == {"match", "play_with_team", "rain_date"}
Statuses == {"scheduled", "cancelled"}   \* no code ever marks a week played

\* A row of weeks, and a line of the form that generates them.
Row == [date : Dates, nine : Nines \cup {"none"}, kind : Kinds,
        status : Statuses, makeup : Weeks \cup {0}]
NoWeek == [date |-> 0, nine |-> "none", kind |-> "none", status |-> "none", makeup |-> 0]
Line == [kind : Kinds, status : Statuses, makeup : Weeks \cup {0}]

ASSUME WeeksAssumption ==
    /\ Weeks \subseteq Nat \ {0}
    /\ IsFiniteSet(Weeks)
    /\ NoOne \notin Golfers
    /\ MaxDate \in Nat
    /\ StartDate \in Dates
    /\ StartDate + Cardinality(Weeks) - 1 \in Dates
    /\ \A lines \in Proposals : lines \in [DOMAIN lines -> Line]
    /\ Edits \subseteq Line
    /\ SeasonEdits \subseteq [end : Dates, nine : Nines]
    /\ Uses \subseteq [Tabs -> SUBSET {"edit", "shift", "nine", "rain", "lock"}]

VARIABLES
    weeks,      \* rows of weeks by printed index
    season,     \* Season.end_date and first_week_nine
    place,      \* TeamMatch.week_id, 0 for a team match not made yet
    plays,      \* PlayerMatch.a_golfer_id and b_golfer_id
    snaps,      \* WeekHandicap.nine by week and golfer
    scored,     \* player matches with hole scores
    locked,     \* player matches with a lock
    tabs        \* the open forms and previews, and what its admin is kept to

held == <<place, plays, snaps, scored, locked>>
vars == <<weeks, season, place, plays, snaps, scored, locked, tabs>>

-----------------------------------------------------------------------------
(* Reading the schedule.                                                    *)

NoMatch == [side \in Sides |-> NoOne]
PlayedBy == {who \in [Sides -> Golfers] : who["a"] # who["b"]} \cup {NoMatch}
NoTab == [kind |-> "none", week |-> 0, to |-> 0, nine |-> "none", all |-> FALSE,
          date |-> 0, seen |-> NoOne, uses |-> {}]

Printed == {w \in Weeks : weeks[w] # NoWeek}
Open(w) == w \in Printed /\ weeks[w].kind = "match" /\ weeks[w].status = "scheduled"
Within(w) == {p \in Pairings : place[p] = w}
MatchesOf(w) == {m \in Matches : place[m[1]] = w /\ plays[m] # NoMatch}
Snapped(w) == {g \in Golfers : snaps[w][g] # "none"}

\* The weeks reached from w by following makeup links, w included.
Chain(makeup, w) ==
    LET at[k \in 0..Cardinality(Weeks)] ==
            IF k = 0 THEN w ELSE IF at[k - 1] = 0 THEN 0 ELSE makeup[at[k - 1]]
    IN  {at[k] : k \in 0..Cardinality(Weeks)} \ {0}
Makeups == [w \in Weeks |-> weeks[w].makeup]

\* What a page shows, and what its fingerprint is taken of: the week for the
\* edit form, the whole schedule for a shift or a change of nine, and for a
\* rain date the matches and snapshots of both weeks as well.
Seen(kind, w, to) ==
    [end |-> IF kind = "edit" THEN 0 ELSE season.end,
     rows |-> [v \in Weeks |-> IF kind = "edit" /\ v # w THEN NoWeek ELSE weeks[v]],
     held |-> IF kind = "rain"
              THEN {[pairing |-> p, week |-> place[p], sides |-> [l \in Labels |-> plays[<<p, l>>]]] :
                       p \in Within(w) \cup Within(to)}
              ELSE {},
     lines |-> IF kind = "rain"
               THEN {[week |-> x[1], golfer |-> x[2], nine |-> snaps[x[1]][x[2]]] :
                        x \in {y \in {w, to} \X Golfers : snaps[y[1]][y[2]] # "none"}}
               ELSE {}]

\* Slip: the fingerprint of a rain date leaves the matches out.
UpToDateSchedule(tab) ==
    LET now == Seen(tab.kind, tab.week, tab.to)
    IN  tab.seen.rows = now.rows /\ tab.seen.end = now.end

\* Slip: the fingerprint of a change of nine holds the chosen week only.
UpToDateWeek(tab) ==
    LET now == Seen(tab.kind, tab.week, tab.to)
    IN  IF tab.kind = "nine" THEN tab.seen.rows[tab.week] = now.rows[tab.week]
                             ELSE tab.seen = now

\* Slip: the fingerprint of a shift leaves the later weeks out.
UpToDateUpTo(tab) ==
    LET now == Seen(tab.kind, tab.week, tab.to)
    IN  IF tab.kind = "shift" THEN \A v \in Weeks : v <= tab.week => tab.seen.rows[v] = now.rows[v]
                              ELSE tab.seen = now

UpToDate(tab) == tab.seen = Seen(tab.kind, tab.week, tab.to)

-----------------------------------------------------------------------------
(* Generating, editing and deleting weeks.                                  *)

\* commit_generated_weeks: as many lines as the season has weekly dates, nines
\* alternating, no makeup cycle, and no weeks yet.
Generate(lines) ==
    LET first == season.nine
    IN  /\ Printed = {}
        /\ DOMAIN lines = {w \in Weeks : w <= season.end - StartDate + 1}
        /\ Cardinality(DOMAIN lines) = season.end - StartDate + 1
        /\ \A w \in DOMAIN lines :
              LET makeup == [v \in Weeks |-> IF v \in DOMAIN lines THEN lines[v].makeup ELSE 0]
              IN  /\ makeup[w] \in (DOMAIN lines \cup {0}) \ {w}
                  /\ makeup[w] # 0 => w \notin Chain(makeup, makeup[w])
        /\ weeks' = [w \in Weeks |->
              IF w \notin DOMAIN lines THEN NoWeek
              ELSE [date |-> StartDate + w - 1,
                    nine |-> IF lines[w].kind = "rain_date" THEN "none"
                             ELSE IF w % 2 = 1 THEN first ELSE Other(first),
                    kind |-> lines[w].kind,
                    status |-> lines[w].status,
                    makeup |-> lines[w].makeup]]
        /\ UNCHANGED <<season, held, tabs>>

\* update_season keeps dates and first nine while the season has weeks.
EditSeason(end, nine) ==
    /\ Printed = {}
    /\ end >= StartDate
    /\ season' = [end |-> end, nine |-> nine]
    /\ UNCHANGED <<weeks, held, tabs>>

\* The edit form takes any kind its nine allows, any status, and a makeup link
\* whose chain does not come back.  Only a match week is cancelled, and only
\* while no team match is in it.
\* Slip: matches do not hold the week.
CanEditFilled(w, kind, status, makeup) ==
    /\ (kind = "rain_date") <=> (weeks[w].nine = "none")
    /\ status = "cancelled" => weeks[w].kind = "match"
    /\ makeup # 0 => makeup \in Printed /\ w \notin Chain(Makeups, makeup)

\* Slip: only the makeup target itself is compared.
CanEditLoop(w, kind, status, makeup) ==
    /\ (kind = "rain_date") <=> (weeks[w].nine = "none")
    /\ status = "cancelled" => weeks[w].kind = "match" /\ Within(w) = {}
    /\ makeup # 0 => makeup \in Printed /\ makeup # w

CanEdit(w, kind, status, makeup) ==
    /\ (kind = "rain_date") <=> (weeks[w].nine = "none")
    /\ status = "cancelled" => weeks[w].kind = "match" /\ Within(w) = {}
    /\ makeup # 0 => makeup \in Printed /\ w \notin Chain(Makeups, makeup)

EditWeek(t, kind, status, makeup) ==
    LET w == tabs[t].week
    IN  /\ tabs[t].kind = "edit"
        /\ w \in Printed
        /\ UpToDate(tabs[t])
        /\ CanEdit(w, kind, status, makeup)
        /\ weeks' = [weeks EXCEPT ![w].kind = kind, ![w].status = status, ![w].makeup = makeup]
        /\ UNCHANGED <<season, held, tabs>>

DeleteWeek(w) ==
    /\ "delete" \in Changes
    /\ w \in Printed
    /\ Within(w) = {}
    /\ Snapped(w) = {}
    /\ \A v \in Weeks : weeks[v].makeup # w
    /\ weeks' = [weeks EXCEPT ![w] = NoWeek]
    /\ UNCHANGED <<season, held, tabs>>

-----------------------------------------------------------------------------
(* Shifting dates and changing nines.                                       *)

Later(w) == {v \in Printed : v >= w}
Shifted(w, date) == [v \in Later(w) |-> weeks[v].date + date - weeks[w].date]
LastWeek == CHOOSE v \in Printed : \A u \in Printed : u <= v

\* Slip: a shifted week may land on an earlier week's date.
CanShiftOnto(w, date) ==
    /\ w \in Printed
    /\ \A v \in Later(w) : Shifted(w, date)[v] \in Dates
    /\ Shifted(w, date)[LastWeek] \in StartDate..MaxDate

\* The week and all later ones move alike, onto no earlier week's date.
CanShift(w, date) ==
    /\ w \in Printed
    /\ \A v \in Later(w) :
          /\ Shifted(w, date)[v] \in Dates
          /\ \A u \in Printed \ Later(w) : weeks[u].date # Shifted(w, date)[v]
    /\ Shifted(w, date)[LastWeek] \in StartDate..MaxDate

ConfirmShift(t) ==
    LET w == tabs[t].week
        date == tabs[t].date
    IN  /\ tabs[t].kind = "shift"
        /\ CanShift(w, date)
        /\ UpToDate(tabs[t])
        /\ weeks' = [v \in Weeks |-> IF v \in Later(w)
                                     THEN [weeks[v] EXCEPT !.date = Shifted(w, date)[v]]
                                     ELSE weeks[v]]
        /\ season' = IF date = weeks[w].date THEN season
                     ELSE [season EXCEPT !.end = Shifted(w, date)[LastWeek]]
        /\ UNCHANGED <<held, tabs>>

CanChangeNine(w) ==
    w \in Printed /\ weeks[w].status = "scheduled" /\ weeks[w].nine # "none"

\* Slip: a reserved rain date gets a nine like any other week.
RotatedAll(rows, w, nine) ==
    LET turns(v) == Cardinality({u \in Weeks : w <= u /\ u < v /\ rows[u].status = "scheduled"})
    IN  [v \in Weeks |-> IF rows[v].status = "scheduled" /\ v >= w
                         THEN (IF turns(v) % 2 = 0 THEN nine ELSE Other(nine))
                         ELSE rows[v].nine]

\* rotate_nines: from week w on, scheduled weeks with a nine alternate; rain
\* dates keep none and do not advance the turn.
Rotated(rows, w, nine) ==
    LET turning == {u \in Weeks : /\ u >= w
                                  /\ rows[u].status = "scheduled"
                                  /\ rows[u].nine # "none"}
        turns(v) == Cardinality({u \in turning : u < v})
    IN  [v \in Weeks |-> IF v \in turning
                         THEN (IF turns(v) % 2 = 0 THEN nine ELSE Other(nine))
                         ELSE rows[v].nine]

\* preview_nine: the weeks that change, the chosen one alone or all from it on.
NineChanges(rows, w, nine, all) ==
    {v \in Weeks : /\ Rotated(rows, w, nine)[v] # rows[v].nine
                   /\ all \/ v = w}

\* Slip: only the chosen week is looked at for scores.
ScoresAllowFirst(changed, w) == w \in changed => MatchesOf(w) \cap scored = {}

ScoresAllow(changed, w) == \A v \in changed : MatchesOf(v) \cap scored = {}

\* Slip: only the chosen week's snapshots are relabelled.
RelabelFirst(changed, w, rotated) ==
    [v \in Weeks |-> [g \in Golfers |->
        IF v \in changed \cap {w} /\ g \in Snapped(v) THEN rotated[v] ELSE snaps[v][g]]]

Relabel(changed, w, rotated) ==
    [v \in Weeks |-> [g \in Golfers |->
        IF v \in changed /\ g \in Snapped(v) THEN rotated[v] ELSE snaps[v][g]]]

ConfirmNine(t) ==
    LET w == tabs[t].week
        rotated == Rotated(weeks, w, tabs[t].nine)
        changed == NineChanges(weeks, w, tabs[t].nine, tabs[t].all)
    IN  /\ tabs[t].kind = "nine"
        /\ CanChangeNine(w)
        /\ UpToDate(tabs[t])
        /\ ScoresAllow(changed, w)
        /\ weeks' = [v \in Weeks |-> IF v \in changed
                                     THEN [weeks[v] EXCEPT !.nine = rotated[v]]
                                     ELSE weeks[v]]
        /\ snaps' = Relabel(changed, w, rotated)
        /\ UNCHANGED <<season, place, plays, scored, locked, tabs>>

-----------------------------------------------------------------------------
(* Rain dates.                                                              *)

\* A match week, scheduled or cancelled, goes to a later rain date that is not
\* reserved for another week and does not lead back; nothing in the week is
\* scored or locked, and the rain date is empty.
CanRain(w, to) ==
    /\ w \in Printed /\ to \in Printed
    /\ weeks[w].kind = "match"
    /\ weeks[to].kind = "rain_date" /\ to > w
    /\ weeks[to].makeup \in {0, w}
    /\ to \notin Chain(Makeups, w)
    /\ \A v \in Printed \ {to} : weeks[v].makeup # w
    /\ MatchesOf(w) \cap (scored \cup locked) = {}
    /\ Within(to) = {} /\ Snapped(to) = {}

\* A confirmation of a move that was made already changes nothing.
ConfirmRain(t) ==
    LET w == tabs[t].week
        to == tabs[t].to
    IN  /\ tabs[t].kind = "rain"
        /\ CanRain(w, to)
        /\ UpToDate(tabs[t])
        /\ weeks' = [weeks EXCEPT ![w].status = "cancelled",
                                  ![to].kind = "match", ![to].status = "scheduled",
                                  ![to].nine = weeks[w].nine, ![to].makeup = w]
        /\ place' = [p \in Pairings |-> IF place[p] = w THEN to ELSE place[p]]
        /\ snaps' = [v \in Weeks |-> [g \in Golfers |->
              IF v = w THEN "none"
              ELSE IF v = to /\ g \in Snapped(w) THEN weeks[w].nine
              ELSE snaps[v][g]]]
        /\ UNCHANGED <<season, plays, scored, locked, tabs>>

-----------------------------------------------------------------------------
(* Opening a form or a preview.                                             *)

Show(t, tab) ==
    /\ tabs' = [tabs EXCEPT ![t] = [tab EXCEPT !.seen = Seen(tab.kind, tab.week, tab.to),
                                               !.uses = tabs[t].uses]]
    /\ UNCHANGED <<weeks, season, held>>

OpenEdit(t, w) ==
    /\ "edit" \in tabs[t].uses
    /\ w \in Printed
    /\ Show(t, [NoTab EXCEPT !.kind = "edit", !.week = w])

PreviewShift(t, w, date) ==
    /\ "shift" \in tabs[t].uses
    /\ CanShift(w, date)
    /\ Show(t, [NoTab EXCEPT !.kind = "shift", !.week = w, !.date = date])

PreviewNine(t, w, nine, all) ==
    /\ "nine" \in tabs[t].uses
    /\ CanChangeNine(w)
    /\ Show(t, [NoTab EXCEPT !.kind = "nine", !.week = w, !.nine = nine, !.all = all])

PreviewRain(t, w, to) ==
    /\ "rain" \in tabs[t].uses
    /\ CanRain(w, to)
    /\ Show(t, [NoTab EXCEPT !.kind = "rain", !.week = w, !.to = to])

-----------------------------------------------------------------------------
(* What happens to the matches of a week meanwhile.                         *)

\* A team match is made, made again, or a golfer is replaced in it: in a
\* scheduled match week, scored matches keep their golfers, and everyone who
\* plays has a snapshot on the week's nine afterwards.
Arrange(p, w, sides) ==
    LET joined == {g \in Golfers : \E l \in Labels, side \in Sides : sides[l][side] = g}
    IN  /\ place[p] \in {0, w}
        /\ Open(w)
        /\ joined # {}
        /\ \A l \in Labels : <<p, l>> \in scored => sides[l] = plays[<<p, l>>]
        /\ \A g \in joined : snaps[w][g] \in {"none", weeks[w].nine}
        /\ place' = [place EXCEPT ![p] = w]
        /\ plays' = [m \in Matches |-> IF m[1] = p THEN sides[m[2]] ELSE plays[m]]
        /\ snaps' = [snaps EXCEPT ![w] = [g \in Golfers |->
                        IF g \in joined THEN weeks[w].nine ELSE snaps[w][g]]]
        /\ UNCHANGED <<weeks, season, scored, locked, tabs>>

\* Scores are saved in scheduled match weeks and cleared in any.
SaveScores(m) ==
    /\ "score" \in Changes
    /\ place[m[1]] # 0 /\ plays[m] # NoMatch
    /\ Open(place[m[1]])
    /\ m \notin locked
    /\ scored' = scored \cup {m}
    /\ UNCHANGED <<weeks, season, place, plays, snaps, locked, tabs>>

ClearScores(m) ==
    /\ m \in scored \ locked
    /\ scored' = scored \ {m}
    /\ UNCHANGED <<weeks, season, place, plays, snaps, locked, tabs>>

Lock(m) ==
    /\ \E t \in Tabs : "lock" \in tabs[t].uses
    /\ plays[m] # NoMatch
    /\ m \notin locked
    /\ locked' = locked \cup {m}
    /\ UNCHANGED <<weeks, season, place, plays, snaps, scored, tabs>>

Unlock(m) ==
    /\ m \in locked
    /\ locked' = locked \ {m}
    /\ UNCHANGED <<weeks, season, place, plays, snaps, scored, tabs>>

-----------------------------------------------------------------------------
Init ==
    /\ weeks = [w \in Weeks |-> NoWeek]
    /\ season \in [end : {StartDate + Cardinality(Weeks) - 1}, nine : {"front"}]
    /\ place = [p \in Pairings |-> 0]
    /\ plays = [m \in Matches |-> NoMatch]
    /\ snaps = [w \in Weeks |-> [g \in Golfers |-> "none"]]
    /\ scored = {}
    /\ locked = {}
    /\ \E uses \in Uses : tabs = [t \in Tabs |-> [NoTab EXCEPT !.uses = uses[t]]]

FormNext ==
    \E t \in Tabs, w \in Weeks :
        \/ OpenEdit(t, w)
        \/ \E date \in Dates : PreviewShift(t, w, date)
        \/ \E nine \in Nines, all \in BOOLEAN : PreviewNine(t, w, nine, all)
        \/ \E to \in Weeks : PreviewRain(t, w, to)

ConfirmNext ==
    \E t \in Tabs :
        \/ \E edit \in Edits : EditWeek(t, edit.kind, edit.status, edit.makeup)
        \/ ConfirmShift(t)
        \/ ConfirmNine(t)

RainNext == \E t \in Tabs : ConfirmRain(t)

SeasonNext ==
    \/ \E lines \in Proposals : Generate(lines)
    \/ \E edit \in SeasonEdits : EditSeason(edit.end, edit.nine)
    \/ \E w \in Weeks : DeleteWeek(w)

ScoreNext ==
    \E m \in Matches : SaveScores(m) \/ ClearScores(m) \/ Lock(m) \/ Unlock(m)

MatchupNext ==
    \E p \in Pairings, w \in Weeks, sides \in [Labels -> PlayedBy] : Arrange(p, w, sides)

Next == FormNext \/ ConfirmNext \/ RainNext \/ SeasonNext \/ ScoreNext \/ MatchupNext

Spec == Init /\ [][Next]_vars

-----------------------------------------------------------------------------
(* Properties.                                                              *)

\* A row has a nine unless it is reserved as a rain date, as the table's check
\* constraint demands; nothing the schedule does may run into that constraint.
RowOK(row) ==
    \/ row = NoWeek
    \/ row.kind = "rain_date" <=> row.nine = "none"

TypeOK ==
    /\ weeks \in [Weeks -> Row \cup {NoWeek}]
    /\ \A w \in Weeks : RowOK(weeks[w])
    /\ season \in [end : Dates, nine : Nines]
    /\ place \in [Pairings -> Weeks \cup {0}]
    /\ plays \in [Matches -> PlayedBy]
    /\ snaps \in [Weeks -> [Golfers -> Nines \cup {"none"}]]
    /\ scored \subseteq Matches
    /\ locked \subseteq Matches

\* A cancelled week, a reserved rain date and a deleted row hold no match and
\* no snapshot: whatever is played is played in a week that takes place.
CancelledWeeksEmpty ==
    \A w \in Weeks :
        (w \notin Printed \/ weeks[w].status = "cancelled" \/ weeks[w].kind = "rain_date")
            => Within(w) = {} /\ Snapped(w) = {}

\* Following "makeup for" from any week ends: edits, generated rows and rain
\* dates, each with a check of its own, never close a cycle together.
MakeupsEnd ==
    \A w \in Printed :
        /\ weeks[w].makeup \in Printed \cup {0}
        /\ weeks[w].makeup # 0 => w \notin Chain(Makeups, weeks[w].makeup)

\* Everyone who plays in a week has a handicap snapshot there, and it is on the
\* week's nine, after matches are made, golfers replaced, nines changed for one
\* week or all, and weeks moved to rain dates.
SnapshotsFollowMatches ==
    /\ \A w \in Printed : \A g \in Snapped(w) : snaps[w][g] = weeks[w].nine
    /\ \A m \in Matches, side \in Sides :
          plays[m][side] # NoOne =>
             place[m[1]] # 0 /\ plays[m][side] \in Snapped(place[m[1]])

\* What is played stays together: matches and snapshots are in weeks that take
\* place, and in the same ones.
PlayedTogether == CancelledWeeksEmpty /\ SnapshotsFollowMatches

\* No two weeks are on one date.
DatesDistinct ==
    \A v, w \in Printed : weeks[v].date = weeks[w].date => v = w

\* A match with saved scores stays in its week, and the week keeps its nine and
\* is not cancelled, while the scores stay.
ScoresHoldTheWeek ==
    [][\A m \in scored \cap scored' :
          LET w == place[m[1]]
          IN  /\ place'[m[1]] = w
              /\ weeks'[w].nine = weeks[w].nine
              /\ weeks'[w].status = weeks[w].status
              /\ plays'[m] = plays[m]]_vars

\* A match only changes its week by a rain date whose preview showed all of
\* what moves: the very matches with their golfers, and their snapshots.
MovedAsShown ==
    [][\A p \in Pairings :
          place[p] # 0 /\ place'[p] # place[p] =>
             \E t \in Tabs :
                LET tab == tabs[t]
                IN  /\ tab.kind = "rain" /\ tab.week = place[p] /\ tab.to = place'[p]
                    /\ {x.pairing : x \in tab.seen.held} = Within(place[p])
                    /\ \A x \in tab.seen.held, l \in Labels : x.sides[l] = plays[<<x.pairing, l>>]
                    /\ {x.golfer : x \in tab.seen.lines} = Snapped(place[p])]_vars

\* Nines change as a preview showed: exactly the weeks it listed, to the nines
\* it listed, computed from the schedule as it was then.
NinesAsShown ==
    [][\A w \in Printed :
          weeks[w].nine # "none" /\ weeks'[w] # NoWeek /\ weeks'[w].nine # weeks[w].nine =>
             \E t \in Tabs :
                LET tab == tabs[t]
                    rows == tab.seen.rows
                IN  /\ tab.kind = "nine"
                    /\ \A v \in Printed : weeks'[v].nine =
                          IF v \in NineChanges(rows, tab.week, tab.nine, tab.all)
                          THEN Rotated(rows, tab.week, tab.nine)[v]
                          ELSE rows[v].nine]_vars

\* Dates change as a preview showed: every printed week is where the shift put
\* it in the schedule as it was then.  Of two shifts previewed on the same dates
\* the second is refused once the first has moved a week.
DatesAsShown ==
    [][\A w \in Printed :
          weeks'[w] # NoWeek /\ weeks'[w].date # weeks[w].date =>
             \E t \in Tabs :
                LET tab == tabs[t]
                    rows == tab.seen.rows
                IN  /\ tab.kind = "shift"
                    /\ \A v \in Printed : weeks'[v].date =
                          IF v >= tab.week
                          THEN rows[v].date + (tab.date - rows[tab.week].date)
                          ELSE rows[v].date]_vars

\* What an admin confirms is what the preview listed, however much changed in
\* between: rain dates move those matches, changes of nine turn those weeks,
\* shifts move the weeks to those dates.
ConfirmedAsShown == MovedAsShown /\ NinesAsShown /\ DatesAsShown
=============================================================================
