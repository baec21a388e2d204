---------------------------- MODULE Weeks_proofs -----------------------------
(***************************************************************************)
(* Proofs about Weeks, for any number of weeks, matches, golfers, forms    *)
(* and previews.                                                           *)
(***************************************************************************)
EXTENDS Weeks, Induction

\* A preview of a change of nine names a nine, one of a shift a date.
TabsOK ==
    /\ DOMAIN tabs = Tabs
    /\ \A t \in Tabs : tabs[t].kind = "shift" => tabs[t].date \in Dates
    /\ \A t \in Tabs : tabs[t].kind = "nine" => tabs[t].nine \in Nines

\* A snapshot is only in a week with a match.
SnapshotsNeedMatches == \A w \in Weeks : Within(w) = {} => Snapped(w) = {}

\* Scores are of matches that two golfers play.
ScoresNeedMatches == \A m \in scored : plays[m] # NoMatch

Typed == TypeOK /\ TabsOK

-----------------------------------------------------------------------------
(* Types.                                                                   *)

\* Index 0 is no week, so a team match that is not made yet is in no week.
LEMMA ZeroIsNoWeek == 0 \notin Weeks /\ Weeks \subseteq Nat
BY WeeksAssumption

\* A form or a preview that opens changes nothing else, and what it asks for
\* is a week's; a preview of nines names one.
LEMMA FormsOnlyShow ==
    ASSUME TabsOK, FormNext
    PROVE  UNCHANGED <<weeks, season, held>> /\ TabsOK'
<1>1. PICK t \in Tabs, w \in Weeks :
        \/ OpenEdit(t, w)
        \/ \E date \in Dates : PreviewShift(t, w, date)
        \/ \E nine \in Nines, all \in BOOLEAN : PreviewNine(t, w, nine, all)
        \/ \E to \in Weeks : PreviewRain(t, w, to)
  BY DEF FormNext
<1>2. ASSUME NEW x, tabs' = [tabs EXCEPT ![t] = x], x.kind = "nine" => x.nine \in Nines,
             x.kind = "shift" => x.date \in Dates
      PROVE  TabsOK'
  BY <1>2 DEF TabsOK
<1>3. CASE OpenEdit(t, w)
  <2> DEFINE tab == [NoTab EXCEPT !.kind = "edit", !.week = w]
             x == [tab EXCEPT !.seen = Seen(tab.kind, tab.week, tab.to), !.uses = tabs[t].uses]
  <2>1. tabs' = [tabs EXCEPT ![t] = x] /\ UNCHANGED <<weeks, season, held>>
    BY <1>3 DEF OpenEdit, Show
  <2>2. x.kind = "edit"
    BY DEF NoTab
  <2> HIDE DEF x
  <2> QED
    BY <1>2, <2>1, <2>2
<1>4. CASE \E date \in Dates : PreviewShift(t, w, date)
  <2>0. PICK date \in Dates : PreviewShift(t, w, date)
    BY <1>4
  <2> DEFINE tab == [NoTab EXCEPT !.kind = "shift", !.week = w, !.date = date]
             x == [tab EXCEPT !.seen = Seen(tab.kind, tab.week, tab.to), !.uses = tabs[t].uses]
  <2>1. tabs' = [tabs EXCEPT ![t] = x] /\ UNCHANGED <<weeks, season, held>>
    BY <2>0 DEF PreviewShift, Show
  <2>2. x.kind = "shift" /\ x.date = date
    BY DEF NoTab
  <2> HIDE DEF x
  <2> QED
    BY <1>2, <2>1, <2>2
<1>5. CASE \E nine \in Nines, all \in BOOLEAN : PreviewNine(t, w, nine, all)
  <2>0. PICK nine \in Nines, all \in BOOLEAN : PreviewNine(t, w, nine, all)
    BY <1>5
  <2> DEFINE tab == [NoTab EXCEPT !.kind = "nine", !.week = w, !.nine = nine, !.all = all]
             x == [tab EXCEPT !.seen = Seen(tab.kind, tab.week, tab.to), !.uses = tabs[t].uses]
  <2>1. tabs' = [tabs EXCEPT ![t] = x] /\ UNCHANGED <<weeks, season, held>>
    BY <2>0 DEF PreviewNine, Show
  <2>2. x.kind = "nine" /\ x.nine = nine
    BY DEF NoTab
  <2> HIDE DEF x
  <2> QED
    BY <1>2, <2>1, <2>2
<1>6. CASE \E to \in Weeks : PreviewRain(t, w, to)
  <2>0. PICK to \in Weeks : PreviewRain(t, w, to)
    BY <1>6
  <2> DEFINE tab == [NoTab EXCEPT !.kind = "rain", !.week = w, !.to = to]
             x == [tab EXCEPT !.seen = Seen(tab.kind, tab.week, tab.to), !.uses = tabs[t].uses]
  <2>1. tabs' = [tabs EXCEPT ![t] = x] /\ UNCHANGED <<weeks, season, held>>
    BY <2>0 DEF PreviewRain, Show
  <2>2. x.kind = "rain"
    BY DEF NoTab
  <2> HIDE DEF x
  <2> QED
    BY <1>2, <2>1, <2>2
<1> QED
  BY <1>1, <1>3, <1>4, <1>5, <1>6

\* A week that gets another nine by rotating gets a front or a back.
LEMMA RotatedTyped ==
    ASSUME TypeOK, NEW w \in Weeks, NEW nine \in Nines, NEW v \in Weeks,
           Rotated(weeks, w, nine)[v] # weeks[v].nine
    PROVE  /\ Rotated(weeks, w, nine)[v] \in Nines
           /\ weeks[v].nine # "none"
           /\ weeks[v].status = "scheduled"
<1> DEFINE turning == {u \in Weeks : /\ u >= w
                                     /\ weeks[u].status = "scheduled"
                                     /\ weeks[u].nine # "none"}
           turns(x) == Cardinality({u \in turning : u < x})
<1>1. Rotated(weeks, w, nine)[v] =
        IF v \in turning THEN (IF turns(v) % 2 = 0 THEN nine ELSE Other(nine)) ELSE weeks[v].nine
  BY DEF Rotated
<1>2. v \in turning
  BY <1>1
<1> HIDE DEF turns
<1> QED
  BY <1>1, <1>2 DEF Nines, Other

\* Every action keeps the rows well typed, and those with a nine apart from
\* the reserved rain dates.
LEMMA RowsTyped ==
    ASSUME Typed, [Next]_vars
    PROVE  weeks' \in [Weeks -> Row \cup {NoWeek}] /\ \A w \in Weeks : RowOK(weeks'[w])
<1> USE ZeroIsNoWeek
<1> DEFINE Good(row) == row \in Row /\ (row.kind = "rain_date" <=> row.nine = "none")
           Goal == weeks' \in [Weeks -> Row \cup {NoWeek}] /\ \A w \in Weeks : RowOK(weeks'[w])
<1>0. ASSUME NEW w \in Printed
      PROVE  w \in Weeks /\ Good(weeks[w])
  BY <1>0 DEF Printed, Typed, TypeOK, RowOK
<1>a. CASE UNCHANGED weeks
  BY <1>a DEF Typed, TypeOK
<1>b. ASSUME NEW w \in Weeks, NEW row, weeks' = [weeks EXCEPT ![w] = row],
             Good(row) \/ row = NoWeek
      PROVE  Goal
  BY <1>b DEF Typed, TypeOK, RowOK
<1>1. ASSUME NEW t \in Tabs, NEW edit \in Edits,
             EditWeek(t, edit.kind, edit.status, edit.makeup)
      PROVE  Goal
  <2> DEFINE w == tabs[t].week
             row == [weeks[w] EXCEPT !.kind = edit.kind, !.status = edit.status,
                                     !.makeup = edit.makeup]
  <2>1. w \in Printed /\ weeks' = [weeks EXCEPT ![w] = row]
    BY <1>1 DEF EditWeek
  <2>2. edit \in Line
    BY WeeksAssumption
  <2>3. edit.kind = "rain_date" <=> weeks[w].nine = "none"
    BY <1>1 DEF EditWeek, CanEdit
  <2>4. Good(row)
    BY <1>0, <2>1, <2>2, <2>3, ZenonT(40) DEF Row, Line
  <2> QED
    BY <1>0, <1>b, <2>1, <2>4
<1>2. ASSUME NEW t \in Tabs, ConfirmShift(t)
      PROVE  Goal
  <2> DEFINE w == tabs[t].week
             date == tabs[t].date
  <2>1. /\ w \in Printed
        /\ \A v \in Later(w) : Shifted(w, date)[v] \in Dates
        /\ weeks' = [v \in Weeks |-> IF v \in Later(w)
                                     THEN [weeks[v] EXCEPT !.date = Shifted(w, date)[v]]
                                     ELSE weeks[v]]
    BY <1>2 DEF ConfirmShift, CanShift
  <2>2. ASSUME NEW v \in Weeks
        PROVE  RowOK(weeks'[v]) /\ weeks'[v] \in Row \cup {NoWeek}
    <3>1. CASE v \in Later(w)
      <4>1. v \in Printed
        BY <3>1 DEF Later
      <4>2. weeks'[v] = [weeks[v] EXCEPT !.date = Shifted(w, date)[v]]
        BY <2>1, <3>1
      <4>3. Shifted(w, date)[v] \in Dates
        BY <2>1, <3>1
      <4> HIDE DEF w, date
      <4>4. Good(weeks'[v])
        BY <1>0, <4>1, <4>2, <4>3 DEF Row
      <4> QED
        BY <4>4 DEF RowOK
    <3>2. CASE v \notin Later(w)
      BY <2>1, <3>2 DEF Typed, TypeOK
    <3> QED
      BY <3>1, <3>2
  <2> QED
    BY <2>1, <2>2
<1>3. ASSUME NEW t \in Tabs, ConfirmNine(t)
      PROVE  Goal
  <2> DEFINE w == tabs[t].week
             rotated == Rotated(weeks, w, tabs[t].nine)
             changed == NineChanges(weeks, w, tabs[t].nine, tabs[t].all)
  <2>1. /\ w \in Weeks /\ tabs[t].nine \in Nines
        /\ weeks' = [v \in Weeks |-> IF v \in changed
                                     THEN [weeks[v] EXCEPT !.nine = rotated[v]]
                                     ELSE weeks[v]]
    BY <1>3 DEF ConfirmNine, CanChangeNine, Typed, TabsOK, Printed
  <2>2. ASSUME NEW v \in changed
        PROVE  v \in Weeks /\ rotated[v] \in Nines /\ weeks[v].nine # "none"
    BY <2>1, <2>2, RotatedTyped DEF NineChanges, Typed
  <2>3. \A v \in changed : weeks[v] # NoWeek
    BY <2>2 DEF NoWeek
  <2> HIDE DEF w, rotated, changed
  <2>4. ASSUME NEW v \in Weeks
        PROVE  RowOK(weeks'[v]) /\ weeks'[v] \in Row \cup {NoWeek}
    <3>1. CASE v \in changed
      <4>1. Good(weeks[v])
        BY <1>0, <2>3, <3>1 DEF Printed
      <4>2. Good(weeks'[v])
        BY <2>1, <2>2, <3>1, <4>1 DEF Row, Nines
      <4> QED
        BY <4>2 DEF RowOK
    <3>2. CASE v \notin changed
      BY <2>1, <3>2 DEF Typed, TypeOK
    <3> QED
      BY <3>1, <3>2
  <2> QED
    BY <2>1, <2>4
<1>4. ASSUME NEW t \in Tabs, ConfirmRain(t)
      PROVE  Goal
  <2> DEFINE w == tabs[t].week
             to == tabs[t].to
  <2>1. /\ w \in Printed /\ to \in Printed /\ w # to
        /\ weeks[w].kind = "match"
        /\ weeks' = [weeks EXCEPT ![w].status = "cancelled",
                                  ![to].kind = "match", ![to].status = "scheduled",
                                  ![to].nine = weeks[w].nine, ![to].makeup = w]
    BY <1>4 DEF ConfirmRain, CanRain
  <2> HIDE DEF w, to
  <2>2. /\ w \in Weeks /\ to \in Weeks /\ Good(weeks[w]) /\ Good(weeks[to])
        /\ DOMAIN weeks = Weeks
    BY <1>0, <2>1 DEF Typed, TypeOK
  <2>3. /\ weeks' \in [Weeks -> Row \cup {NoWeek}]
        /\ weeks'[w] = [weeks[w] EXCEPT !.status = "cancelled"]
        /\ weeks'[to] = [weeks[to] EXCEPT !.kind = "match", !.status = "scheduled",
                                          !.nine = weeks[w].nine, !.makeup = w]
        /\ \A v \in Weeks \ {w, to} : weeks'[v] = weeks[v]
    <3>1. DOMAIN weeks' = Weeks /\ weeks' = [v \in Weeks |-> weeks'[v]]
      BY <2>1, <2>2
    <3>2. weeks'[w] = [weeks[w] EXCEPT !.status = "cancelled"]
      BY <2>1, <2>2
    <3>3. weeks'[to] = [weeks[to] EXCEPT !.kind = "match", !.status = "scheduled",
                                         !.nine = weeks[w].nine, !.makeup = w]
      BY <2>1, <2>2
    <3>4. \A v \in Weeks \ {w, to} : weeks'[v] = weeks[v]
      BY <2>1, <2>2
    <3>5. weeks'[w] \in Row
      BY <2>2, <3>2 DEF Row, Statuses
    <3>6. weeks'[to] \in Row
      BY <2>2, <3>3 DEF Row, Statuses, Kinds
    <3>7. \A v \in Weeks : weeks'[v] \in Row \cup {NoWeek}
      BY <3>4, <3>5, <3>6 DEF Typed, TypeOK
    <3> QED
      BY <3>1, <3>2, <3>3, <3>4, <3>7
  <2>4. RowOK(weeks'[w]) /\ RowOK(weeks'[to])
    BY <2>1, <2>2, <2>3 DEF RowOK, Row
  <2> QED
    BY <2>3, <2>4 DEF Typed, TypeOK
<1>5. ASSUME NEW lines \in Proposals, Generate(lines)
      PROVE  Goal
  <2> DEFINE first == season.nine
             row(w) == [date |-> StartDate + w - 1,
                        nine |-> IF lines[w].kind = "rain_date" THEN "none"
                                 ELSE IF w % 2 = 1 THEN first ELSE Other(first),
                        kind |-> lines[w].kind,
                        status |-> lines[w].status,
                        makeup |-> lines[w].makeup]
  <2>1. /\ DOMAIN lines = {w \in Weeks : w <= season.end - StartDate + 1}
        /\ weeks' = [w \in Weeks |-> IF w \notin DOMAIN lines THEN NoWeek ELSE row(w)]
    BY <1>5 DEF Generate
  <2>2. ASSUME NEW w \in DOMAIN lines
        PROVE  Good(row(w))
    <3>1. lines[w] \in Line
      BY WeeksAssumption
    <3>2. StartDate + w - 1 \in Dates
      <4>1. w \in Nat /\ w >= 1 /\ w <= season.end - StartDate + 1
        BY <2>1, WeeksAssumption
      <4>2. season.end \in 0..MaxDate /\ StartDate \in 0..MaxDate /\ MaxDate \in Nat
        BY WeeksAssumption DEF Typed, TypeOK, Dates
      <4>3. season.end \in Int /\ StartDate \in Int
        BY <4>2
      <4> DEFINE end == season.end
      <4> HIDE DEF end
      <4>4. end \in 0..MaxDate /\ w <= end - StartDate + 1
        BY <4>1, <4>2 DEF end
      <4> QED
        BY <4>1, <4>2, <4>4 DEF Dates
    <3>3. first \in Nines /\ Other(first) \in Nines
      BY DEF Typed, TypeOK, Nines, Other
    <3>4. row(w).nine = "none" <=> lines[w].kind = "rain_date"
      BY <3>3 DEF Nines
    <3>5. row(w).nine \in Nines \cup {"none"}
      BY <3>3
    <3> QED
      BY <3>1, <3>2, <3>4, <3>5 DEF Row, Line
  <2> HIDE DEF row
  <2> QED
    BY <2>1, <2>2 DEF RowOK
<1>6. ASSUME NEW w \in Weeks, DeleteWeek(w)
      PROVE  Goal
  BY <1>6, <1>b DEF DeleteWeek
<1>7. CASE FormNext
  BY <1>7, <1>a, FormsOnlyShow DEF Typed
<1>8. CASE \E edit \in SeasonEdits : EditSeason(edit.end, edit.nine)
  BY <1>8, <1>a DEF EditSeason
<1>9. CASE ScoreNext
  BY <1>9, <1>a DEF ScoreNext, SaveScores, ClearScores, Lock, Unlock
<1>10. CASE MatchupNext
  BY <1>10, <1>a DEF MatchupNext, Arrange
<1>11. CASE UNCHANGED vars
  BY <1>11, <1>a DEF vars
<1> QED
  BY <1>1, <1>2, <1>3, <1>4, <1>5, <1>6, <1>7, <1>8, <1>9, <1>10, <1>11
  DEF Next, ConfirmNext, RainNext, SeasonNext

\* Every action keeps the other variables well typed.
LEMMA RestTyped ==
    ASSUME Typed, [Next]_vars
    PROVE  /\ season' \in [end : Dates, nine : Nines]
           /\ place' \in [Pairings -> Weeks \cup {0}]
           /\ plays' \in [Matches -> PlayedBy]
           /\ snaps' \in [Weeks -> [Golfers -> Nines \cup {"none"}]]
           /\ scored' \subseteq Matches
           /\ locked' \subseteq Matches
           /\ TabsOK'
<1> DEFINE Goal == /\ season' \in [end : Dates, nine : Nines]
                   /\ place' \in [Pairings -> Weeks \cup {0}]
                   /\ plays' \in [Matches -> PlayedBy]
                   /\ snaps' \in [Weeks -> [Golfers -> Nines \cup {"none"}]]
                   /\ scored' \subseteq Matches
                   /\ locked' \subseteq Matches
                   /\ TabsOK'
<1>0. ASSUME NEW w \in Printed
      PROVE  w \in Weeks /\ weeks[w].nine \in Nines \cup {"none"}
  BY <1>0 DEF Printed, Typed, TypeOK, Row
<1>a. CASE UNCHANGED <<season, held, tabs>>
  BY <1>a DEF Typed, TypeOK, TabsOK, held
<1>1. ASSUME NEW t \in Tabs, NEW edit \in Edits,
             EditWeek(t, edit.kind, edit.status, edit.makeup)
      PROVE  Goal
  BY <1>1, <1>a DEF EditWeek
<1>2. ASSUME NEW t \in Tabs, ConfirmShift(t)
      PROVE  Goal
  <2> DEFINE w == tabs[t].week
             date == tabs[t].date
             end == Shifted(w, date)[LastWeek]
  <2>1. /\ end \in StartDate..MaxDate
        /\ season' = IF date = weeks[w].date THEN season ELSE [season EXCEPT !.end = end]
        /\ UNCHANGED <<held, tabs>>
    BY <1>2 DEF ConfirmShift, CanShift
  <2> HIDE DEF w, date, end
  <2>2. end \in Dates
    BY <2>1, WeeksAssumption DEF Dates
  <2>3. season' \in [end : Dates, nine : Nines]
    BY <2>1, <2>2 DEF Typed, TypeOK
  <2> QED
    BY <2>1, <2>3 DEF Typed, TypeOK, TabsOK, held
<1>3. ASSUME NEW t \in Tabs, ConfirmNine(t)
      PROVE  Goal
  <2> DEFINE w == tabs[t].week
             rotated == Rotated(weeks, w, tabs[t].nine)
             changed == NineChanges(weeks, w, tabs[t].nine, tabs[t].all)
  <2>1. /\ w \in Weeks /\ tabs[t].nine \in Nines
        /\ snaps' = Relabel(changed, w, rotated)
        /\ UNCHANGED <<season, place, plays, scored, locked, tabs>>
    BY <1>3 DEF ConfirmNine, CanChangeNine, Typed, TabsOK, Printed
  <2>2. \A v \in changed : rotated[v] \in Nines
    BY <2>1, RotatedTyped DEF NineChanges, Typed
  <2> HIDE DEF w, rotated, changed
  <2>3. snaps' \in [Weeks -> [Golfers -> Nines \cup {"none"}]]
    BY <2>1, <2>2 DEF Relabel, Typed, TypeOK
  <2> QED
    BY <2>1, <2>3 DEF Typed, TypeOK, TabsOK
<1>4. ASSUME NEW t \in Tabs, ConfirmRain(t)
      PROVE  Goal
  <2> DEFINE w == tabs[t].week
             to == tabs[t].to
  <2>1. /\ w \in Printed /\ to \in Printed
        /\ place' = [p \in Pairings |-> IF place[p] = w THEN to ELSE place[p]]
        /\ snaps' = [v \in Weeks |-> [g \in Golfers |->
              IF v = w THEN "none"
              ELSE IF v = to /\ g \in Snapped(w) THEN weeks[w].nine
              ELSE snaps[v][g]]]
        /\ UNCHANGED <<season, plays, scored, locked, tabs>>
    BY <1>4 DEF ConfirmRain, CanRain
  <2> HIDE DEF w, to
  <2>2. place' \in [Pairings -> Weeks \cup {0}]
    BY <1>0, <2>1 DEF Typed, TypeOK
  <2>3. snaps' \in [Weeks -> [Golfers -> Nines \cup {"none"}]]
    BY <1>0, <2>1 DEF Typed, TypeOK
  <2> QED
    BY <2>1, <2>2, <2>3 DEF Typed, TypeOK, TabsOK
<1>5. ASSUME NEW lines \in Proposals, Generate(lines)
      PROVE  Goal
  BY <1>5, <1>a DEF Generate
<1>6. ASSUME NEW w \in Weeks, DeleteWeek(w)
      PROVE  Goal
  BY <1>6, <1>a DEF DeleteWeek
<1>7. CASE FormNext
  BY <1>7, FormsOnlyShow DEF Typed, TypeOK, held
<1>8. ASSUME NEW edit \in SeasonEdits, EditSeason(edit.end, edit.nine)
      PROVE  Goal
  BY <1>8, WeeksAssumption DEF EditSeason, Typed, TypeOK, TabsOK, held, WeeksAssumption
<1>9. ASSUME NEW m \in Matches, SaveScores(m) \/ ClearScores(m) \/ Lock(m) \/ Unlock(m)
      PROVE  Goal
  BY <1>9 DEF SaveScores, ClearScores, Lock, Unlock, Typed, TypeOK, TabsOK
<1>10. ASSUME NEW p \in Pairings, NEW w \in Weeks, NEW sides \in [Labels -> PlayedBy],
              Arrange(p, w, sides)
       PROVE  Goal
  <2> DEFINE joined == {g \in Golfers : \E l \in Labels, side \in Sides : sides[l][side] = g}
  <2>1. /\ w \in Printed
        /\ place' = [place EXCEPT ![p] = w]
        /\ plays' = [m \in Matches |-> IF m[1] = p THEN sides[m[2]] ELSE plays[m]]
        /\ snaps' = [snaps EXCEPT ![w] = [g \in Golfers |->
                        IF g \in joined THEN weeks[w].nine ELSE snaps[w][g]]]
        /\ UNCHANGED <<weeks, season, scored, locked, tabs>>
    BY <1>10 DEF Arrange, Open
  <2> HIDE DEF joined
  <2>2. place' \in [Pairings -> Weeks \cup {0}]
    BY <2>1 DEF Typed, TypeOK
  <2>3. plays' \in [Matches -> PlayedBy]
    BY <2>1 DEF Typed, TypeOK, Matches
  <2>4. snaps' \in [Weeks -> [Golfers -> Nines \cup {"none"}]]
    BY <1>0, <2>1 DEF Typed, TypeOK
  <2> QED
    BY <2>1, <2>2, <2>3, <2>4 DEF Typed, TypeOK, TabsOK
<1>11. CASE UNCHANGED vars
  BY <1>11, <1>a DEF vars, held
<1> QED
  BY <1>1, <1>2, <1>3, <1>4, <1>5, <1>6, <1>7, <1>8, <1>9, <1>10, <1>11
  DEF Next, ConfirmNext, RainNext, SeasonNext, ScoreNext, MatchupNext

\* The season starts without weeks, matches or open forms.
LEMMA TypedInit == Init => Typed
<1> SUFFICES ASSUME Init PROVE Typed
  OBVIOUS
<1>1. season.end \in Dates /\ season \in [end : Dates, nine : Nines]
  BY WeeksAssumption DEF Init, Nines
<1>2. NoMatch \in PlayedBy
  BY DEF PlayedBy
<1>3. \A t \in Tabs : tabs[t].kind \notin {"nine", "shift"}
  BY DEF Init, NoTab
<1>4. weeks \in [Weeks -> Row \cup {NoWeek}] /\ \A w \in Weeks : RowOK(weeks[w])
  BY DEF Init, RowOK
<1> QED
  BY <1>1, <1>2, <1>3, <1>4 DEF Typed, TypeOK, TabsOK, Init

LEMMA TypedNext == Typed /\ [Next]_vars => Typed'
BY RowsTyped, RestTyped DEF Typed, TypeOK

\* Whatever admins and golfers do, the tables keep their shape; above all a
\* week's nine and kind stay together, as the check constraint on weeks wants.
THEOREM TypeCorrect == Spec => []TypeOK
<1>1. Typed => TypeOK
  BY DEF Typed
<1> QED
  BY <1>1, TypedInit, TypedNext, PTL DEF Spec

-----------------------------------------------------------------------------
(* What is in a week.                                                       *)

\* The matches, the snapshots and the weeks they are in, as the actions keep
\* them together.
Inv ==
    /\ Typed
    /\ CancelledWeeksEmpty
    /\ SnapshotsNeedMatches
    /\ SnapshotsFollowMatches
    /\ ScoresNeedMatches
    /\ DatesDistinct

\* What a printed week holds.
LEMMA PrintedRow ==
    ASSUME Inv, NEW w \in Printed
    PROVE  /\ w \in Weeks /\ w # 0 /\ weeks[w] \in Row /\ weeks[w] # NoWeek
           /\ weeks[w].kind = "rain_date" <=> weeks[w].nine = "none"
           /\ weeks[w].kind # "none"
BY ZeroIsNoWeek DEF Inv, Typed, TypeOK, Printed, RowOK, Row, Kinds

\* A scored match is in a week that takes place.
LEMMA ScoredWeek ==
    ASSUME Inv, NEW m \in scored
    PROVE  /\ m \in Matches /\ m[1] \in Pairings
           /\ place[m[1]] \in Printed
           /\ weeks[place[m[1]]].kind # "rain_date"
           /\ weeks[place[m[1]]].status # "cancelled"
           /\ m[1] \in Within(place[m[1]])
           /\ m \in MatchesOf(place[m[1]])
<1>1. m \in Matches /\ m[1] \in Pairings /\ plays[m] \in PlayedBy /\ plays[m] # NoMatch
  BY DEF Inv, Typed, TypeOK, ScoresNeedMatches, Matches
<1>2. PICK side \in Sides : plays[m][side] # NoOne
  <2>1. plays[m]["a"] \in Golfers
    BY <1>1 DEF PlayedBy, Sides
  <2> QED
    BY <2>1, WeeksAssumption DEF Sides
<1>3. place[m[1]] # 0 /\ plays[m][side] \in Snapped(place[m[1]])
  BY <1>1, <1>2 DEF Inv, SnapshotsFollowMatches
<1>4. place[m[1]] \in Weeks
  BY <1>1, <1>3 DEF Inv, Typed, TypeOK
<1>5. m[1] \in Within(place[m[1]]) /\ m \in MatchesOf(place[m[1]])
  BY <1>1 DEF Within, MatchesOf
<1> QED
  BY <1>1, <1>4, <1>5 DEF Inv, CancelledWeeksEmpty

\* What an edit, a shift, a change of nine and a rain date do to the rows.
LEMMA EditStep ==
    ASSUME Inv, NEW t \in Tabs, NEW edit \in Edits,
           EditWeek(t, edit.kind, edit.status, edit.makeup)
    PROVE  \E w \in Printed :
              /\ \A v \in Weeks \ {w} : weeks'[v] = weeks[v]
              /\ weeks'[w].date = weeks[w].date /\ weeks'[w].nine = weeks[w].nine
              /\ weeks'[w].kind = edit.kind /\ weeks'[w].status = edit.status
              /\ weeks'[w] # NoWeek
              /\ edit.status \in Statuses
              /\ edit.kind = "rain_date" => weeks[w].kind = "rain_date"
              /\ edit.status = "cancelled" => Within(w) = {}
              /\ UNCHANGED <<season, held, tabs>>
<1> DEFINE w == tabs[t].week
<1>1. /\ w \in Printed
      /\ (edit.kind = "rain_date") <=> (weeks[w].nine = "none")
      /\ edit.status = "cancelled" => Within(w) = {}
      /\ weeks' = [weeks EXCEPT ![w].kind = edit.kind, ![w].status = edit.status,
                                ![w].makeup = edit.makeup]
      /\ UNCHANGED <<season, held, tabs>>
  BY DEF EditWeek, CanEdit
<1> HIDE DEF w
<1>2. w \in Weeks /\ weeks[w] \in Row /\ (weeks[w].kind = "rain_date" <=> weeks[w].nine = "none")
  BY <1>1, PrintedRow
<1>3. DOMAIN weeks = Weeks
  BY DEF Inv, Typed, TypeOK
<1>4. edit \in Line
  BY WeeksAssumption
<1>5. weeks'[w] = [weeks[w] EXCEPT !.kind = edit.kind, !.status = edit.status,
                                   !.makeup = edit.makeup]
  BY <1>1, <1>2, <1>3
<1>6. /\ weeks'[w].date = weeks[w].date /\ weeks'[w].nine = weeks[w].nine
      /\ weeks'[w].kind = edit.kind /\ weeks'[w].status = edit.status
  BY <1>2, <1>5 DEF Row
<1>7. weeks'[w] # NoWeek
  BY <1>4, <1>6 DEF Line, Kinds, NoWeek
<1>8. \A v \in Weeks \ {w} : weeks'[v] = weeks[v]
  BY <1>1, <1>2, <1>3
<1>9. edit.status \in Statuses
  BY <1>4 DEF Line
<1> QED
  BY <1>1, <1>2, <1>6, <1>7, <1>8, <1>9

LEMMA ShiftStep ==
    ASSUME Inv, NEW t \in Tabs, ConfirmShift(t)
    PROVE  /\ \A v \in Weeks : /\ weeks'[v].nine = weeks[v].nine
                               /\ weeks'[v].kind = weeks[v].kind
                               /\ weeks'[v].status = weeks[v].status
                               /\ weeks'[v] = NoWeek <=> weeks[v] = NoWeek
           /\ UNCHANGED <<held, tabs>>
           /\ DatesDistinct'
<1> DEFINE w == tabs[t].week
           date == tabs[t].date
           moved == Shifted(w, date)
<1>1. /\ w \in Printed
      /\ \A v \in Later(w) : \A u \in Printed \ Later(w) : weeks[u].date # moved[v]
      /\ weeks' = [v \in Weeks |-> IF v \in Later(w)
                                   THEN [weeks[v] EXCEPT !.date = moved[v]]
                                   ELSE weeks[v]]
      /\ UNCHANGED <<held, tabs>>
      /\ \A v \in Later(w) : moved[v] \in Dates
  BY DEF ConfirmShift, CanShift
<1>2. \A v \in Later(w) : moved[v] = weeks[v].date + date - weeks[w].date
  BY DEF Shifted
<1>3. \A v \in Later(w) : v \in Printed
  BY DEF Later
<1>4. date \in Int
  BY WeeksAssumption DEF ConfirmShift, Inv, Typed, TabsOK, Dates
<1> HIDE DEF moved
<1>5. ASSUME NEW v \in Weeks
      PROVE  /\ weeks'[v].nine = weeks[v].nine
             /\ weeks'[v].kind = weeks[v].kind
             /\ weeks'[v].status = weeks[v].status
             /\ weeks'[v] = NoWeek <=> weeks[v] = NoWeek
             /\ v \in Later(w) => weeks'[v].date = moved[v]
             /\ v \notin Later(w) => weeks'[v] = weeks[v]
  <2>1. CASE v \in Later(w)
    <3>1. weeks[v] \in Row /\ weeks[v].kind # "none" /\ weeks[v] # NoWeek
      BY <1>3, <2>1, PrintedRow
    <3>2. weeks'[v] = [weeks[v] EXCEPT !.date = moved[v]]
      BY <1>1, <2>1
    <3> HIDE DEF w
    <3>3. /\ weeks'[v].nine = weeks[v].nine
          /\ weeks'[v].kind = weeks[v].kind
          /\ weeks'[v].status = weeks[v].status
          /\ weeks'[v].date = moved[v]
      BY <3>1, <3>2 DEF Row
    <3> QED
      BY <2>1, <3>1, <3>3 DEF NoWeek
  <2>2. CASE v \notin Later(w)
    BY <1>1, <2>2
  <2> QED
    BY <2>1, <2>2
<1> HIDE DEF w, date
<1>6. ASSUME NEW u \in Printed', NEW v \in Printed', weeks'[u].date = weeks'[v].date
      PROVE  u = v
  <2>1. u \in Printed /\ v \in Printed
    BY <1>5, <1>6 DEF Printed
  <2>2. u \in Weeks /\ v \in Weeks /\ weeks[u].date \in Int /\ weeks[v].date \in Int
    BY <2>1, PrintedRow, WeeksAssumption DEF Row, Dates
  <2>3. weeks[w].date \in Int
    BY <1>1, PrintedRow, WeeksAssumption DEF Row, Dates
  <2>4. CASE u \in Later(w) /\ v \in Later(w)
    <3>1. moved[u] = moved[v]
      BY <1>5, <1>6, <2>2, <2>4
    <3>2. weeks[u].date + date - weeks[w].date = weeks[v].date + date - weeks[w].date
      BY <1>2, <2>4, <3>1
    <3> QED
      <4> DEFINE a == weeks[u].date
                 b == weeks[v].date
                 c == weeks[w].date
      <4>1. a + date - c = b + date - c /\ a \in Int /\ b \in Int /\ c \in Int
        BY <2>2, <2>3, <3>2
      <4> HIDE DEF a, b, c
      <4>2. a = b
        BY <1>4, <4>1
      <4> QED
        BY <2>1, <4>2 DEF Inv, DatesDistinct, a, b
  <2>5. CASE u \in Later(w) /\ v \notin Later(w)
    <3>1. weeks'[u].date = moved[u] /\ weeks'[v].date = weeks[v].date
      BY <1>5, <2>2, <2>5
    <3>2. weeks[v].date # moved[u]
      BY <1>1, <2>1, <2>5
    <3> QED
      BY <1>6, <3>1, <3>2
  <2>6. CASE u \notin Later(w) /\ v \in Later(w)
    <3>1. weeks'[v].date = moved[v] /\ weeks'[u].date = weeks[u].date
      BY <1>5, <2>2, <2>6
    <3>2. weeks[u].date # moved[v]
      BY <1>1, <2>1, <2>6
    <3> QED
      BY <1>6, <3>1, <3>2
  <2>7. CASE u \notin Later(w) /\ v \notin Later(w)
    BY <1>5, <1>6, <2>1, <2>2, <2>7 DEF Inv, DatesDistinct
  <2> QED
    BY <2>4, <2>5, <2>6, <2>7
<1> QED
  BY <1>1, <1>5, <1>6 DEF DatesDistinct

LEMMA GenerateStep ==
    ASSUME Inv, NEW lines \in Proposals, Generate(lines)
    PROVE  /\ Printed = {}
           /\ \A w \in Weeks : Within(w) = {} /\ Snapped(w) = {}
           /\ UNCHANGED <<season, held, tabs>>
           /\ DatesDistinct'
<1>1. /\ Printed = {} /\ UNCHANGED <<season, held, tabs>>
      /\ DOMAIN lines = {w \in Weeks : w <= season.end - StartDate + 1}
  BY DEF Generate
<1>2. \A w \in Weeks : Within(w) = {} /\ Snapped(w) = {}
  BY <1>1 DEF Inv, CancelledWeeksEmpty
<1>3. \A w \in Weeks : w \notin DOMAIN lines => weeks'[w] = NoWeek
  BY DEF Generate
<1>4. \A w \in DOMAIN lines : weeks'[w].date = StartDate + w - 1
  BY <1>1 DEF Generate
<1>5. ASSUME NEW v \in Printed', NEW w \in Printed', weeks'[v].date = weeks'[w].date
      PROVE  v = w
  <2>1. v \in DOMAIN lines /\ w \in DOMAIN lines
    BY <1>3, <1>5 DEF Printed
  <2>2. v \in Nat /\ w \in Nat /\ StartDate \in Nat
    BY <1>1, <2>1, WeeksAssumption DEF Dates
  <2> QED
    BY <1>4, <1>5, <2>1, <2>2
<1> QED
  BY <1>1, <1>2, <1>5 DEF DatesDistinct

LEMMA NineStep ==
    ASSUME Inv, NEW t \in Tabs, ConfirmNine(t)
    PROVE  \E changed, rotated :
              /\ \A v \in Weeks : /\ weeks'[v].date = weeks[v].date
                                  /\ weeks'[v].kind = weeks[v].kind
                                  /\ weeks'[v].status = weeks[v].status
                                  /\ weeks'[v] = NoWeek <=> weeks[v] = NoWeek
                                  /\ v \notin changed => weeks'[v].nine = weeks[v].nine
              /\ \A v \in changed : /\ v \in Printed
                                    /\ weeks'[v].nine = rotated[v]
                                    /\ rotated[v] \in Nines
                                    /\ MatchesOf(v) \cap scored = {}
              /\ snaps' = [v \in Weeks |-> [g \in Golfers |->
                    IF v \in changed /\ g \in Snapped(v) THEN rotated[v] ELSE snaps[v][g]]]
              /\ UNCHANGED <<season, place, plays, scored, locked, tabs>>
<1> DEFINE w == tabs[t].week
           rotated == Rotated(weeks, w, tabs[t].nine)
           changed == NineChanges(weeks, w, tabs[t].nine, tabs[t].all)
<1>1. /\ w \in Weeks /\ tabs[t].nine \in Nines
      /\ weeks' = [v \in Weeks |-> IF v \in changed
                                   THEN [weeks[v] EXCEPT !.nine = rotated[v]]
                                   ELSE weeks[v]]
      /\ snaps' = [v \in Weeks |-> [g \in Golfers |->
            IF v \in changed /\ g \in Snapped(v) THEN rotated[v] ELSE snaps[v][g]]]
      /\ \A v \in changed : MatchesOf(v) \cap scored = {}
      /\ UNCHANGED <<season, place, plays, scored, locked, tabs>>
  BY DEF ConfirmNine, CanChangeNine, Inv, Typed, TabsOK, Printed, Relabel, ScoresAllow
<1>2. \A v \in changed : v \in Weeks /\ rotated[v] \in Nines /\ weeks[v].nine # "none"
  BY <1>1, RotatedTyped DEF NineChanges, Inv, Typed
<1>3. \A v \in changed : v \in Printed
  BY <1>2 DEF NoWeek, Printed
<1> HIDE DEF w, rotated, changed
<1>4. ASSUME NEW v \in Weeks
      PROVE  /\ weeks'[v].date = weeks[v].date
             /\ weeks'[v].kind = weeks[v].kind
             /\ weeks'[v].status = weeks[v].status
             /\ weeks'[v] = NoWeek <=> weeks[v] = NoWeek
             /\ v \notin changed => weeks'[v].nine = weeks[v].nine
             /\ v \in changed => weeks'[v].nine = rotated[v]
  <2>1. CASE v \in changed
    <3>1. weeks[v] \in Row /\ weeks[v].kind # "none" /\ weeks[v] # NoWeek
      BY <1>3, <2>1, PrintedRow
    <3>2. weeks'[v] = [weeks[v] EXCEPT !.nine = rotated[v]]
      BY <1>1, <2>1
    <3>3. /\ weeks'[v].date = weeks[v].date
          /\ weeks'[v].kind = weeks[v].kind
          /\ weeks'[v].status = weeks[v].status
          /\ weeks'[v].nine = rotated[v]
      BY <3>1, <3>2 DEF Row
    <3> QED
      BY <2>1, <3>1, <3>3 DEF NoWeek
  <2>2. CASE v \notin changed
    BY <1>1, <2>2
  <2> QED
    BY <2>1, <2>2
<1>5. \A v \in changed : weeks'[v].nine = rotated[v]
  BY <1>2, <1>4
<1> QED
  BY <1>1, <1>2, <1>3, <1>4, <1>5

LEMMA RainStep ==
    ASSUME Inv, NEW t \in Tabs, ConfirmRain(t)
    PROVE  \E w, to \in Printed :
              /\ tabs[t].kind = "rain" /\ tabs[t].week = w /\ tabs[t].to = to
              /\ UpToDate(tabs[t])
              /\ w # to /\ w \in Weeks /\ to \in Weeks
              /\ weeks[w].nine \in Nines /\ weeks[to].nine = "none"
              /\ MatchesOf(w) \cap scored = {}
              /\ Within(to) = {} /\ Snapped(to) = {}
              /\ \A v \in Weeks \ {w, to} : weeks'[v] = weeks[v]
              /\ \A v \in Weeks : weeks'[v].date = weeks[v].date
              /\ weeks'[w].nine = weeks[w].nine
              /\ weeks'[to].nine = weeks[w].nine
              /\ weeks'[to].kind = "match" /\ weeks'[to].status = "scheduled"
              /\ weeks'[w] # NoWeek /\ weeks'[to] # NoWeek
              /\ place' = [p \in Pairings |-> IF place[p] = w THEN to ELSE place[p]]
              /\ snaps' = [v \in Weeks |-> [g \in Golfers |->
                    IF v = w THEN "none"
                    ELSE IF v = to /\ g \in Snapped(w) THEN weeks[w].nine
                    ELSE snaps[v][g]]]
              /\ UNCHANGED <<season, plays, scored, locked, tabs>>
<1> DEFINE w == tabs[t].week
           to == tabs[t].to
<1>1. /\ tabs[t].kind = "rain" /\ UpToDate(tabs[t])
      /\ w \in Printed /\ to \in Printed
      /\ weeks[w].kind = "match" /\ weeks[to].kind = "rain_date"
      /\ MatchesOf(w) \cap scored = {}
      /\ Within(to) = {} /\ Snapped(to) = {}
      /\ weeks' = [weeks EXCEPT ![w].status = "cancelled",
                                ![to].kind = "match", ![to].status = "scheduled",
                                ![to].nine = weeks[w].nine, ![to].makeup = w]
      /\ place' = [p \in Pairings |-> IF place[p] = w THEN to ELSE place[p]]
      /\ snaps' = [v \in Weeks |-> [g \in Golfers |->
            IF v = w THEN "none"
            ELSE IF v = to /\ g \in Snapped(w) THEN weeks[w].nine
            ELSE snaps[v][g]]]
      /\ UNCHANGED <<season, plays, scored, locked, tabs>>
  BY DEF ConfirmRain, CanRain
<1>2. tabs[t].week = w /\ tabs[t].to = to
  OBVIOUS
<1> HIDE DEF w, to
<1>3. /\ w \in Weeks /\ to \in Weeks /\ weeks[w] \in Row /\ weeks[to] \in Row
      /\ weeks[w].nine # "none" /\ weeks[to].nine = "none"
  BY <1>1, PrintedRow
<1>4. weeks[w].nine \in Nines /\ w # to
  BY <1>1, <1>3 DEF Row
<1>5. DOMAIN weeks = Weeks
  BY DEF Inv, Typed, TypeOK
<1>6. /\ weeks'[w] = [weeks[w] EXCEPT !.status = "cancelled"]
      /\ weeks'[to] = [weeks[to] EXCEPT !.kind = "match", !.status = "scheduled",
                                        !.nine = weeks[w].nine, !.makeup = w]
      /\ \A v \in Weeks \ {w, to} : weeks'[v] = weeks[v]
  <2>1. weeks'[w] = [weeks[w] EXCEPT !.status = "cancelled"]
    BY <1>1, <1>3, <1>4, <1>5
  <2>2. weeks'[to] = [weeks[to] EXCEPT !.kind = "match", !.status = "scheduled",
                                       !.nine = weeks[w].nine, !.makeup = w]
    BY <1>1, <1>3, <1>4, <1>5
  <2>3. \A v \in Weeks \ {w, to} : weeks'[v] = weeks[v]
    BY <1>1, <1>3, <1>5
  <2> QED
    BY <2>1, <2>2, <2>3
<1>7. /\ weeks'[w].date = weeks[w].date /\ weeks'[w].nine = weeks[w].nine
      /\ weeks'[w].kind = "match"
  <2> DEFINE row == weeks[w]
  <2>1. weeks'[w] = [row EXCEPT !.status = "cancelled"] /\ row \in Row /\ row.kind = "match"
    BY <1>1, <1>3, <1>6
  <2> HIDE DEF row
  <2>2. /\ weeks'[w].date = row.date /\ weeks'[w].nine = row.nine
        /\ weeks'[w].kind = "match"
    BY <2>1 DEF Row
  <2> QED
    BY <2>2 DEF row
<1>8. /\ weeks'[to].date = weeks[to].date /\ weeks'[to].nine = weeks[w].nine
      /\ weeks'[to].kind = "match" /\ weeks'[to].status = "scheduled"
  BY <1>3, <1>6 DEF Row
<1>9. weeks'[w] # NoWeek /\ weeks'[to] # NoWeek
  BY <1>7, <1>8 DEF NoWeek
<1>10. \A v \in Weeks : weeks'[v].date = weeks[v].date
  BY <1>6, <1>7, <1>8
<1> QED
  BY <1>1, <1>2, <1>3, <1>4, <1>6, <1>7, <1>8, <1>9, <1>10, ZenonT(40)

LEMMA ArrangeStep ==
    ASSUME Inv, NEW p \in Pairings, NEW w \in Weeks, NEW sides \in [Labels -> PlayedBy],
           Arrange(p, w, sides)
    PROVE  \E joined :
           /\ w \in Printed /\ weeks[w].nine \in Nines
           /\ weeks[w].kind = "match" /\ weeks[w].status = "scheduled"
           /\ place[p] \in {0, w}
           /\ place' = [place EXCEPT ![p] = w]
           /\ plays' = [m \in Matches |-> IF m[1] = p THEN sides[m[2]] ELSE plays[m]]
           /\ \A m \in scored : m[1] = p => sides[m[2]] = plays[m]
           /\ \A l \in Labels, side \in Sides :
                 sides[l][side] # NoOne => sides[l][side] \in joined
           /\ joined \subseteq Golfers
           /\ snaps' = [snaps EXCEPT ![w] = [g \in Golfers |->
                 IF g \in joined THEN weeks[w].nine ELSE snaps[w][g]]]
           /\ UNCHANGED <<weeks, season, scored, locked, tabs>>
<1> DEFINE joined == {g \in Golfers : \E l \in Labels, side \in Sides : sides[l][side] = g}
<1>1. /\ w \in Printed /\ weeks[w].kind = "match" /\ weeks[w].status = "scheduled"
      /\ place[p] \in {0, w}
      /\ \A l \in Labels : <<p, l>> \in scored => sides[l] = plays[<<p, l>>]
      /\ place' = [place EXCEPT ![p] = w]
      /\ plays' = [m \in Matches |-> IF m[1] = p THEN sides[m[2]] ELSE plays[m]]
      /\ snaps' = [snaps EXCEPT ![w] = [g \in Golfers |->
            IF g \in joined THEN weeks[w].nine ELSE snaps[w][g]]]
      /\ UNCHANGED <<weeks, season, scored, locked, tabs>>
  BY DEF Arrange, Open
<1>2. weeks[w].nine \in Nines
  BY <1>1, PrintedRow DEF Row
<1>3. \A m \in scored : m[1] = p => sides[m[2]] = plays[m]
  <2>1. \A m \in scored : m = <<m[1], m[2]>> /\ m[2] \in Labels
    BY DEF Inv, Typed, TypeOK, Matches
  <2> QED
    BY <1>1, <2>1
<1>4. ASSUME NEW l \in Labels, NEW side \in Sides, sides[l][side] # NoOne
      PROVE  sides[l][side] \in joined
  <2>1. sides[l] \in PlayedBy
    OBVIOUS
  <2>2. sides[l] # NoMatch
    BY <1>4 DEF NoMatch
  <2>3. sides[l][side] \in Golfers
    BY <2>1, <2>2 DEF PlayedBy
  <2> QED
    BY <2>3
<1>5. joined \subseteq Golfers
  OBVIOUS
<1> HIDE DEF joined
<1> QED
  BY <1>1, <1>2, <1>3, <1>4, <1>5

\* Making, scoring and moving matches and changing weeks keeps what is in a
\* week together with the week.
LEMMA InvNext == Inv /\ [Next]_vars => Inv'
<1> SUFFICES ASSUME Inv, [Next]_vars
             PROVE  /\ CancelledWeeksEmpty' /\ SnapshotsNeedMatches'
                    /\ SnapshotsFollowMatches' /\ ScoresNeedMatches' /\ DatesDistinct'
  BY TypedNext DEF Inv
<1> USE ZeroIsNoWeek
<1> DEFINE Goal == /\ CancelledWeeksEmpty' /\ SnapshotsNeedMatches'
                   /\ SnapshotsFollowMatches' /\ ScoresNeedMatches' /\ DatesDistinct'
<1>0. /\ DOMAIN weeks = Weeks
      /\ place \in [Pairings -> Weeks \cup {0}]
      /\ plays \in [Matches -> PlayedBy]
      /\ snaps \in [Weeks -> [Golfers -> Nines \cup {"none"}]]
      /\ scored \subseteq Matches
      /\ \A m \in Matches : m[1] \in Pairings
      /\ \A v \in Weeks : weeks[v] \in Row \cup {NoWeek} /\ RowOK(weeks[v])
  BY DEF Inv, Typed, TypeOK, Matches
<1>a. CASE UNCHANGED <<weeks, place, plays, snaps>> /\ ScoresNeedMatches'
  <2>1. /\ weeks' = weeks /\ place' = place /\ plays' = plays /\ snaps' = snaps
        /\ ScoresNeedMatches'
    BY <1>a
  <2>2. CancelledWeeksEmpty' /\ SnapshotsNeedMatches'
    BY <2>1 DEF Inv, CancelledWeeksEmpty, SnapshotsNeedMatches, Printed, Within, Snapped
  <2>3. SnapshotsFollowMatches'
    BY <2>1 DEF Inv, SnapshotsFollowMatches, Printed, Snapped
  <2>4. DatesDistinct'
    BY <2>1 DEF Inv, DatesDistinct, Printed
  <2> QED
    BY <2>1, <2>2, <2>3, <2>4
<1>1. ASSUME NEW t \in Tabs, NEW edit \in Edits,
             EditWeek(t, edit.kind, edit.status, edit.makeup)
      PROVE  Goal
  <2>1. PICK w \in Printed :
              /\ \A v \in Weeks \ {w} : weeks'[v] = weeks[v]
              /\ weeks'[w].date = weeks[w].date /\ weeks'[w].nine = weeks[w].nine
              /\ weeks'[w].kind = edit.kind /\ weeks'[w].status = edit.status
              /\ weeks'[w] # NoWeek
              /\ edit.status \in Statuses
              /\ edit.kind = "rain_date" => weeks[w].kind = "rain_date"
              /\ edit.status = "cancelled" => Within(w) = {}
              /\ UNCHANGED <<season, held, tabs>>
    BY <1>1, EditStep
  <2>2. UNCHANGED <<place, plays, snaps, scored>>
    BY <2>1 DEF held
  <2>3. \A v \in Weeks : Within(v)' = Within(v) /\ Snapped(v)' = Snapped(v)
    BY <2>2 DEF Within, Snapped
  <2>4. w \in Weeks /\ Printed' = Printed
    BY <2>1 DEF Printed
  <2>5. CancelledWeeksEmpty'
    BY <2>1, <2>3, <2>4 DEF Inv, CancelledWeeksEmpty, SnapshotsNeedMatches
  <2>6. SnapshotsNeedMatches' /\ ScoresNeedMatches'
    BY <2>2, <2>3 DEF Inv, SnapshotsNeedMatches, ScoresNeedMatches
  <2>7. \A v \in Weeks : weeks'[v].nine = weeks[v].nine /\ weeks'[v].date = weeks[v].date
    BY <2>1
  <2>8. SnapshotsFollowMatches' /\ DatesDistinct'
    BY <2>2, <2>3, <2>4, <2>7 DEF Inv, SnapshotsFollowMatches, DatesDistinct, Printed, Snapped
  <2> QED
    BY <2>5, <2>6, <2>8
<1>2. ASSUME NEW t \in Tabs, ConfirmShift(t)
      PROVE  Goal
  <2>1. /\ \A v \in Weeks : /\ weeks'[v].nine = weeks[v].nine
                            /\ weeks'[v].kind = weeks[v].kind
                            /\ weeks'[v].status = weeks[v].status
                            /\ weeks'[v] = NoWeek <=> weeks[v] = NoWeek
        /\ UNCHANGED <<place, plays, snaps, scored>>
        /\ DatesDistinct'
    BY <1>2, ShiftStep DEF held
  <2>2. \A v \in Weeks : Within(v)' = Within(v) /\ Snapped(v)' = Snapped(v)
    BY <2>1 DEF Within, Snapped
  <2>3. Printed' = Printed
    BY <2>1 DEF Printed
  <2>4. CancelledWeeksEmpty' /\ SnapshotsNeedMatches' /\ ScoresNeedMatches'
    BY <2>1, <2>2, <2>3
    DEF Inv, CancelledWeeksEmpty, SnapshotsNeedMatches, ScoresNeedMatches
  <2>5. SnapshotsFollowMatches'
    BY <2>1, <2>2, <2>3 DEF Inv, SnapshotsFollowMatches, Printed, Snapped
  <2> QED
    BY <2>1, <2>4, <2>5
<1>3. ASSUME NEW t \in Tabs, ConfirmNine(t)
      PROVE  Goal
  <2>1. PICK changed, rotated :
              /\ \A v \in Weeks : /\ weeks'[v].date = weeks[v].date
                                  /\ weeks'[v].kind = weeks[v].kind
                                  /\ weeks'[v].status = weeks[v].status
                                  /\ weeks'[v] = NoWeek <=> weeks[v] = NoWeek
                                  /\ v \notin changed => weeks'[v].nine = weeks[v].nine
              /\ \A v \in changed : /\ v \in Printed
                                    /\ weeks'[v].nine = rotated[v]
                                    /\ rotated[v] \in Nines
                                    /\ MatchesOf(v) \cap scored = {}
              /\ snaps' = [v \in Weeks |-> [g \in Golfers |->
                    IF v \in changed /\ g \in Snapped(v) THEN rotated[v] ELSE snaps[v][g]]]
              /\ UNCHANGED <<season, place, plays, scored, locked, tabs>>
    BY <1>3, NineStep
  <2>2. Printed' = Printed
    BY <2>1 DEF Printed
  <2>3. \A v \in Weeks : Within(v)' = Within(v)
    BY <2>1 DEF Within
  <2>4. \A v \in Weeks : Snapped(v)' = Snapped(v)
    BY <2>1 DEF Snapped, Nines
  <2>5. CancelledWeeksEmpty' /\ SnapshotsNeedMatches' /\ ScoresNeedMatches' /\ DatesDistinct'
    BY <2>1, <2>2, <2>3, <2>4
    DEF Inv, CancelledWeeksEmpty, SnapshotsNeedMatches, ScoresNeedMatches, DatesDistinct, Printed
  <2>6. ASSUME NEW v \in Printed, NEW g \in Snapped(v)
        PROVE  snaps'[v][g] = weeks'[v].nine
    <3>1. v \in Weeks /\ g \in Golfers /\ snaps[v][g] = weeks[v].nine
      BY DEF Inv, SnapshotsFollowMatches, Printed, Snapped
    <3> QED
      BY <2>1, <3>1
  <2>7. SnapshotsFollowMatches'
    BY <1>0, <2>1, <2>2, <2>4, <2>6 DEF Inv, SnapshotsFollowMatches, Printed
  <2> QED
    BY <2>5, <2>7
<1>4. ASSUME NEW t \in Tabs, ConfirmRain(t)
      PROVE  Goal
  <2>1. PICK w, to \in Printed :
              /\ tabs[t].kind = "rain" /\ tabs[t].week = w /\ tabs[t].to = to
              /\ UpToDate(tabs[t])
              /\ w # to /\ w \in Weeks /\ to \in Weeks
              /\ weeks[w].nine \in Nines /\ weeks[to].nine = "none"
              /\ MatchesOf(w) \cap scored = {}
              /\ Within(to) = {} /\ Snapped(to) = {}
              /\ \A v \in Weeks \ {w, to} : weeks'[v] = weeks[v]
              /\ \A v \in Weeks : weeks'[v].date = weeks[v].date
              /\ weeks'[w].nine = weeks[w].nine
              /\ weeks'[to].nine = weeks[w].nine
              /\ weeks'[to].kind = "match" /\ weeks'[to].status = "scheduled"
              /\ weeks'[w] # NoWeek /\ weeks'[to] # NoWeek
              /\ place' = [p \in Pairings |-> IF place[p] = w THEN to ELSE place[p]]
              /\ snaps' = [v \in Weeks |-> [g \in Golfers |->
                    IF v = w THEN "none"
                    ELSE IF v = to /\ g \in Snapped(w) THEN weeks[w].nine
                    ELSE snaps[v][g]]]
              /\ UNCHANGED <<season, plays, scored, locked, tabs>>
    BY <1>4, RainStep
  <2>2. Printed' = Printed
    BY <2>1 DEF Printed
  <2>3. Within(w)' = {} /\ Within(to)' = Within(w)
    BY <1>0, <2>1 DEF Within
  <2>4. \A v \in Weeks \ {w, to} : Within(v)' = Within(v)
    BY <1>0, <2>1 DEF Within
  <2>5. /\ Snapped(w)' = {} /\ Snapped(to)' = Snapped(w)
        /\ \A v \in Weeks \ {w, to} : Snapped(v)' = Snapped(v)
    BY <1>0, <2>1 DEF Snapped, Nines
  <2>6. CancelledWeeksEmpty'
    <3>1. ASSUME NEW v \in Weeks,
                 v \notin Printed' \/ weeks'[v].status = "cancelled"
                   \/ weeks'[v].kind = "rain_date"
          PROVE  Within(v)' = {} /\ Snapped(v)' = {}
      <4>1. CASE v = w
        BY <2>3, <2>5, <4>1
      <4>2. CASE v # w
        <5>1. v \in Weeks \ {w, to}
          BY <2>1, <2>2, <3>1, <4>2
        <5> QED
          BY <2>1, <2>2, <2>4, <2>5, <3>1, <5>1 DEF Inv, CancelledWeeksEmpty
      <4> QED
        BY <4>1, <4>2
    <3> QED
      BY <3>1 DEF CancelledWeeksEmpty
  <2>7. SnapshotsNeedMatches' /\ ScoresNeedMatches'
    BY <2>1, <2>3, <2>4, <2>5 DEF Inv, SnapshotsNeedMatches, ScoresNeedMatches
  <2>8. ASSUME NEW v \in Printed, NEW g \in Snapped(v)'
        PROVE  snaps'[v][g] = weeks'[v].nine
    <3>1. v \in Weeks /\ g \in Golfers /\ v # w
      BY <2>5 DEF Printed, Snapped
    <3>2. CASE v = to
      BY <2>1, <2>5, <3>1, <3>2
    <3>3. CASE v # to
      <4>1. g \in Snapped(v)
        BY <2>5, <3>1, <3>3
      <4>2. snaps[v][g] = weeks[v].nine
        BY <4>1 DEF Inv, SnapshotsFollowMatches
      <4> QED
        BY <2>1, <3>1, <3>3, <4>2
    <3> QED
      BY <3>2, <3>3
  <2>9. ASSUME NEW m \in Matches, NEW side \in Sides, plays'[m][side] # NoOne
        PROVE  \E v \in Weeks : v = place'[m[1]] /\ plays'[m][side] \in Snapped(v)'
    <3>1. m[1] \in Pairings /\ place[m[1]] # 0 /\ plays[m][side] \in Snapped(place[m[1]])
      BY <1>0, <2>1, <2>9 DEF Inv, SnapshotsFollowMatches
    <3>2. place[m[1]] \in Weeks /\ place[m[1]] # to
      BY <1>0, <2>1, <3>1 DEF Within
    <3>3. CASE place[m[1]] = w
      <4>1. place'[m[1]] = to
        BY <2>1, <3>1, <3>3
      <4> QED
        <5>1. Snapped(to)' = Snapped(w) /\ plays'[m][side] = plays[m][side] /\ to \in Weeks
          BY <2>1, <2>5
        <5> QED
          BY <3>1, <3>3, <4>1, <5>1
    <3>4. CASE place[m[1]] # w
      <4>1. place'[m[1]] = place[m[1]]
        BY <2>1, <3>1, <3>4
      <4> QED
        BY <2>1, <2>5, <3>1, <3>2, <3>4, <4>1
    <3> QED
      BY <3>3, <3>4
  <2>10. SnapshotsFollowMatches'
    BY <2>2, <2>8, <2>9 DEF SnapshotsFollowMatches, Snapped
  <2>11. DatesDistinct'
    <3>1. \A v \in Printed : v \in Weeks
      BY DEF Printed
    <3>2. \A v \in Weeks : weeks'[v].date = weeks[v].date
      BY <2>1
    <3>3. ASSUME NEW u \in Printed', NEW v \in Printed', weeks'[u].date = weeks'[v].date
          PROVE  u = v
      <4>1. u \in Printed /\ v \in Printed /\ weeks[u].date = weeks[v].date
        BY <2>2, <3>1, <3>2, <3>3
      <4> QED
        BY <4>1 DEF Inv, DatesDistinct
    <3> QED
      BY <3>3 DEF DatesDistinct
  <2> QED
    BY <2>6, <2>7, <2>10, <2>11
<1>5. ASSUME NEW lines \in Proposals, Generate(lines)
      PROVE  Goal
  <2>1. /\ \A v \in Weeks : Within(v) = {} /\ Snapped(v) = {}
        /\ UNCHANGED <<place, plays, snaps, scored>>
        /\ DatesDistinct'
    BY <1>5, GenerateStep DEF held
  <2>2. \A v \in Weeks : Within(v)' = {} /\ Snapped(v)' = {}
    BY <2>1 DEF Within, Snapped
  <2>3. CancelledWeeksEmpty' /\ SnapshotsNeedMatches' /\ ScoresNeedMatches'
    BY <2>1, <2>2 DEF Inv, CancelledWeeksEmpty, SnapshotsNeedMatches, ScoresNeedMatches
  <2>4. SnapshotsFollowMatches'
    BY <2>1, <2>2 DEF Inv, SnapshotsFollowMatches, Printed, Snapped
  <2> QED
    BY <2>1, <2>3, <2>4
<1>6. ASSUME NEW w \in Weeks, DeleteWeek(w)
      PROVE  Goal
  <2>1. /\ w \in Printed /\ Within(w) = {} /\ Snapped(w) = {}
        /\ weeks' = [weeks EXCEPT ![w] = NoWeek]
        /\ UNCHANGED <<place, plays, snaps, scored>>
    BY <1>6 DEF DeleteWeek, held
  <2>2. Printed' = Printed \ {w}
    BY <1>0, <2>1 DEF Printed
  <2>3. \A v \in Weeks : Within(v)' = Within(v) /\ Snapped(v)' = Snapped(v)
    BY <2>1 DEF Within, Snapped
  <2>4. \A v \in Weeks \ {w} : weeks'[v] = weeks[v]
    BY <1>0, <2>1
  <2>5. CancelledWeeksEmpty' /\ SnapshotsNeedMatches' /\ ScoresNeedMatches'
    BY <2>1, <2>2, <2>3, <2>4
    DEF Inv, CancelledWeeksEmpty, SnapshotsNeedMatches, ScoresNeedMatches
  <2>6. SnapshotsFollowMatches' /\ DatesDistinct'
    BY <2>1, <2>2, <2>3, <2>4
    DEF Inv, SnapshotsFollowMatches, DatesDistinct, Printed, Snapped
  <2> QED
    BY <2>5, <2>6
<1>7. CASE FormNext
  BY <1>7, <1>a, FormsOnlyShow DEF Inv, Typed, ScoresNeedMatches, held
<1>8. ASSUME NEW edit \in SeasonEdits, EditSeason(edit.end, edit.nine)
      PROVE  Goal
  BY <1>8, <1>a DEF EditSeason, Inv, ScoresNeedMatches, held
<1>9. ASSUME NEW m \in Matches, SaveScores(m) \/ ClearScores(m) \/ Lock(m) \/ Unlock(m)
      PROVE  Goal
  BY <1>9, <1>a DEF SaveScores, ClearScores, Lock, Unlock, Inv, ScoresNeedMatches
<1>10. ASSUME NEW p \in Pairings, NEW w \in Weeks, NEW sides \in [Labels -> PlayedBy],
              Arrange(p, w, sides)
       PROVE  Goal
  <2>1. PICK joined :
           /\ w \in Printed /\ weeks[w].nine \in Nines
           /\ weeks[w].kind = "match" /\ weeks[w].status = "scheduled"
           /\ place[p] \in {0, w}
           /\ place' = [place EXCEPT ![p] = w]
           /\ plays' = [m \in Matches |-> IF m[1] = p THEN sides[m[2]] ELSE plays[m]]
           /\ \A m \in scored : m[1] = p => sides[m[2]] = plays[m]
           /\ \A l \in Labels, side \in Sides :
                 sides[l][side] # NoOne => sides[l][side] \in joined
           /\ joined \subseteq Golfers
           /\ snaps' = [snaps EXCEPT ![w] = [g \in Golfers |->
                 IF g \in joined THEN weeks[w].nine ELSE snaps[w][g]]]
           /\ UNCHANGED <<weeks, season, scored, locked, tabs>>
    BY <1>10, ArrangeStep
  <2>2. /\ \A v \in Weeks \ {w} : Within(v)' = Within(v)
        /\ p \in Within(w)'
    BY <1>0, <2>1 DEF Within
  <2>3. /\ \A v \in Weeks \ {w} : snaps'[v] = snaps[v]
        /\ \A g \in Golfers : snaps'[w][g] = IF g \in joined THEN weeks[w].nine ELSE snaps[w][g]
    BY <1>0, <2>1
  <2>4. /\ \A v \in Weeks \ {w} : Snapped(v)' = Snapped(v)
        /\ Snapped(w)' = Snapped(w) \cup joined
    BY <2>1, <2>3 DEF Snapped, Nines
  <2>5. Printed' = Printed
    BY <2>1 DEF Printed
  <2>6. CancelledWeeksEmpty' /\ SnapshotsNeedMatches'
    BY <2>1, <2>2, <2>4, <2>5 DEF Inv, CancelledWeeksEmpty, SnapshotsNeedMatches
  <2>7. ScoresNeedMatches'
    BY <1>0, <2>1 DEF Inv, ScoresNeedMatches
  <2>8. ASSUME NEW v \in Printed, NEW g \in Snapped(v)'
        PROVE  snaps'[v][g] = weeks'[v].nine
    <3>1. v \in Weeks /\ g \in Golfers
      BY DEF Printed, Snapped
    <3>2. CASE v = w /\ g \in joined
      BY <2>1, <2>3, <3>1, <3>2
    <3>3. CASE v # w \/ g \notin joined
      <4>1. g \in Snapped(v) /\ snaps'[v][g] = snaps[v][g]
        BY <2>3, <2>4, <3>1, <3>3
      <4> QED
        BY <2>1, <4>1 DEF Inv, SnapshotsFollowMatches
    <3> QED
      BY <3>2, <3>3
  <2>9. ASSUME NEW m \in Matches, NEW side \in Sides, plays'[m][side] # NoOne
        PROVE  \E v \in Weeks : v = place'[m[1]] /\ plays'[m][side] \in Snapped(v)'
    <3>1. m[1] \in Pairings /\ m[2] \in Labels
      BY DEF Matches
    <3>2. CASE m[1] = p
      <4>1. plays'[m] = sides[m[2]] /\ place'[m[1]] = w
        BY <1>0, <2>1, <3>1, <3>2
      <4> QED
        BY <2>1, <2>4, <2>9, <3>1, <4>1
    <3>3. CASE m[1] # p
      <4>1. plays'[m] = plays[m] /\ place'[m[1]] = place[m[1]]
        BY <1>0, <2>1, <3>1, <3>3
      <4>2. place[m[1]] # 0 /\ plays[m][side] \in Snapped(place[m[1]])
        BY <2>9, <4>1 DEF Inv, SnapshotsFollowMatches
      <4>3. place[m[1]] \in Weeks
        BY <1>0, <3>1, <4>2
      <4> QED
        BY <2>4, <4>1, <4>2, <4>3
    <3> QED
      BY <3>2, <3>3
  <2>10. SnapshotsFollowMatches'
    BY <2>5, <2>8, <2>9 DEF SnapshotsFollowMatches, Snapped
  <2>11. DatesDistinct'
    BY <2>1 DEF Inv, DatesDistinct, Printed
  <2> QED
    BY <2>6, <2>7, <2>10, <2>11
<1>11. CASE UNCHANGED vars
  BY <1>11, <1>a DEF vars, Inv, ScoresNeedMatches
<1> QED
  BY <1>1, <1>2, <1>3, <1>4, <1>5, <1>6, <1>7, <1>8, <1>9, <1>10, <1>11
  DEF Next, ConfirmNext, RainNext, SeasonNext, ScoreNext, MatchupNext

LEMMA InvInit == Init => Inv
<1> SUFFICES ASSUME Init PROVE Inv
  OBVIOUS
<1>1. Typed
  BY TypedInit
<1>2. \A w \in Weeks : Within(w) = {} /\ Snapped(w) = {}
  BY ZeroIsNoWeek DEF Init, Within, Snapped
<1>3. Printed = {} /\ scored = {}
  BY DEF Init, Printed
<1>4. \A m \in Matches, side \in Sides : plays[m][side] = NoOne
  BY DEF Init, NoMatch
<1> QED
  BY <1>1, <1>2, <1>3, <1>4
  DEF Inv, CancelledWeeksEmpty, SnapshotsNeedMatches, SnapshotsFollowMatches,
      ScoresNeedMatches, DatesDistinct

LEMMA Invariance == Spec => []Inv
BY InvInit, InvNext, PTL DEF Spec

\* No match and no snapshot is left in a week that does not take place.
THEOREM NothingInCancelledWeeks == Spec => []CancelledWeeksEmpty
<1>1. Inv => CancelledWeeksEmpty
  BY DEF Inv
<1> QED
  BY <1>1, Invariance, PTL

\* Whoever plays in a week has a snapshot there, on the nine that is played.
THEOREM SnapshotsRight == Spec => []SnapshotsFollowMatches
<1>1. Inv => SnapshotsFollowMatches
  BY DEF Inv
<1> QED
  BY <1>1, Invariance, PTL

\* However weeks are shifted, generated and deleted, no two share a date.
THEOREM DatesStayDistinct == Spec => []DatesDistinct
<1>1. Inv => DatesDistinct
  BY DEF Inv
<1> QED
  BY <1>1, Invariance, PTL

-----------------------------------------------------------------------------
(* What a step may not do.                                                  *)

\* While scores stay, so do the match, its week, and the week's nine.
THEOREM ScoresHold == Spec => ScoresHoldTheWeek
<1> DEFINE Held(m) == /\ place'[m[1]] = place[m[1]]
                      /\ weeks'[place[m[1]]].nine = weeks[place[m[1]]].nine
                      /\ weeks'[place[m[1]]].status = weeks[place[m[1]]].status
                      /\ plays'[m] = plays[m]
<1>1. ASSUME Inv, [Next]_vars, NEW m \in scored \cap scored'
      PROVE  Held(m)
  <2> DEFINE home == place[m[1]]
  <2>1. /\ m \in Matches /\ m[1] \in Pairings
        /\ home \in Printed /\ home \in Weeks
        /\ weeks[home].kind # "rain_date" /\ weeks[home].status # "cancelled"
        /\ weeks[home] \in Row
        /\ m[1] \in Within(home) /\ m \in MatchesOf(home)
    BY <1>1, ScoredWeek, PrintedRow
  <2>2. place \in [Pairings -> Weeks \cup {0}] /\ DOMAIN weeks = Weeks
    BY <1>1 DEF Inv, Typed, TypeOK
  <2> HIDE DEF home
  <2>a. CASE UNCHANGED <<weeks, place, plays>>
    BY <2>a
  <2>3. ASSUME NEW t \in Tabs, NEW edit \in Edits,
               EditWeek(t, edit.kind, edit.status, edit.makeup)
        PROVE  Held(m)
    <3>1. PICK w \in Printed :
              /\ \A v \in Weeks \ {w} : weeks'[v] = weeks[v]
              /\ weeks'[w].date = weeks[w].date /\ weeks'[w].nine = weeks[w].nine
              /\ weeks'[w].kind = edit.kind /\ weeks'[w].status = edit.status
              /\ weeks'[w] # NoWeek
              /\ edit.status \in Statuses
              /\ edit.kind = "rain_date" => weeks[w].kind = "rain_date"
              /\ edit.status = "cancelled" => Within(w) = {}
              /\ UNCHANGED <<season, held, tabs>>
      BY <1>1, <2>3, EditStep
    <3>2. weeks'[home].nine = weeks[home].nine
      BY <2>1, <3>1
    <3>3. weeks'[home].status = weeks[home].status
      BY <2>1, <3>1 DEF Row, Statuses
    <3> QED
      BY <3>1, <3>2, <3>3 DEF held, home
  <2>4. ASSUME NEW t \in Tabs, ConfirmShift(t)
        PROVE  Held(m)
    BY <1>1, <2>1, <2>4, ShiftStep DEF held, home
  <2>5. ASSUME NEW t \in Tabs, ConfirmNine(t)
        PROVE  Held(m)
    <3>1. PICK changed, rotated :
              /\ \A v \in Weeks : /\ weeks'[v].date = weeks[v].date
                                  /\ weeks'[v].kind = weeks[v].kind
                                  /\ weeks'[v].status = weeks[v].status
                                  /\ weeks'[v] = NoWeek <=> weeks[v] = NoWeek
                                  /\ v \notin changed => weeks'[v].nine = weeks[v].nine
              /\ \A v \in changed : /\ v \in Printed
                                    /\ weeks'[v].nine = rotated[v]
                                    /\ rotated[v] \in Nines
                                    /\ MatchesOf(v) \cap scored = {}
              /\ snaps' = [v \in Weeks |-> [g \in Golfers |->
                    IF v \in changed /\ g \in Snapped(v) THEN rotated[v] ELSE snaps[v][g]]]
              /\ UNCHANGED <<season, place, plays, scored, locked, tabs>>
      BY <1>1, <2>5, NineStep
    <3>2. home \notin changed
      BY <1>1, <2>1, <3>1
    <3> QED
      BY <2>1, <3>1, <3>2 DEF home
  <2>6. ASSUME NEW t \in Tabs, ConfirmRain(t)
        PROVE  Held(m)
    <3>1. PICK w, to \in Printed :
              /\ tabs[t].kind = "rain" /\ tabs[t].week = w /\ tabs[t].to = to
              /\ UpToDate(tabs[t])
              /\ w # to /\ w \in Weeks /\ to \in Weeks
              /\ weeks[w].nine \in Nines /\ weeks[to].nine = "none"
              /\ MatchesOf(w) \cap scored = {}
              /\ Within(to) = {} /\ Snapped(to) = {}
              /\ \A v \in Weeks \ {w, to} : weeks'[v] = weeks[v]
              /\ \A v \in Weeks : weeks'[v].date = weeks[v].date
              /\ weeks'[w].nine = weeks[w].nine
              /\ weeks'[to].nine = weeks[w].nine
              /\ weeks'[to].kind = "match" /\ weeks'[to].status = "scheduled"
              /\ weeks'[w] # NoWeek /\ weeks'[to] # NoWeek
              /\ place' = [p \in Pairings |-> IF place[p] = w THEN to ELSE place[p]]
              /\ snaps' = [v \in Weeks |-> [g \in Golfers |->
                    IF v = w THEN "none"
                    ELSE IF v = to /\ g \in Snapped(w) THEN weeks[w].nine
                    ELSE snaps[v][g]]]
              /\ UNCHANGED <<season, plays, scored, locked, tabs>>
      BY <1>1, <2>6, RainStep
    <3>2. home # w /\ home # to
      BY <1>1, <2>1, <3>1
    <3>3. weeks'[home] = weeks[home] /\ place'[m[1]] = home
      BY <2>1, <3>1, <3>2 DEF home
    <3> QED
      BY <3>1, <3>3 DEF home
  <2>7. ASSUME NEW lines \in Proposals, Generate(lines)
        PROVE  Held(m)
    BY <1>1, <2>1, <2>7, GenerateStep
  <2>8. ASSUME NEW w \in Weeks, DeleteWeek(w)
        PROVE  Held(m)
    <3>1. home # w
      BY <2>1, <2>8 DEF DeleteWeek
    <3>2. weeks'[home] = weeks[home]
      BY <2>1, <2>2, <2>8, <3>1 DEF DeleteWeek
    <3> QED
      BY <2>8, <3>2 DEF DeleteWeek, held, home
  <2>9. CASE FormNext
    BY <1>1, <2>9, <2>a, FormsOnlyShow DEF Inv, Typed, held
  <2>10. ASSUME NEW edit \in SeasonEdits, EditSeason(edit.end, edit.nine)
         PROVE  Held(m)
    BY <2>10, <2>a DEF EditSeason, held
  <2>11. CASE ScoreNext
    BY <2>11, <2>a DEF ScoreNext, SaveScores, ClearScores, Lock, Unlock
  <2>12. ASSUME NEW p \in Pairings, NEW w \in Weeks, NEW sides \in [Labels -> PlayedBy],
                Arrange(p, w, sides)
         PROVE  Held(m)
    <3>1. /\ place[p] \in {0, w} /\ place' = [place EXCEPT ![p] = w]
          /\ plays' = [x \in Matches |-> IF x[1] = p THEN sides[x[2]] ELSE plays[x]]
          /\ \A x \in scored : x[1] = p => sides[x[2]] = plays[x]
          /\ UNCHANGED weeks
      BY <1>1, <2>12, ArrangeStep
    <3>2. home # 0
      BY <2>1, ZeroIsNoWeek
    <3>3. place'[m[1]] = home
      BY <2>1, <2>2, <3>1, <3>2 DEF home
    <3>4. plays'[m] = plays[m]
      BY <1>1, <2>1, <3>1
    <3> QED
      BY <3>1, <3>3, <3>4 DEF home
  <2>13. CASE UNCHANGED vars
    BY <2>13, <2>a DEF vars
  <2> QED
    BY <1>1, <2>3, <2>4, <2>5, <2>6, <2>7, <2>8, <2>9, <2>10, <2>11, <2>12, <2>13
    DEF Next, ConfirmNext, RainNext, SeasonNext, MatchupNext
<1> DEFINE Step == \A m \in scored \cap scored' :
                      LET w == place[m[1]]
                      IN  /\ place'[m[1]] = w
                          /\ weeks'[w].nine = weeks[w].nine
                          /\ weeks'[w].status = weeks[w].status
                          /\ plays'[m] = plays[m]
<1>2. Inv /\ [Next]_vars => [Step]_vars
  BY <1>1
<1> HIDE DEF Step
<1>3. Spec => [][Step]_vars
  BY <1>2, Invariance, PTL DEF Spec
<1> QED
  BY <1>3 DEF ScoresHoldTheWeek, Step

\* The page of a rain date shows the matches of both weeks, with the golfers of
\* each, and the golfers of their snapshots.
LEMMA RainSeen ==
    ASSUME NEW w \in Weeks, NEW to \in Weeks, Within(to) = {}, Snapped(to) = {}
    PROVE  LET seen == Seen("rain", w, to)
           IN  /\ {x.pairing : x \in seen.held} = Within(w)
               /\ \A x \in seen.held, l \in Labels : x.sides[l] = plays[<<x.pairing, l>>]
               /\ {x.golfer : x \in seen.lines} = Snapped(w)
<1> DEFINE line(p) == [pairing |-> p, week |-> place[p],
                       sides |-> [l \in Labels |-> plays[<<p, l>>]]]
           snap(x) == [week |-> x[1], golfer |-> x[2], nine |-> snaps[x[1]][x[2]]]
           given == {y \in {w, to} \X Golfers : snaps[y[1]][y[2]] # "none"}
<1>1. /\ Seen("rain", w, to).held = {line(p) : p \in Within(w) \cup Within(to)}
      /\ Seen("rain", w, to).lines = {snap(x) : x \in given}
  BY DEF Seen
<1>2. \A p : line(p).pairing = p
             /\ \A l \in Labels : line(p).sides[l] = plays[<<p, l>>]
  OBVIOUS
<1>3. \A x : snap(x).golfer = x[2]
  OBVIOUS
<1>4. given = {w} \X Snapped(w)
  <2>1. \A g \in Golfers : snaps[to][g] = "none"
    BY DEF Snapped
  <2> QED
    BY <2>1 DEF Snapped
<1> HIDE DEF line, snap, given
<1>5. {x.pairing : x \in Seen("rain", w, to).held} = Within(w)
  BY <1>1, <1>2
<1>6. \A x \in Seen("rain", w, to).held, l \in Labels : x.sides[l] = plays[<<x.pairing, l>>]
  BY <1>1, <1>2
<1>7. {x.golfer : x \in Seen("rain", w, to).lines} = Snapped(w)
  <2>1. ASSUME NEW g \in Snapped(w)
        PROVE  \E x \in Seen("rain", w, to).lines : x.golfer = g
    <3>1. <<w, g>> \in given
      BY <1>4
    <3>2. snap(<<w, g>>) \in Seen("rain", w, to).lines
      BY <1>1, <3>1
    <3> QED
      BY <1>3, <3>2
  <2>2. ASSUME NEW x \in Seen("rain", w, to).lines
        PROVE  x.golfer \in Snapped(w)
    BY <1>1, <1>3, <1>4
  <2> QED
    BY <2>1, <2>2
<1> QED
  BY <1>5, <1>6, <1>7

\* A match changes its week by a rain date only, and all that moves with it was
\* on the page the admin confirmed.
THEOREM MovesAsShown == Spec => MovedAsShown
<1> DEFINE Moved(p) ==
              \E t \in Tabs :
                LET tab == tabs[t]
                IN  /\ tab.kind = "rain" /\ tab.week = place[p] /\ tab.to = place'[p]
                    /\ {x.pairing : x \in tab.seen.held} = Within(place[p])
                    /\ \A x \in tab.seen.held, l \in Labels : x.sides[l] = plays[<<x.pairing, l>>]
                    /\ {x.golfer : x \in tab.seen.lines} = Snapped(place[p])
<1>1. ASSUME Inv, [Next]_vars, NEW q \in Pairings, place[q] # 0, place'[q] # place[q]
      PROVE  Moved(q)
  <2>1. CASE UNCHANGED place
    BY <1>1, <2>1
  <2>2. ASSUME NEW t \in Tabs, ConfirmRain(t)
        PROVE  Moved(q)
    <3>1. PICK w, to \in Printed :
              /\ tabs[t].kind = "rain" /\ tabs[t].week = w /\ tabs[t].to = to
              /\ UpToDate(tabs[t])
              /\ w # to /\ w \in Weeks /\ to \in Weeks
              /\ weeks[w].nine \in Nines /\ weeks[to].nine = "none"
              /\ MatchesOf(w) \cap scored = {}
              /\ Within(to) = {} /\ Snapped(to) = {}
              /\ \A v \in Weeks \ {w, to} : weeks'[v] = weeks[v]
              /\ \A v \in Weeks : weeks'[v].date = weeks[v].date
              /\ weeks'[w].nine = weeks[w].nine
              /\ weeks'[to].nine = weeks[w].nine
              /\ weeks'[to].kind = "match" /\ weeks'[to].status = "scheduled"
              /\ weeks'[w] # NoWeek /\ weeks'[to] # NoWeek
              /\ place' = [p \in Pairings |-> IF place[p] = w THEN to ELSE place[p]]
              /\ snaps' = [v \in Weeks |-> [g \in Golfers |->
                    IF v = w THEN "none"
                    ELSE IF v = to /\ g \in Snapped(w) THEN weeks[w].nine
                    ELSE snaps[v][g]]]
              /\ UNCHANGED <<season, plays, scored, locked, tabs>>
      BY <1>1, <2>2, RainStep
    <3>2. place[q] = w /\ place'[q] = to
      BY <1>1, <3>1
    <3>3. tabs[t].seen = Seen("rain", w, to)
      BY <3>1 DEF UpToDate
    <3>4. /\ {x.pairing : x \in tabs[t].seen.held} = Within(w)
          /\ \A x \in tabs[t].seen.held, l \in Labels : x.sides[l] = plays[<<x.pairing, l>>]
          /\ {x.golfer : x \in tabs[t].seen.lines} = Snapped(w)
      BY <3>1, <3>3, RainSeen
    <3> QED
      BY <3>1, <3>2, <3>4
  <2>3. ASSUME NEW r \in Pairings, NEW w \in Weeks, NEW sides \in [Labels -> PlayedBy],
               Arrange(r, w, sides)
        PROVE  Moved(q)
    <3>1. place[r] \in {0, w} /\ place' = [place EXCEPT ![r] = w]
      BY <2>3 DEF Arrange
    <3>2. place \in [Pairings -> Weeks \cup {0}]
      BY <1>1 DEF Inv, Typed, TypeOK
    <3>3. place'[q] = place[q]
      BY <1>1, <3>1, <3>2
    <3> QED
      BY <1>1, <3>3
  <2>4. CASE FormNext
    BY <1>1, <2>1, <2>4, FormsOnlyShow DEF Inv, Typed, held
  <2>5. CASE ConfirmNext
    BY <2>1, <2>5 DEF ConfirmNext, EditWeek, ConfirmShift, ConfirmNine, held
  <2>6. CASE SeasonNext
    BY <2>1, <2>6 DEF SeasonNext, Generate, EditSeason, DeleteWeek, held
  <2>7. CASE ScoreNext
    BY <2>1, <2>7 DEF ScoreNext, SaveScores, ClearScores, Lock, Unlock
  <2>8. CASE UNCHANGED vars
    BY <2>1, <2>8 DEF vars
  <2> QED
    BY <1>1, <2>2, <2>3, <2>4, <2>5, <2>6, <2>7, <2>8 DEF Next, RainNext, MatchupNext
<1> DEFINE Step == \A p \in Pairings : place[p] # 0 /\ place'[p] # place[p] => Moved(p)
<1>2. Inv /\ [Next]_vars => [Step]_vars
  BY <1>1
<1> HIDE DEF Step
<1>3. Spec => [][Step]_vars
  BY <1>2, Invariance, PTL DEF Spec
<1> QED
  BY <1>3 DEF MovedAsShown, Step

\* Nines change as the confirmed preview listed them, and never otherwise: no
\* edit, rain date or shift turns a nine over.
THEOREM NinesChangeAsShown == Spec => NinesAsShown
<1> DEFINE Listed ==
              \E t \in Tabs :
                LET tab == tabs[t]
                    rows == tab.seen.rows
                IN  /\ tab.kind = "nine"
                    /\ \A v \in Printed : weeks'[v].nine =
                          IF v \in NineChanges(rows, tab.week, tab.nine, tab.all)
                          THEN Rotated(rows, tab.week, tab.nine)[v]
                          ELSE rows[v].nine
<1>1. ASSUME Inv, [Next]_vars, NEW w \in Printed, weeks[w].nine # "none",
             weeks'[w] # NoWeek, weeks'[w].nine # weeks[w].nine
      PROVE  Listed
  <2>0. /\ w \in Weeks /\ DOMAIN weeks = Weeks /\ weeks = [v \in Weeks |-> weeks[v]]
        /\ \A v \in Printed : v \in Weeks /\ weeks[v] \in Row
    BY <1>1, PrintedRow DEF Inv, Typed, TypeOK
  <2>1. CASE weeks'[w].nine = weeks[w].nine
    BY <1>1, <2>1
  <2>2. ASSUME NEW t \in Tabs, NEW edit \in Edits,
               EditWeek(t, edit.kind, edit.status, edit.makeup)
        PROVE  Listed
    <3>1. PICK x \in Printed :
              /\ \A v \in Weeks \ {x} : weeks'[v] = weeks[v]
              /\ weeks'[x].date = weeks[x].date /\ weeks'[x].nine = weeks[x].nine
              /\ weeks'[x].kind = edit.kind /\ weeks'[x].status = edit.status
              /\ weeks'[x] # NoWeek
              /\ edit.status \in Statuses
              /\ edit.kind = "rain_date" => weeks[x].kind = "rain_date"
              /\ edit.status = "cancelled" => Within(x) = {}
              /\ UNCHANGED <<season, held, tabs>>
      BY <1>1, <2>2, EditStep
    <3> QED
      BY <2>0, <2>1, <3>1
  <2>3. ASSUME NEW t \in Tabs, ConfirmShift(t)
        PROVE  Listed
    BY <1>1, <2>0, <2>1, <2>3, ShiftStep
  <2>4. ASSUME NEW t \in Tabs, ConfirmNine(t)
        PROVE  Listed
    <3> DEFINE tab == tabs[t]
               changed == NineChanges(weeks, tab.week, tab.nine, tab.all)
               rotated == Rotated(weeks, tab.week, tab.nine)
    <3>1. /\ tab.kind = "nine" /\ tab.seen = Seen("nine", tab.week, tab.to)
          /\ weeks' = [v \in Weeks |-> IF v \in changed
                                       THEN [weeks[v] EXCEPT !.nine = rotated[v]]
                                       ELSE weeks[v]]
      BY <2>4 DEF ConfirmNine, UpToDate
    <3>2. tab.seen.rows = weeks
      <4>1. tab.seen.rows = [v \in Weeks |-> weeks[v]]
        BY <3>1 DEF Seen
      <4> QED
        BY <2>0, <4>1
    <3> HIDE DEF changed, rotated
    <3>3. ASSUME NEW v \in Printed
          PROVE  weeks'[v].nine = IF v \in changed THEN rotated[v] ELSE weeks[v].nine
      <4>1. CASE v \in changed
        <5>1. weeks'[v] = [weeks[v] EXCEPT !.nine = rotated[v]] /\ weeks[v] \in Row
          BY <2>0, <3>1, <4>1
        <5> QED
          BY <4>1, <5>1 DEF Row
      <4>2. CASE v \notin changed
        BY <2>0, <3>1, <4>2
      <4> QED
        BY <4>1, <4>2
    <3> QED
      BY <3>1, <3>2, <3>3 DEF changed, rotated
  <2>5. ASSUME NEW t \in Tabs, ConfirmRain(t)
        PROVE  Listed
    <3>1. PICK x, to \in Printed :
              /\ tabs[t].kind = "rain" /\ tabs[t].week = x /\ tabs[t].to = to
              /\ UpToDate(tabs[t])
              /\ x # to /\ x \in Weeks /\ to \in Weeks
              /\ weeks[x].nine \in Nines /\ weeks[to].nine = "none"
              /\ MatchesOf(x) \cap scored = {}
              /\ Within(to) = {} /\ Snapped(to) = {}
              /\ \A v \in Weeks \ {x, to} : weeks'[v] = weeks[v]
              /\ \A v \in Weeks : weeks'[v].date = weeks[v].date
              /\ weeks'[x].nine = weeks[x].nine
              /\ weeks'[to].nine = weeks[x].nine
              /\ weeks'[to].kind = "match" /\ weeks'[to].status = "scheduled"
              /\ weeks'[x] # NoWeek /\ weeks'[to] # NoWeek
              /\ place' = [p \in Pairings |-> IF place[p] = x THEN to ELSE place[p]]
              /\ snaps' = [v \in Weeks |-> [g \in Golfers |->
                    IF v = x THEN "none"
                    ELSE IF v = to /\ g \in Snapped(x) THEN weeks[x].nine
                    ELSE snaps[v][g]]]
              /\ UNCHANGED <<season, plays, scored, locked, tabs>>
      BY <1>1, <2>5, RainStep
    <3> QED
      BY <1>1, <2>0, <2>1, <3>1
  <2>6. ASSUME NEW lines \in Proposals, Generate(lines)
        PROVE  Listed
    BY <1>1, <2>6 DEF Generate
  <2>7. ASSUME NEW x \in Weeks, DeleteWeek(x)
        PROVE  Listed
    BY <1>1, <2>0, <2>1, <2>7 DEF DeleteWeek
  <2>8. ASSUME NEW edit \in SeasonEdits, EditSeason(edit.end, edit.nine)
        PROVE  Listed
    BY <1>1, <2>8 DEF EditSeason
  <2>9. CASE FormNext
    BY <1>1, <2>1, <2>9, FormsOnlyShow DEF Inv, Typed
  <2>10. CASE ScoreNext
    BY <2>1, <2>10 DEF ScoreNext, SaveScores, ClearScores, Lock, Unlock
  <2>11. CASE MatchupNext
    BY <2>1, <2>11 DEF MatchupNext, Arrange
  <2>12. CASE UNCHANGED vars
    BY <2>1, <2>12 DEF vars
  <2> QED
    BY <1>1, <2>2, <2>3, <2>4, <2>5, <2>6, <2>7, <2>8, <2>9, <2>10, <2>11, <2>12
    DEF Next, ConfirmNext, RainNext, SeasonNext
<1> DEFINE Step == \A w \in Printed :
                      weeks[w].nine # "none" /\ weeks'[w] # NoWeek
                        /\ weeks'[w].nine # weeks[w].nine => Listed
<1>2. Inv /\ [Next]_vars => [Step]_vars
  BY <1>1
<1> HIDE DEF Step
<1>3. Spec => [][Step]_vars
  BY <1>2, Invariance, PTL DEF Spec
<1> QED
  BY <1>3 DEF NinesAsShown, Step

\* Dates change as the confirmed shift listed them, and never otherwise: of two
\* shifts, or a shift and an edit, the later one counts from what it showed.
THEOREM DatesChangeAsShown == Spec => DatesAsShown
<1> DEFINE Listed ==
              \E t \in Tabs :
                LET tab == tabs[t]
                    rows == tab.seen.rows
                IN  /\ tab.kind = "shift"
                    /\ \A v \in Printed : weeks'[v].date =
                          IF v >= tab.week
                          THEN rows[v].date + (tab.date - rows[tab.week].date)
                          ELSE rows[v].date
<1>1. ASSUME Inv, [Next]_vars, NEW w \in Printed,
             weeks'[w] # NoWeek, weeks'[w].date # weeks[w].date
      PROVE  Listed
  <2>0. /\ w \in Weeks /\ DOMAIN weeks = Weeks /\ weeks = [v \in Weeks |-> weeks[v]]
        /\ \A v \in Printed : v \in Weeks /\ weeks[v] \in Row
    BY <1>1, PrintedRow DEF Inv, Typed, TypeOK
  <2>1. CASE weeks' = weeks
    BY <1>1, <2>1
  <2>2. ASSUME NEW t \in Tabs, ConfirmShift(t)
        PROVE  Listed
    <3> DEFINE tab == tabs[t]
               moved == Shifted(tab.week, tab.date)
    <3>1. /\ tab.kind = "shift" /\ tab.seen = Seen("shift", tab.week, tab.to)
          /\ tab.week \in Printed
          /\ weeks' = [v \in Weeks |-> IF v \in Later(tab.week)
                                       THEN [weeks[v] EXCEPT !.date = moved[v]]
                                       ELSE weeks[v]]
      BY <2>2 DEF ConfirmShift, UpToDate, CanShift
    <3>2. tab.seen.rows = weeks
      <4>1. tab.seen.rows = [v \in Weeks |-> weeks[v]]
        BY <3>1 DEF Seen
      <4> QED
        BY <2>0, <4>1
    <3>3. tab.date \in Int
      BY <1>1, <3>1, WeeksAssumption DEF Inv, Typed, TabsOK, Dates
    <3>4. \A v \in Later(tab.week) : moved[v] = weeks[v].date + tab.date - weeks[tab.week].date
      BY DEF Shifted
    <3> HIDE DEF moved
    <3>5. ASSUME NEW v \in Printed
          PROVE  weeks'[v].date = IF v >= tab.week
                                  THEN weeks[v].date + (tab.date - weeks[tab.week].date)
                                  ELSE weeks[v].date
      <4>1. weeks[v].date \in Int /\ weeks[tab.week].date \in Int
        BY <2>0, <3>1, WeeksAssumption DEF Row, Dates
      <4>2. CASE v >= tab.week
        <5>1. v \in Later(tab.week)
          BY <4>2 DEF Later
        <5>2. weeks'[v] = [weeks[v] EXCEPT !.date = moved[v]] /\ weeks[v] \in Row
          BY <2>0, <3>1, <5>1
        <5>3. weeks'[v].date = moved[v]
          BY <5>2 DEF Row
        <5> QED
          BY <3>3, <3>4, <4>1, <4>2, <5>1, <5>3
      <4>3. CASE ~(v >= tab.week)
        BY <2>0, <3>1, <4>3 DEF Later
      <4> QED
        BY <4>2, <4>3
    <3> QED
      BY <3>1, <3>2, <3>5
  <2>3. ASSUME NEW t \in Tabs, NEW edit \in Edits,
               EditWeek(t, edit.kind, edit.status, edit.makeup)
        PROVE  Listed
    <3>1. PICK x \in Printed :
              /\ \A v \in Weeks \ {x} : weeks'[v] = weeks[v]
              /\ weeks'[x].date = weeks[x].date /\ weeks'[x].nine = weeks[x].nine
              /\ weeks'[x].kind = edit.kind /\ weeks'[x].status = edit.status
              /\ weeks'[x] # NoWeek
              /\ edit.status \in Statuses
              /\ edit.kind = "rain_date" => weeks[x].kind = "rain_date"
              /\ edit.status = "cancelled" => Within(x) = {}
              /\ UNCHANGED <<season, held, tabs>>
      BY <1>1, <2>3, EditStep
    <3> QED
      BY <1>1, <2>0, <3>1
  <2>4. ASSUME NEW t \in Tabs, ConfirmNine(t)
        PROVE  Listed
    <3> DEFINE changed == NineChanges(weeks, tabs[t].week, tabs[t].nine, tabs[t].all)
               rotated == Rotated(weeks, tabs[t].week, tabs[t].nine)
    <3>1. weeks' = [v \in Weeks |-> IF v \in changed
                                    THEN [weeks[v] EXCEPT !.nine = rotated[v]]
                                    ELSE weeks[v]]
      BY <2>4 DEF ConfirmNine
    <3> HIDE DEF changed, rotated
    <3>2. weeks'[w] = [weeks[w] EXCEPT !.nine = rotated[w]] \/ weeks'[w] = weeks[w]
      BY <2>0, <3>1
    <3>3. weeks'[w].date = weeks[w].date
      BY <2>0, <3>2 DEF Row
    <3> QED
      BY <1>1, <3>3
  <2>5. ASSUME NEW t \in Tabs, ConfirmRain(t)
        PROVE  Listed
    <3>1. \A v \in Weeks : weeks'[v].date = weeks[v].date
      BY <1>1, <2>5, RainStep
    <3> QED
      BY <1>1, <2>0, <3>1
  <2>6. ASSUME NEW lines \in Proposals, Generate(lines)
        PROVE  Listed
    BY <1>1, <2>6 DEF Generate
  <2>7. ASSUME NEW x \in Weeks, DeleteWeek(x)
        PROVE  Listed
    <3>1. weeks'[w] = NoWeek \/ weeks'[w] = weeks[w]
      BY <2>0, <2>7 DEF DeleteWeek
    <3> QED
      BY <1>1, <3>1
  <2>8. ASSUME NEW edit \in SeasonEdits, EditSeason(edit.end, edit.nine)
        PROVE  Listed
    BY <1>1, <2>8 DEF EditSeason
  <2>9. CASE FormNext
    BY <1>1, <2>1, <2>9, FormsOnlyShow DEF Inv, Typed
  <2>10. CASE ScoreNext
    BY <2>1, <2>10 DEF ScoreNext, SaveScores, ClearScores, Lock, Unlock
  <2>11. CASE MatchupNext
    BY <2>1, <2>11 DEF MatchupNext, Arrange
  <2>12. CASE UNCHANGED vars
    BY <2>1, <2>12 DEF vars
  <2> QED
    BY <1>1, <2>2, <2>3, <2>4, <2>5, <2>6, <2>7, <2>8, <2>9, <2>10, <2>11, <2>12
    DEF Next, ConfirmNext, RainNext, SeasonNext
<1> DEFINE Step == \A w \in Printed :
                      weeks'[w] # NoWeek /\ weeks'[w].date # weeks[w].date => Listed
<1>2. Inv /\ [Next]_vars => [Step]_vars
  BY <1>1
<1> HIDE DEF Step
<1>3. Spec => [][Step]_vars
  BY <1>2, Invariance, PTL DEF Spec
<1> QED
  BY <1>3 DEF DatesAsShown, Step

\* Matches and snapshots stay together, in weeks that take place.
THEOREM StaysTogether == Spec => []PlayedTogether
BY NothingInCancelledWeeks, SnapshotsRight, PTL DEF PlayedTogether

\* Confirmations change what their previews listed.
THEOREM ConfirmsAsShown == Spec => ConfirmedAsShown
BY MovesAsShown, NinesChangeAsShown, DatesChangeAsShown DEF ConfirmedAsShown

-----------------------------------------------------------------------------
(* Makeup links.                                                            *)

\* What a set of weeks links to stays in it.
Closed(D, makeup) == \A x \in D : makeup[x] = 0 \/ makeup[x] \in D

\* No week is reached from the week it makes up for.
Acyclic(makeup) == \A w \in Weeks : makeup[w] # 0 => w \notin Chain(makeup, makeup[w])

\* The same with sets instead of steps: the week made up for lies in a closed
\* set that leaves the week itself out.
Parted(makeup) ==
    \A u \in Weeks : makeup[u] # 0 =>
        \E D \in SUBSET Weeks : makeup[u] \in D /\ u \notin D /\ Closed(D, makeup)

Links == [Weeks -> Weeks \cup {0}]
Linked(makeup, x) == IF x = 0 THEN 0 ELSE makeup[x]
Follows(at, makeup, w) ==
    /\ at \in [0..Cardinality(Weeks) -> Weeks \cup {0}]
    /\ at[0] = w
    /\ \A k \in 1..Cardinality(Weeks) : at[k] = Linked(makeup, at[k - 1])

LEMMA HowMany == Cardinality(Weeks) \in Nat /\ IsFiniteSet(Weeks)
BY WeeksAssumption, FS_CardinalityType

\* A chain is what following the links passes through.
LEMMA ChainSteps ==
    ASSUME NEW makeup \in Links, NEW w \in Weeks
    PROVE  \E at : /\ Follows(at, makeup, w)
                   /\ Chain(makeup, w) = {at[k] : k \in 0..Cardinality(Weeks)} \ {0}
<1> DEFINE N == Cardinality(Weeks)
           step == [x \in Weeks \cup {0} |-> Linked(makeup, x)]
           Fits(g) == g = [k \in 0..N |-> IF k = 0 THEN w
                                          ELSE IF g[k - 1] = 0 THEN 0 ELSE makeup[g[k - 1]]]
           at == CHOOSE g : Fits(g)
<1>1. N \in Nat
  BY HowMany
<1>2. step \in [Weeks \cup {0} -> Weeks \cup {0}]
  BY ZeroIsNoWeek DEF Links, Linked
<1>3. Chain(makeup, w) = {at[k] : k \in 0..N} \ {0}
  BY DEF Chain
<1> HIDE DEF N
<1>4. PICK f \in [0..N -> Weeks \cup {0}] : f[0] = w /\ \A n \in 1..N : f[n] = step[f[n - 1]]
  <2>1. w \in Weeks \cup {0}
    OBVIOUS
  <2> HIDE DEF step
  <2>2. \E f : Iterated(f, Weeks \cup {0}, w, step, N)
    BY <1>1, <1>2, <2>1, Iterates
  <2> QED  BY <2>2 DEF Iterated
<1>5. \A n \in 1..N : f[n] = Linked(makeup, f[n - 1])
  <2> SUFFICES ASSUME NEW n \in 1..N PROVE f[n] = Linked(makeup, f[n - 1])
    OBVIOUS
  <2>1. f[n - 1] \in Weeks \cup {0}
    BY <1>1, <1>4
  <2> QED  BY <1>4, <2>1
<1>6. Fits(f)
  <2>1. ASSUME NEW k \in 0..N
        PROVE  f[k] = IF k = 0 THEN w ELSE IF f[k - 1] = 0 THEN 0 ELSE makeup[f[k - 1]]
    <3>1. k = 0 \/ k \in 1..N
      BY <1>1
    <3> QED  BY <1>1, <1>4, <1>5, <3>1 DEF Linked
  <2> QED  BY <1>4, <2>1
<1>7. Fits(at)
  BY <1>6
<1> HIDE DEF at
<1>8. DOMAIN at = 0..N /\ at[0] = w /\ \A n \in 1..N : at[n] = Linked(makeup, at[n - 1])
  <2>1. /\ DOMAIN at = 0..N
        /\ \A k \in 0..N : at[k] = IF k = 0 THEN w
                                   ELSE IF at[k - 1] = 0 THEN 0 ELSE makeup[at[k - 1]]
    BY <1>7
  <2>2. 0 \in 0..N /\ \A n \in 1..N : n \in 0..N /\ n # 0
    BY <1>1
  <2> QED  BY <2>1, <2>2 DEF Linked
<1> DEFINE Same == {n \in Nat : n <= N => at[n] \in Weeks \cup {0}}
<1>9. Same = Nat
  <2>1. 0 \in Same
    BY <1>8
  <2>2. ASSUME NEW n \in Same PROVE n + 1 \in Same
    <3> SUFFICES ASSUME n + 1 <= N PROVE at[n + 1] \in Weeks \cup {0}
      OBVIOUS
    <3>1. n \in Nat /\ at[n] \in Weeks \cup {0} /\ n + 1 \in 1..N /\ (n + 1) - 1 = n
      BY <1>1
    <3>2. at[n + 1] = Linked(makeup, at[n])
      BY <1>8, <3>1
    <3> QED  BY <3>1, <3>2, ZeroIsNoWeek DEF Linked, Links
  <2>3. Same \in SUBSET Nat
    OBVIOUS
  <2> HIDE DEF Same
  <2> QED  BY <2>1, <2>2, <2>3, SetInduction
<1>10. at \in [0..N -> Weeks \cup {0}]
  <2>1. \A n \in 0..N : at[n] \in Weeks \cup {0}
    BY <1>1, <1>9
  <2>2. at = [n \in 0..N |-> at[n]]
    BY <1>7
  <2> QED  BY <2>1, <2>2
<1> QED  BY <1>3, <1>8, <1>10 DEF Follows, N

\* A chain stays in every closed set that it starts in.
LEMMA ChainWithin ==
    ASSUME NEW makeup \in Links, NEW D \in SUBSET Weeks, NEW w \in D, Closed(D, makeup)
    PROVE  Chain(makeup, w) \subseteq D
<1> DEFINE N == Cardinality(Weeks)
<1>1. PICK at : Follows(at, makeup, w) /\ Chain(makeup, w) = {at[k] : k \in 0..N} \ {0}
  BY ChainSteps
<1> DEFINE In == {n \in Nat : n <= N => at[n] \in D \cup {0}}
<1>2. In = Nat
  <2>1. 0 \in In
    BY <1>1 DEF Follows
  <2>2. ASSUME NEW n \in In PROVE n + 1 \in In
    <3> SUFFICES ASSUME n + 1 <= N PROVE at[n + 1] \in D \cup {0}
      OBVIOUS
    <3>1. n \in Nat /\ at[n] \in D \cup {0} /\ n + 1 \in 1..N /\ (n + 1) - 1 = n
      BY HowMany
    <3>2. at[n + 1] = Linked(makeup, at[n])
      BY <1>1, <3>1 DEF Follows
    <3> QED  BY <3>1, <3>2 DEF Linked, Closed
  <2>3. In \in SUBSET Nat
    OBVIOUS
  <2> HIDE DEF In
  <2> QED  BY <2>1, <2>2, <2>3, SetInduction
<1>3. \A k \in 0..N : at[k] \in D \cup {0}
  BY <1>2, HowMany
<1> QED  BY <1>1, <1>3

\* Following the links from a week on the way goes on along the same way.
LEMMA ChainGoesOn ==
    ASSUME NEW makeup \in Links, NEW w \in Weeks, NEW v \in Weeks, NEW f, NEW g,
           Follows(f, makeup, w), Follows(g, makeup, v),
           NEW i \in 0..Cardinality(Weeks), f[i] = v
    PROVE  \A k \in Nat : i + k <= Cardinality(Weeks) => g[k] = f[i + k]
<1> DEFINE N == Cardinality(Weeks)
           Same == {n \in Nat : i + n <= N => g[n] = f[i + n]}
<1>1. N \in Nat /\ i \in Nat /\ i <= N
  BY HowMany
<1>2. 0 \in Same
  BY <1>1 DEF Follows
<1>3. ASSUME NEW n \in Same PROVE n + 1 \in Same
  <2> SUFFICES ASSUME i + (n + 1) <= N PROVE g[n + 1] = f[i + (n + 1)]
    OBVIOUS
  <2>1. /\ n \in Nat /\ g[n] = f[i + n]
        /\ n + 1 \in 1..N /\ (n + 1) - 1 = n
        /\ i + (n + 1) \in 1..N /\ (i + (n + 1)) - 1 = i + n
    BY <1>1
  <2>2. g[n + 1] = Linked(makeup, g[n]) /\ f[i + (n + 1)] = Linked(makeup, f[i + n])
    BY <2>1 DEF Follows
  <2> QED  BY <2>1, <2>2
<1>4. Same \in SUBSET Nat
  OBVIOUS
<1> HIDE DEF Same
<1>5. Same = Nat
  BY <1>2, <1>3, <1>4, SetInduction
<1> QED  BY <1>5 DEF Same

\* A chain that has ended stays ended.
LEMMA ChainStops ==
    ASSUME NEW makeup, NEW w, NEW at, Follows(at, makeup, w),
           NEW i \in 0..Cardinality(Weeks), at[i] = 0
    PROVE  \A k \in Nat : i + k <= Cardinality(Weeks) => at[i + k] = 0
<1> DEFINE N == Cardinality(Weeks)
           Ended == {n \in Nat : i + n <= N => at[i + n] = 0}
<1>1. N \in Nat
  BY HowMany
<1>2. 0 \in Ended
  BY <1>1
<1>3. ASSUME NEW n \in Ended PROVE n + 1 \in Ended
  <2> SUFFICES ASSUME i + (n + 1) <= N PROVE at[i + (n + 1)] = 0
    OBVIOUS
  <2>1. n \in Nat /\ at[i + n] = 0 /\ i + (n + 1) \in 1..N /\ (i + (n + 1)) - 1 = i + n
    BY <1>1
  <2> QED  BY <2>1 DEF Follows, Linked
<1>4. Ended \in SUBSET Nat
  OBVIOUS
<1> HIDE DEF Ended
<1>5. Ended = Nat
  BY <1>2, <1>3, <1>4, SetInduction
<1> QED  BY <1>5 DEF Ended

\* Without a cycle a chain ends before it has more steps than there are weeks,
\* so nothing it links to is left out.
LEMMA ChainClosed ==
    ASSUME NEW makeup \in Links, Acyclic(makeup), NEW w \in Weeks
    PROVE  w \in Chain(makeup, w) /\ Chain(makeup, w) \subseteq Weeks /\ Closed(Chain(makeup, w), makeup)
<1> DEFINE N == Cardinality(Weeks)
<1>1. PICK at : Follows(at, makeup, w) /\ Chain(makeup, w) = {at[k] : k \in 0..N} \ {0}
  BY ChainSteps
<1>2. N \in Nat /\ 0 \in 0..N /\ N \in 0..N
  BY HowMany
<1>3. /\ at \in [0..N -> Weeks \cup {0}] /\ at[0] = w
      /\ \A k \in 1..N : at[k] = Linked(makeup, at[k - 1])
  BY <1>1 DEF Follows
<1>4. w \in Chain(makeup, w) /\ Chain(makeup, w) \subseteq Weeks
  BY <1>1, <1>2, <1>3, ZeroIsNoWeek
<1>5. ASSUME NEW i \in 0..N, NEW j \in 0..N, i < j, at[i] # 0, at[j] = at[i]
      PROVE  FALSE
  <2>1. i + 1 \in 1..N /\ i + 1 \in 0..N /\ (i + 1) - 1 = i
    BY <1>2, <1>5
  <2>2. at[i] \in Weeks /\ at[i + 1] = makeup[at[i]]
    BY <1>3, <1>5, <2>1 DEF Linked
  <2>3. at[i + 1] # 0
    <3> SUFFICES ASSUME at[i + 1] = 0 PROVE FALSE
      OBVIOUS
    <3>1. j - (i + 1) \in Nat /\ (i + 1) + (j - (i + 1)) = j /\ j <= N
      BY <1>2, <1>5
    <3>2. at[j] = 0
      BY <1>1, <2>1, <3>1, ChainStops
    <3> QED  BY <1>5, <3>2
  <2>4. at[i + 1] \in Weeks
    BY <1>3, <2>1, <2>3
  <2>5. PICK g : /\ Follows(g, makeup, at[i + 1])
                 /\ Chain(makeup, at[i + 1]) = {g[k] : k \in 0..N} \ {0}
    BY <2>4, ChainSteps
  <2>6. \A k \in Nat : (i + 1) + k <= N => g[k] = at[(i + 1) + k]
    BY <1>1, <2>1, <2>4, <2>5, ChainGoesOn
  <2>7. j - (i + 1) \in Nat /\ j - (i + 1) \in 0..N /\ (i + 1) + (j - (i + 1)) = j /\ j <= N
    BY <1>2, <1>5
  <2>8. g[j - (i + 1)] = at[i]
    BY <1>5, <2>6, <2>7
  <2>9. at[i] \in Chain(makeup, at[i + 1])
    BY <1>5, <2>5, <2>7, <2>8
  <2> QED  BY <2>2, <2>3, <2>9 DEF Acyclic
<1>6. at[N] = 0
  <2> SUFFICES ASSUME at[N] # 0 PROVE FALSE
    OBVIOUS
  <2>1. ASSUME NEW i \in 0..N, at[i] = 0 PROVE FALSE
    <3>1. N - i \in Nat /\ i + (N - i) = N
      BY <1>2
    <3> QED  BY <1>1, <2>1, <3>1, ChainStops
  <2>2. at \in [0..N -> Weeks]
    BY <1>3, <2>1
  <2>3. IsFiniteSet(0..N) /\ Cardinality(0..N) = N + 1
    <3>1. IsFiniteSet(0..N) /\ Cardinality(0..N) = IF 0 > N THEN 0 ELSE N - 0 + 1
      BY <1>2, FS_Interval
    <3> QED  BY <1>2, <3>1
  <2>4. IsFiniteSet(Weeks) /\ Cardinality(Weeks) < Cardinality(0..N)
    BY <1>2, <2>3, HowMany
  <2>5. PICK i, j \in 0..N : i # j /\ at[i] = at[j]
    BY <2>2, <2>3, <2>4, FS_PigeonHole
  <2>6. at[i] # 0 /\ at[j] # 0 /\ (i < j \/ j < i)
    BY <1>2, <2>1, <2>5
  <2> QED  BY <1>5, <2>5, <2>6
<1>7. ASSUME NEW x \in Chain(makeup, w) PROVE makeup[x] = 0 \/ makeup[x] \in Chain(makeup, w)
  <2>1. PICK k \in 0..N : x = at[k] /\ x # 0
    BY <1>1
  <2>2. k + 1 \in 1..N /\ k + 1 \in 0..N /\ (k + 1) - 1 = k
    BY <1>2, <1>6, <2>1
  <2>3. at[k + 1] = makeup[x]
    BY <1>3, <2>1, <2>2 DEF Linked
  <2> QED  BY <1>1, <2>2, <2>3
<1> QED  BY <1>4, <1>7 DEF Closed

LEMMA AcyclicIsParted ==
    ASSUME NEW makeup \in Links
    PROVE  Acyclic(makeup) <=> Parted(makeup)
<1>1. ASSUME Acyclic(makeup), NEW u \in Weeks, makeup[u] # 0
      PROVE  \E D \in SUBSET Weeks : makeup[u] \in D /\ u \notin D /\ Closed(D, makeup)
  <2>1. makeup[u] \in Weeks
    BY <1>1 DEF Links
  <2>2. u \notin Chain(makeup, makeup[u])
    BY <1>1 DEF Acyclic
  <2> QED  BY <1>1, <2>1, <2>2, ChainClosed
<1>2. ASSUME Parted(makeup), NEW u \in Weeks, makeup[u] # 0
      PROVE  u \notin Chain(makeup, makeup[u])
  <2>1. PICK D \in SUBSET Weeks : makeup[u] \in D /\ u \notin D /\ Closed(D, makeup)
    BY <1>2 DEF Parted
  <2> QED  BY <2>1, ChainWithin
<1> QED  BY <1>1, <1>2 DEF Acyclic, Parted

\* A link to a week that does not lead back closes no cycle.
LEMMA LinkAdded ==
    ASSUME NEW makeup \in Links, Acyclic(makeup), NEW w \in Weeks, NEW v \in Weeks,
           w \notin Chain(makeup, v)
    PROVE  [makeup EXCEPT ![w] = v] \in Links /\ Acyclic([makeup EXCEPT ![w] = v])
<1> DEFINE now == [makeup EXCEPT ![w] = v]
           C == Chain(makeup, v)
<1>1. now \in Links /\ now[w] = v /\ \A x \in Weeks \ {w} : now[x] = makeup[x]
  BY DEF Links
<1>2. v \in C /\ C \subseteq Weeks /\ Closed(C, makeup) /\ w \notin C
  BY ChainClosed
<1>3. Parted(makeup)
  BY AcyclicIsParted
<1> HIDE DEF now, C
<1>4. ASSUME NEW u \in Weeks, now[u] # 0
      PROVE  \E D \in SUBSET Weeks : now[u] \in D /\ u \notin D /\ Closed(D, now)
  <2>1. CASE u = w
    <3>1. Closed(C, now)
      BY <1>1, <1>2 DEF Closed
    <3> QED  BY <1>1, <1>2, <2>1, <3>1
  <2>2. CASE u # w
    <3>1. now[u] = makeup[u]
      BY <1>1, <2>2
    <3>2. PICK D \in SUBSET Weeks : makeup[u] \in D /\ u \notin D /\ Closed(D, makeup)
      BY <1>3, <1>4, <3>1 DEF Parted
    <3>3. CASE w \notin D
      <4>1. Closed(D, now)
        BY <1>1, <3>2, <3>3 DEF Closed
      <4> QED  BY <3>1, <3>2, <4>1
    <3>4. CASE u \in C
      <4>1. makeup[u] \in D \cap C /\ D \cap C \in SUBSET Weeks
        BY <1>2, <1>4, <3>1, <3>2, <3>4 DEF Closed
      <4>2. Closed(D \cap C, now)
        BY <1>1, <1>2, <3>2 DEF Closed
      <4> QED  BY <3>1, <3>2, <4>1, <4>2
    <3>5. CASE u \notin C /\ w \in D
      <4>1. makeup[u] \in D \cup C /\ D \cup C \in SUBSET Weeks /\ u \notin D \cup C
        BY <1>2, <3>2, <3>5
      <4>2. Closed(D \cup C, now)
        <5> SUFFICES ASSUME NEW x \in D \cup C PROVE now[x] = 0 \/ now[x] \in D \cup C
          BY DEF Closed
        <5>1. CASE x = w
          BY <1>1, <1>2, <5>1
        <5>2. CASE x # w
          BY <1>1, <1>2, <3>2, <5>2 DEF Closed
        <5> QED  BY <5>1, <5>2
      <4> QED  BY <3>1, <4>1, <4>2
    <3> QED  BY <3>3, <3>4, <3>5
  <2> QED  BY <2>1, <2>2
<1>5. Acyclic(now)
  BY <1>1, <1>4, AcyclicIsParted DEF Parted
<1> QED  BY <1>1, <1>5 DEF now

\* Links that are taken away close no cycle either.
LEMMA LinksRemoved ==
    ASSUME NEW makeup \in Links, Acyclic(makeup), NEW now \in Links,
           \A x \in Weeks : now[x] \in {makeup[x], 0}
    PROVE  Acyclic(now)
<1>1. Parted(makeup)
  BY AcyclicIsParted
<1>2. ASSUME NEW u \in Weeks, now[u] # 0
      PROVE  \E D \in SUBSET Weeks : now[u] \in D /\ u \notin D /\ Closed(D, now)
  <2>1. now[u] = makeup[u]
    BY <1>2
  <2>2. PICK D \in SUBSET Weeks : makeup[u] \in D /\ u \notin D /\ Closed(D, makeup)
    BY <1>1, <1>2, <2>1 DEF Parted
  <2>3. Closed(D, now)
    BY <2>2 DEF Closed
  <2> QED  BY <2>1, <2>2, <2>3
<1>3. Parted(now)
  BY <1>2 DEF Parted
<1> QED  BY <1>3, AcyclicIsParted

\* What the actions keep: a link is to a printed week, and no cycle is closed.
MakeupsKept ==
    /\ \A w \in Weeks : weeks[w].makeup \in Printed \cup {0}
    /\ Acyclic(Makeups)

LEMMA MakeupsAreLinks ==
    ASSUME MakeupsKept
    PROVE  Makeups \in Links /\ \A w \in Weeks : Makeups[w] = weeks[w].makeup
BY DEF MakeupsKept, Makeups, Links, Printed

\* A step that leaves links alone and removes no row.
LEMMA LinksLeftAlone ==
    ASSUME MakeupsKept,
           \A w \in Weeks : weeks'[w].makeup = weeks[w].makeup
                            /\ (weeks[w] # NoWeek => weeks'[w] # NoWeek)
    PROVE  MakeupsKept'
<1>1. Makeups' = Makeups
  BY DEF Makeups
<1>2. Printed \subseteq Printed'
  BY DEF Printed
<1> QED  BY <1>1, <1>2 DEF MakeupsKept

\* A step that gives week w a link to a week that does not lead to it.
LEMMA OneLink ==
    ASSUME MakeupsKept, NEW w \in Weeks, NEW v \in Printed,
           w \notin Chain(Makeups, v),
           weeks'[w].makeup = v,
           \A u \in Weeks \ {w} : weeks'[u].makeup = weeks[u].makeup,
           \A u \in Weeks : weeks[u] # NoWeek => weeks'[u] # NoWeek
    PROVE  MakeupsKept'
<1>1. Makeups \in Links /\ v \in Weeks /\ Acyclic(Makeups)
  BY MakeupsAreLinks DEF Printed, MakeupsKept
<1>2. Makeups' = [Makeups EXCEPT ![w] = v]
  BY DEF Makeups
<1>3. Acyclic(Makeups')
  BY <1>1, <1>2, LinkAdded
<1>4. Printed \subseteq Printed'
  BY DEF Printed
<1>5. \A u \in Weeks : weeks'[u].makeup \in Printed' \cup {0}
  BY <1>4 DEF MakeupsKept
<1> QED  BY <1>3, <1>5 DEF MakeupsKept

LEMMA MakeupsInit == Init => MakeupsKept
<1> SUFFICES ASSUME Init PROVE MakeupsKept
  OBVIOUS
<1>1. \A w \in Weeks : weeks[w].makeup = 0
  BY DEF Init, NoWeek
<1>2. \A w \in Weeks : Makeups[w] = 0
  BY <1>1 DEF Makeups
<1> QED  BY <1>1, <1>2 DEF MakeupsKept, Acyclic

\* An edit links to a week whose chain does not come back, or takes the link.
LEMMA EditKeepsMakeups ==
    ASSUME Inv, MakeupsKept, NEW t \in Tabs, NEW edit \in Edits,
           EditWeek(t, edit.kind, edit.status, edit.makeup)
    PROVE  MakeupsKept'
<1> DEFINE w == tabs[t].week
<1>1. /\ w \in Printed
      /\ edit.makeup # 0 => edit.makeup \in Printed /\ w \notin Chain(Makeups, edit.makeup)
      /\ weeks' = [weeks EXCEPT ![w].kind = edit.kind, ![w].status = edit.status,
                                ![w].makeup = edit.makeup]
  BY DEF EditWeek, CanEdit
<1> HIDE DEF w
<1>2. w \in Weeks /\ weeks[w] \in Row
  BY <1>1, PrintedRow
<1>3. DOMAIN weeks = Weeks
  BY DEF Inv, Typed, TypeOK
<1>4. edit \in Line
  BY WeeksAssumption
<1>5. weeks'[w] = [weeks[w] EXCEPT !.kind = edit.kind, !.status = edit.status,
                                   !.makeup = edit.makeup]
  BY <1>1, <1>2, <1>3
<1>6. weeks'[w].makeup = edit.makeup /\ weeks'[w].kind = edit.kind
  BY <1>2, <1>5 DEF Row
<1>7. weeks'[w] # NoWeek
  BY <1>4, <1>6 DEF Line, Kinds, NoWeek
<1>8. \A v \in Weeks \ {w} : weeks'[v] = weeks[v]
  BY <1>1, <1>2, <1>3
<1>9. CASE edit.makeup # 0
  <2> DEFINE v == edit.makeup
  <2>1. v \in Printed /\ w \notin Chain(Makeups, v)
    BY <1>1, <1>9
  <2> HIDE DEF v
  <2>2. weeks'[w].makeup = v
    BY <1>6 DEF v
  <2> QED  BY <1>2, <1>7, <1>8, <2>1, <2>2, OneLink
<1>10. CASE edit.makeup = 0
  <2>1. Makeups \in Links /\ Acyclic(Makeups) /\ \A x \in Weeks : Makeups[x] = weeks[x].makeup
    BY MakeupsAreLinks DEF MakeupsKept
  <2>2. Printed \subseteq Printed'
    BY <1>7, <1>8 DEF Printed
  <2>3. \A x \in Weeks : weeks'[x].makeup \in {weeks[x].makeup, 0}
    BY <1>6, <1>8, <1>10
  <2>4. \A x \in Weeks : weeks'[x].makeup \in Printed' \cup {0}
    BY <2>2, <2>3 DEF MakeupsKept
  <2>5. Makeups' \in Links /\ \A x \in Weeks : Makeups'[x] = weeks'[x].makeup
    BY <2>4 DEF Makeups, Links, Printed
  <2>6. Acyclic(Makeups')
    BY <2>1, <2>3, <2>5, LinksRemoved
  <2> QED  BY <2>4, <2>6 DEF MakeupsKept
<1> QED  BY <1>9, <1>10

\* A rain date is linked to the week it makes up for, which does not lead to it.
LEMMA RainKeepsMakeups ==
    ASSUME Inv, MakeupsKept, NEW t \in Tabs, ConfirmRain(t)
    PROVE  MakeupsKept'
<1> DEFINE w == tabs[t].week
           to == tabs[t].to
<1>1. /\ w \in Printed /\ to \in Printed
      /\ weeks[w].kind = "match" /\ weeks[to].kind = "rain_date"
      /\ to \notin Chain(Makeups, w)
      /\ weeks' = [weeks EXCEPT ![w].status = "cancelled",
                                ![to].kind = "match", ![to].status = "scheduled",
                                ![to].nine = weeks[w].nine, ![to].makeup = w]
  BY DEF ConfirmRain, CanRain
<1> HIDE DEF w, to
<1>2. w \in Weeks /\ to \in Weeks /\ weeks[w] \in Row /\ weeks[to] \in Row /\ w # to
  BY <1>1, PrintedRow
<1>3. DOMAIN weeks = Weeks
  BY DEF Inv, Typed, TypeOK
<1>4. weeks'[w] = [weeks[w] EXCEPT !.status = "cancelled"]
  BY <1>1, <1>2, <1>3
<1>5. weeks'[to] = [weeks[to] EXCEPT !.kind = "match", !.status = "scheduled",
                                     !.nine = weeks[w].nine, !.makeup = w]
  BY <1>1, <1>2, <1>3
<1>6. \A v \in Weeks \ {w, to} : weeks'[v] = weeks[v]
  BY <1>1, <1>2, <1>3
<1>7. weeks'[w].makeup = weeks[w].makeup /\ weeks'[w].kind = "match"
  BY <1>1, <1>2, <1>4 DEF Row
<1>8. weeks'[to].makeup = w /\ weeks'[to].kind = "match"
  BY <1>2, <1>5 DEF Row
<1>9. \A u \in Weeks : weeks[u] # NoWeek => weeks'[u] # NoWeek
  BY <1>6, <1>7, <1>8 DEF NoWeek
<1>10. \A u \in Weeks \ {to} : weeks'[u].makeup = weeks[u].makeup
  BY <1>6, <1>7
<1> QED  BY <1>1, <1>2, <1>8, <1>9, <1>10, OneLink

\* Only a week that no other is a makeup for is deleted.
LEMMA DeleteKeepsMakeups ==
    ASSUME Inv, MakeupsKept, NEW w \in Weeks, DeleteWeek(w)
    PROVE  MakeupsKept'
<1>1. /\ \A v \in Weeks : weeks[v].makeup # w
      /\ weeks' = [weeks EXCEPT ![w] = NoWeek]
  BY DEF DeleteWeek
<1>2. DOMAIN weeks = Weeks
  BY DEF Inv, Typed, TypeOK
<1>3. weeks'[w] = NoWeek /\ \A v \in Weeks \ {w} : weeks'[v] = weeks[v]
  BY <1>1, <1>2
<1>4. NoWeek.makeup = 0
  BY DEF NoWeek
<1>5. Printed \ {w} \subseteq Printed'
  BY <1>3 DEF Printed
<1>6. \A x \in Weeks : weeks'[x].makeup \in {weeks[x].makeup, 0}
  BY <1>3, <1>4
<1>7. \A x \in Weeks : weeks'[x].makeup \in Printed' \cup {0}
  BY <1>1, <1>5, <1>6 DEF MakeupsKept
<1>8. Makeups' \in Links /\ \A x \in Weeks : Makeups'[x] = weeks'[x].makeup
  BY <1>7 DEF Makeups, Links, Printed
<1>9. Makeups \in Links /\ Acyclic(Makeups) /\ \A x \in Weeks : Makeups[x] = weeks[x].makeup
  BY MakeupsAreLinks DEF MakeupsKept
<1>10. Acyclic(Makeups')
  BY <1>6, <1>8, <1>9, LinksRemoved
<1> QED  BY <1>7, <1>10 DEF MakeupsKept

\* Generating checks the links of all its lines at once.
LEMMA GenerateKeepsMakeups ==
    ASSUME NEW lines \in Proposals, Generate(lines)
    PROVE  MakeupsKept'
<1> DEFINE makeup == [v \in Weeks |-> IF v \in DOMAIN lines THEN lines[v].makeup ELSE 0]
<1>1. /\ DOMAIN lines \subseteq Weeks
      /\ \A w \in DOMAIN lines :
            /\ makeup[w] \in (DOMAIN lines \cup {0}) \ {w}
            /\ makeup[w] # 0 => w \notin Chain(makeup, makeup[w])
  BY DEF Generate
<1>2. /\ \A w \in Weeks \ DOMAIN lines : weeks'[w] = NoWeek
      /\ \A w \in DOMAIN lines : weeks'[w].kind = lines[w].kind
                                 /\ weeks'[w].makeup = lines[w].makeup
  BY <1>1 DEF Generate
<1>3. \A w \in Weeks : weeks'[w].makeup = makeup[w]
  BY <1>2 DEF NoWeek
<1>4. Makeups' = makeup
  BY <1>3 DEF Makeups
<1>5. \A w \in DOMAIN lines : lines[w] \in Line
  BY WeeksAssumption
<1>6. DOMAIN lines \subseteq Printed'
  BY <1>1, <1>2, <1>5 DEF Printed, Line, Kinds, NoWeek
<1>7. \A w \in Weeks \ DOMAIN lines : makeup[w] = 0
  OBVIOUS
<1> HIDE DEF makeup
<1>8. \A w \in Weeks : weeks'[w].makeup \in Printed' \cup {0}
  BY <1>1, <1>3, <1>6, <1>7
<1>9. Acyclic(makeup)
  BY <1>1, <1>7 DEF Acyclic
<1> QED  BY <1>4, <1>8, <1>9 DEF MakeupsKept

\* A shift changes dates, a change of nine changes nines.
LEMMA ConfirmKeepsMakeups ==
    ASSUME Inv, MakeupsKept, NEW t \in Tabs, ConfirmShift(t) \/ ConfirmNine(t)
    PROVE  MakeupsKept'
<1>1. \A w \in Weeks : weeks[w] = NoWeek \/ weeks[w] \in Row
  BY DEF Inv, Typed, TypeOK
<1>2. CASE ConfirmShift(t)
  <2> DEFINE s == tabs[t].week
             moved(v) == Shifted(s, tabs[t].date)[v]
  <2>1. weeks' = [v \in Weeks |-> IF v \in Later(s) THEN [weeks[v] EXCEPT !.date = moved(v)]
                                  ELSE weeks[v]]
    BY <1>2 DEF ConfirmShift
  <2>2. Later(s) \subseteq Printed
    BY DEF Later
  <2> HIDE DEF moved, s
  <2>3. ASSUME NEW w \in Weeks
        PROVE  weeks'[w].makeup = weeks[w].makeup /\ (weeks[w] # NoWeek => weeks'[w] # NoWeek)
    <3>1. CASE w \in Later(s)
      <4>1. weeks[w] \in Row
        BY <1>1, <2>2, <3>1 DEF Printed
      <4>2. weeks'[w] = [weeks[w] EXCEPT !.date = moved(w)]
        BY <2>1, <3>1
      <4>3. weeks'[w].makeup = weeks[w].makeup /\ weeks'[w].kind = weeks[w].kind
        BY <4>1, <4>2 DEF Row
      <4> QED  BY <4>1, <4>3 DEF Row, Kinds, NoWeek
    <3>2. CASE w \notin Later(s)
      BY <2>1, <3>2
    <3> QED  BY <3>1, <3>2
  <2> QED  BY <2>3, LinksLeftAlone
<1>3. CASE ConfirmNine(t)
  <2> DEFINE rotated == Rotated(weeks, tabs[t].week, tabs[t].nine)
             changed == NineChanges(weeks, tabs[t].week, tabs[t].nine, tabs[t].all)
  <2>1. weeks' = [v \in Weeks |-> IF v \in changed THEN [weeks[v] EXCEPT !.nine = rotated[v]]
                                  ELSE weeks[v]]
    BY <1>3 DEF ConfirmNine
  <2>2. \A v \in changed : v \in Weeks /\ rotated[v] # weeks[v].nine
    BY DEF NineChanges
  <2>3. \A v \in Weeks : weeks[v] = NoWeek => rotated[v] = weeks[v].nine
    BY DEF Rotated, NoWeek
  <2> HIDE DEF rotated, changed
  <2>4. ASSUME NEW w \in Weeks
        PROVE  weeks'[w].makeup = weeks[w].makeup /\ (weeks[w] # NoWeek => weeks'[w] # NoWeek)
    <3>1. CASE w \in changed
      <4>1. weeks[w] \in Row
        BY <1>1, <2>2, <2>3, <3>1
      <4>2. weeks'[w] = [weeks[w] EXCEPT !.nine = rotated[w]]
        BY <2>1, <3>1
      <4>3. weeks'[w].makeup = weeks[w].makeup /\ weeks'[w].kind = weeks[w].kind
        BY <4>1, <4>2 DEF Row
      <4> QED  BY <4>1, <4>3 DEF Row, Kinds, NoWeek
    <3>2. CASE w \notin changed
      BY <2>1, <3>2
    <3> QED  BY <3>1, <3>2
  <2> QED  BY <2>4, LinksLeftAlone
<1> QED  BY <1>2, <1>3

LEMMA MakeupsNext == Inv /\ MakeupsKept /\ [Next]_vars => MakeupsKept'
<1> SUFFICES ASSUME Inv, MakeupsKept, [Next]_vars PROVE MakeupsKept'
  OBVIOUS
<1>1. ASSUME UNCHANGED weeks PROVE MakeupsKept'
  BY <1>1, LinksLeftAlone
<1>2. CASE FormNext
  BY <1>1, <1>2, FormsOnlyShow DEF Inv, Typed
<1>3. CASE ConfirmNext
  <2>1. PICK t \in Tabs :
           \/ \E edit \in Edits : EditWeek(t, edit.kind, edit.status, edit.makeup)
           \/ ConfirmShift(t)
           \/ ConfirmNine(t)
    BY <1>3 DEF ConfirmNext
  <2>2. CASE \E edit \in Edits : EditWeek(t, edit.kind, edit.status, edit.makeup)
    BY <2>2, EditKeepsMakeups
  <2> QED  BY <2>1, <2>2, ConfirmKeepsMakeups
<1>4. CASE RainNext
  BY <1>4, RainKeepsMakeups DEF RainNext
<1>5. CASE SeasonNext
  <2>1. CASE \E lines \in Proposals : Generate(lines)
    BY <2>1, GenerateKeepsMakeups
  <2>2. CASE \E edit \in SeasonEdits : EditSeason(edit.end, edit.nine)
    BY <1>1, <2>2 DEF EditSeason
  <2>3. CASE \E w \in Weeks : DeleteWeek(w)
    BY <2>3, DeleteKeepsMakeups
  <2> QED  BY <1>5, <2>1, <2>2, <2>3 DEF SeasonNext
<1>6. CASE ScoreNext
  BY <1>1, <1>6 DEF ScoreNext, SaveScores, ClearScores, Lock, Unlock
<1>7. CASE MatchupNext
  BY <1>1, <1>7 DEF MatchupNext, Arrange
<1>8. CASE UNCHANGED vars
  BY <1>1, <1>8 DEF vars
<1> QED  BY <1>2, <1>3, <1>4, <1>5, <1>6, <1>7, <1>8 DEF Next

\* Following "makeup for" ends, for any number of weeks: the form that edits a
\* week, the lines the weeks are generated from and the rain dates each look
\* for a cycle in their own way, and deleting leaves no link without its week.
THEOREM MakeupsAlwaysEnd == Spec => []MakeupsEnd
<1>1. MakeupsKept => MakeupsEnd
  <2> SUFFICES ASSUME MakeupsKept PROVE MakeupsEnd
    OBVIOUS
  <2>1. \A w \in Weeks : Makeups[w] = weeks[w].makeup
    BY MakeupsAreLinks
  <2>2. \A w \in Weeks : weeks[w].makeup # 0 => w \notin Chain(Makeups, weeks[w].makeup)
    BY <2>1 DEF MakeupsKept, Acyclic
  <2> QED  BY <2>2 DEF MakeupsKept, MakeupsEnd, Printed
<1> QED
  BY <1>1, Invariance, MakeupsInit, MakeupsNext, PTL DEF Spec
=============================================================================
