------------------------------- MODULE Scores -------------------------------
(***************************************************************************)
(* The scores of one week: services/scores.py and the pages that post to   *)
(* it.  A week has matches of two golfers; a match has hole rows, a        *)
(* revision and a lock.  People open pages, type, and post later, so every *)
(* write meets a week that may have moved on.  Each service call reserves  *)
(* SQLite's single writer first and is one step here; a page is read in    *)
(* two steps, the match's state before its rows, outside a transaction.    *)
(***************************************************************************)
EXTENDS Naturals, FiniteSets

CONSTANTS
    Matches,      \* player matches of the week
    Golfers,
    Holes,        \* the holes of the week's nine
    Strokes,      \* the scores a hole can have
    Players,      \* accounts that act as players
    Admins,       \* accounts that act through the admin pages
    GolferOf,     \* the golfer a player's account is linked to, or NoOne
    TeamMembers,  \* golfers with a team slot this season: never substitutes
    FirstSides,   \* the sides the matches were generated with
    Pages,        \* the pages people may have open
    Opened,       \* bound: the matches each page is opened for
    WeekEdits,    \* bound: whether the week's "type" and "date" are edited
    MaxRevision,  \* bound: a match is changed at most this often
    NoOne

Users == Players \cup Admins
Sides == {"a", "b"}

\* A page belongs to an account acting as a player or through the admin pages.
\* "match" is the form of one match, "sheet" the admin week sheet, and "post"
\* the sheet the server reads again when the week sheet is posted.
PlayerPage == [user : Players, admin : {FALSE}, kind : {"match"}]
AdminPage == [user : Admins, admin : {TRUE}, kind : {"match", "sheet", "post"}]

ASSUME ScoresAssumption ==
    /\ IsFiniteSet(Matches)
    /\ Holes # {}
    /\ Strokes \subseteq 1..15
    /\ NoOne \notin Golfers \cup Users
    /\ GolferOf \in [Players -> Golfers \cup {NoOne}]
    /\ FirstSides \in [Matches -> [Sides -> Golfers]]
    /\ Pages \subseteq PlayerPage \cup AdminPage
    /\ \A p \in AdminPage : p.kind = "sheet" =>
          (p \in Pages <=> [p EXCEPT !.kind = "post"] \in Pages)
    /\ Opened \in [Pages -> SUBSET Matches]
    /\ MaxRevision \in Nat

VARIABLES
    weekType,   \* Week.week_type: only a match week takes scores
    reached,    \* whether Week.play_date is today or earlier
    sides,      \* PlayerMatch.a_golfer_id and b_golfer_id
    rows,       \* HoleScore rows by match, golfer and hole
    rev,        \* MatchScoreState.revision, 0 when there is no row yet
    locked,     \* matches whose MatchScoreState.locked_at is set
    changedBy,  \* MatchScoreState.scores_changed_by_user_id
    forms       \* what each open page carries for each match

vars == <<weekType, reached, sides, rows, rev, locked, changedBy, forms>>

-----------------------------------------------------------------------------
(* Rows, cards and forms.  Strokes 0 stand for a row that does not exist.   *)

Row == [strokes : Strokes, by : Users]
NoRow == [strokes |-> 0, by |-> NoOne]
Empty == [g \in Golfers |-> [h \in Holes |-> NoRow]]
Shown == [Golfers -> [Holes -> Strokes \cup {0}]]
Form == [phase : {"none", "state", "shown"}, rev : 0..MaxRevision,
         inputs : SUBSET Golfers, seen : Shown]
Blank == [g \in Golfers |-> [h \in Holes |-> 0]]
NoForm == [phase |-> "none", rev |-> 0, inputs |-> {}, seen |-> Blank]

Saved(m, g) == \E h \in Holes : rows[m][g][h] # NoRow
Full(m, g) == \A h \in Holes : rows[m][g][h] # NoRow
StrokesOf(m) == [g \in Golfers |-> [h \in Holes |-> rows[m][g][h].strokes]]

PlayersOf(m) == {sides[m]["a"], sides[m]["b"]}
PlaysInWeek(g) == \E m \in Matches : g \in PlayersOf(m)
Complete(m) == \A g \in PlayersOf(m) : Full(m, g)
Scored(m) == \E g \in Golfers : Saved(m, g)

-----------------------------------------------------------------------------
(* Who may write what.                                                      *)

\* Slip: the week's type is not looked at.
WeekTakesAnyType(actor) ==
    ~actor.admin => PlaysInWeek(GolferOf[actor.user]) /\ reached

\* A scheduled match week with matches; a player also plays in it and its day
\* has come.  A week with matches is never cancelled (edit_week refuses) and
\* no week is ever marked played, so the status needs no variable.
WeekTakesScores(actor) ==
    /\ weekType = "match"
    /\ ~actor.admin => PlaysInWeek(GolferOf[actor.user]) /\ reached

EnteredAllOf(user, m, g) ==
    /\ Saved(m, g)
    /\ \A h \in Holes : rows[m][g][h] # NoRow => rows[m][g][h].by = user

Writable(m, actor) ==
    {g \in PlayersOf(m) :
        \/ actor.admin
        \/ /\ PlaysInWeek(GolferOf[actor.user])
           /\ \/ GolferOf[actor.user] \in PlayersOf(m)
              \/ EnteredAllOf(actor.user, m, g)}

\* Matches other than the player's own in which the player entered a score.
Kept(user) ==
    {m \in Matches :
        /\ GolferOf[user] \notin PlayersOf(m)
        /\ \E g \in Golfers, h \in Holes : rows[m][g][h].by = user}

Blocked(on) ==
    {g \in on : \E m \in Matches :
        g \in PlayersOf(m) /\ (m \in locked \/ Saved(m, g))}

\* Slip: the matches the player already kept are forgotten.
CardInScopeOnce(user, on) ==
    /\ GolferOf[user] \in on
    /\ Cardinality({m \in Matches : /\ GolferOf[user] \notin PlayersOf(m)
                                   /\ PlayersOf(m) \cap on # {}}) <= 1

\* The card names the player's own golfer and at most one other match, and the
\* player has not kept score for a different match before.
CardInScope(user, on) ==
    LET others == {m \in Matches :
                      /\ GolferOf[user] \notin PlayersOf(m)
                      /\ PlayersOf(m) \cap on # {}}
    IN  /\ GolferOf[user] \in on
        /\ Cardinality(others \cup Kept(user)) <= 1

CardIncomplete(on) ==
    \E m \in Matches : PlayersOf(m) \cap on # {} /\ ~(PlayersOf(m) \subseteq on)

\* A posted form is up to date when the match still has the revision it shows.
UpToDate(page, m) ==
    /\ forms[page][m].phase = "shown"
    /\ forms[page][m].rev = rev[m]

-----------------------------------------------------------------------------
(* The shared write steps.                                                  *)

\* Raise the revision of the matches in M.
Bump(M) ==
    /\ \A m \in M : rev[m] < MaxRevision
    /\ rev' = [m \in Matches |-> IF m \in M THEN rev[m] + 1 ELSE rev[m]]

\* Raise it and record who changed the scores.
BumpScores(M, user) ==
    /\ Bump(M)
    /\ changedBy' = [m \in Matches |-> IF m \in M THEN user ELSE changedBy[m]]

\* Slip: a changed row is signed by whoever changed it.
ApplySigned(card, new, user) ==
    [h \in Holes |-> IF card[h].strokes = new[h]
                     THEN card[h]
                     ELSE [strokes |-> new[h], by |-> user]]

\* Insert missing rows; a row that exists keeps who entered it.
Apply(card, new, user) ==
    [h \in Holes |-> IF card[h] = NoRow
                     THEN [strokes |-> new[h], by |-> user]
                     ELSE [card[h] EXCEPT !.strokes = new[h]]]

\* Write new[m][g] for the golfers of each match in M; only a match whose rows
\* really change gets a new revision.
SaveCards(M, new, user) ==
    LET saved == [m \in Matches |-> [g \in Golfers |->
                     IF m \in M /\ g \in DOMAIN new[m]
                     THEN Apply(rows[m][g], new[m][g], user)
                     ELSE rows[m][g]]]
    IN  /\ rows' = saved
        /\ BumpScores({m \in M : saved[m] # rows[m]}, user)

-----------------------------------------------------------------------------
(* Reading a page.                                                          *)

\* week_sheet reads the match's state first: the revision the form will carry,
\* and whether it offers inputs at all.
ReadState(page, m) ==
    /\ m \in Opened[page]
    /\ page.kind = "post" => forms[[page EXCEPT !.kind = "sheet"]][m].phase = "shown"
    /\ forms' = [forms EXCEPT ![page][m] =
                    [phase |-> "state", rev |-> rev[m], seen |-> Blank,
                     inputs |-> IF m \in locked THEN {} ELSE PlayersOf(m)]]
    /\ UNCHANGED <<weekType, reached, sides, rows, rev, locked, changedBy>>

\* Slip: the rows come from the session's cache, not from the database.
ReadRowsCached(page, m) ==
    /\ forms[page][m].phase = "state"
    /\ forms' = [forms EXCEPT ![page][m].phase = "shown"]
    /\ UNCHANGED <<weekType, reached, sides, rows, rev, locked, changedBy>>

\* Then the rows.  A match form takes the golfers the actor may write, the week
\* sheet only golfers with no saved scores.
ReadRows(page, m) ==
    /\ forms[page][m].phase = "state"
    /\ forms' = [forms EXCEPT
           ![page][m].phase = "shown",
           ![page][m].seen = StrokesOf(m),
           ![page][m].inputs = {g \in forms[page][m].inputs :
                IF page.kind = "match" THEN g \in Writable(m, page)
                                       ELSE ~Saved(m, g)}]
    /\ UNCHANGED <<weekType, reached, sides, rows, rev, locked, changedBy>>

-----------------------------------------------------------------------------
(* Writing scores.                                                          *)

\* Slip: a blank hole passes for a score.
TypedOrBlank(on) == [on -> [Holes -> Strokes \cup {0}]]

\* What the people of a card or form typed, a score for every hole.
Typed(on) == [on -> [Holes -> Strokes]]

\* A scorecard only adds.  Golfers already saved, or in a locked match, are
\* left off; the card is refused until it names exactly those golfers, and when
\* nobody is left.
CardSizes == {on \in SUBSET Golfers : Cardinality(on) \in 2..4}

\* Slip: whose week it is and what kind is not asked, as for a form's page.
CardAcceptedAnyWeek(actor, on, acknowledged) ==
    /\ CardIncomplete(on) => acknowledged
    /\ ~actor.admin => CardInScope(actor.user, on)
    /\ Blocked(on) # on
    /\ \A g \in on : Cardinality({m \in Matches : g \in PlayersOf(m)}) = 1

CardAccepted(actor, on, acknowledged) ==
    /\ WeekTakesScores(actor)
    /\ CardIncomplete(on) => acknowledged
    /\ ~actor.admin => CardInScope(actor.user, on)
    /\ Blocked(on) # on
    /\ \A g \in on : Cardinality({m \in Matches : g \in PlayersOf(m)}) = 1

SubmitCard(actor, on, acknowledged) ==
    LET written == on \ Blocked(on)
    IN  /\ CardAccepted(actor, on, acknowledged)
        /\ \E typed \in Typed(on) :
              rows' = [m \in Matches |-> [g \in Golfers |->
                         IF g \in written \cap PlayersOf(m)
                         THEN [h \in Holes |-> [strokes |-> typed[g][h], by |-> actor.user]]
                         ELSE rows[m][g]]]
        /\ BumpScores({m \in Matches : PlayersOf(m) \cap written # {}}, actor.user)
        /\ UNCHANGED <<weekType, reached, sides, locked, forms>>

\* Slip: the form's revision is not compared.
SaveMatchUnchecked(page, m) ==
    /\ WeekTakesScores(page)
    /\ Writable(m, page) # {}
    /\ forms[page][m].phase = "shown"
    /\ Writable(m, page) \subseteq forms[page][m].inputs
    /\ m \notin locked
    /\ \E typed \in Typed(Writable(m, page)) :
          SaveCards({m}, [n \in {m} |-> typed], page.user)
    /\ UNCHANGED <<weekType, reached, sides, locked, forms>>

\* The form of one match.  A golfer the form had no inputs for is blank in the
\* post, which refuses the save when that golfer is writable now.
SaveMatch(page, m) ==
    /\ WeekTakesScores(page)
    /\ Writable(m, page) # {}
    /\ Writable(m, page) \subseteq forms[page][m].inputs
    /\ m \notin locked
    /\ UpToDate(page, m)
    /\ \E typed \in Typed(Writable(m, page)) :
          SaveCards({m}, [n \in {m} |-> typed], page.user)
    /\ UNCHANGED <<weekType, reached, sides, locked, forms>>

\* The golfers of a match the week sheet has a score for when it is posted:
\* typed when they had none, as read again when they were saved already.
SheetScores(post, m, typed) ==
    [g \in PlayersOf(m) |->
        IF g \in forms[post][m].inputs THEN typed[g] ELSE forms[post][m].seen[g]]

\* Slip: the sheet is compared with what was read before the form was awaited.
SheetMatchReadyEarly(page, post, m) ==
    /\ forms[page][m].phase = "shown"
    /\ forms[post][m].phase = "shown"
    /\ forms[post][m].rev = forms[page][m].rev
    /\ forms[post][m].inputs # {}
    /\ forms[post][m].inputs \subseteq forms[page][m].inputs
    /\ m \notin locked
    /\ \A g \in PlayersOf(m) :
          g \in forms[post][m].inputs \/ \A h \in Holes : forms[post][m].seen[g][h] # 0

SheetMatchReady(page, post, m) ==
    /\ UpToDate(page, m)
    /\ forms[post][m].phase = "shown"
    /\ forms[post][m].rev = forms[page][m].rev
    /\ forms[post][m].inputs # {}
    /\ forms[post][m].inputs \subseteq forms[page][m].inputs
    /\ m \notin locked
    /\ \A g \in PlayersOf(m) :
          g \in forms[post][m].inputs \/ \A h \in Holes : forms[post][m].seen[g][h] # 0

\* The posted week sheet: every match typed in is saved, or none is.
SaveWeek(page, typedIn) ==
    LET post == [page EXCEPT !.kind = "post"]
    IN  /\ WeekTakesScores(page)
        /\ typedIn # {}
        /\ \A m \in typedIn : SheetMatchReady(page, post, m)
        /\ \E typed \in Typed(Golfers) :
              SaveCards(typedIn, [m \in typedIn |-> SheetScores(post, m, typed)], page.user)
        /\ forms' = [forms EXCEPT ![post] = [m \in Matches |-> NoForm]]
        /\ UNCHANGED <<weekType, reached, sides, locked>>

-----------------------------------------------------------------------------
(* Lock, unlock, clear: admins only, in any week that has the match.        *)

LockMatch(page, m) ==
    /\ m \notin locked
    /\ UpToDate(page, m)
    /\ Bump({m})
    /\ locked' = locked \cup {m}
    /\ UNCHANGED <<weekType, reached, sides, rows, changedBy, forms>>

\* Slip: the revisions the page showed are not compared.
LockWeekUnseen(page) ==
    LET ready == {m \in Matches \ locked : Complete(m)}
    IN  /\ ready # {}
        /\ Bump(ready)
        /\ locked' = locked \cup ready
        /\ UNCHANGED <<weekType, reached, sides, rows, changedBy, forms>>

\* "Lock all" takes the complete matches that are unchanged since the page.
LockWeek(page) ==
    LET ready == {m \in Matches \ locked : Complete(m) /\ UpToDate(page, m)}
    IN  /\ ready # {}
        /\ Bump(ready)
        /\ locked' = locked \cup ready
        /\ UNCHANGED <<weekType, reached, sides, rows, changedBy, forms>>

\* Unlocking needs no revision: it cannot lose what anyone typed.
UnlockMatch(m) ==
    /\ m \in locked
    /\ Bump({m})
    /\ locked' = locked \ {m}
    /\ UNCHANGED <<weekType, reached, sides, rows, changedBy, forms>>

ClearMatch(page, m) ==
    /\ m \notin locked
    /\ UpToDate(page, m)
    /\ Scored(m)
    /\ rows' = [rows EXCEPT ![m] = Empty]
    /\ BumpScores({m}, page.user)
    /\ UNCHANGED <<weekType, reached, sides, locked, forms>>

-----------------------------------------------------------------------------
(* What the schedule and the matchups do to a week that has matches.        *)

\* edit_week may turn a match week into another kind and back, scores or not.
EditWeekType ==
    /\ "type" \in WeekEdits
    /\ weekType' = IF weekType = "match" THEN "play_with_team" ELSE "match"
    /\ UNCHANGED <<reached, sides, rows, rev, locked, changedBy, forms>>

\* The play date arrives, or the schedule is shifted past today again.
MovePlayDate ==
    /\ "date" \in WeekEdits
    /\ reached' = ~reached
    /\ UNCHANGED <<weekType, sides, rows, rev, locked, changedBy, forms>>

\* Slip: the match may have been scored.
SubstituteAnytime(m, side, golfer) ==
    /\ weekType = "match"
    /\ golfer \notin TeamMembers
    /\ ~PlaysInWeek(golfer)
    /\ sides' = [sides EXCEPT ![m][side] = golfer]
    /\ UNCHANGED <<weekType, reached, rows, rev, locked, changedBy, forms>>

\* A substitute takes one side of a match nobody has scored.
Substitute(m, side, golfer) ==
    /\ weekType = "match"
    /\ ~Scored(m)
    /\ golfer \notin TeamMembers
    /\ ~PlaysInWeek(golfer)
    /\ sides' = [sides EXCEPT ![m][side] = golfer]
    /\ UNCHANGED <<weekType, reached, rows, rev, locked, changedBy, forms>>

-----------------------------------------------------------------------------
Init ==
    /\ weekType = "match"
    /\ reached = FALSE
    /\ sides = FirstSides
    /\ rows = [m \in Matches |-> Empty]
    /\ rev = [m \in Matches |-> 0]
    /\ locked = {}
    /\ changedBy = [m \in Matches |-> NoOne]
    /\ forms = [p \in Pages |-> [m \in Matches |-> NoForm]]

CardNext ==
    \E actor \in Pages, on \in CardSizes, acknowledged \in BOOLEAN :
        actor.kind # "post" /\ SubmitCard(actor, on, acknowledged)

PageNext ==
    \E page \in Pages, m \in Matches :
        \/ ReadState(page, m)
        \/ ReadRows(page, m)
        \/ page.kind = "match" /\ SaveMatch(page, m)
        \/ page.admin /\ page.kind # "post" /\ (LockMatch(page, m) \/ ClearMatch(page, m))

SheetNext ==
    \E page \in Pages : page.kind = "sheet" /\
        \/ LockWeek(page)
        \/ \E typedIn \in SUBSET Matches : SaveWeek(page, typedIn)

WeekNext ==
    \/ EditWeekType
    \/ MovePlayDate
    \/ \E m \in Matches : Admins # {} /\ UnlockMatch(m)
    \/ \E m \in Matches, side \in Sides, golfer \in Golfers : Substitute(m, side, golfer)

Next == CardNext \/ PageNext \/ SheetNext \/ WeekNext

Spec == Init /\ [][Next]_vars

-----------------------------------------------------------------------------
(* Properties.                                                              *)

TypeOK ==
    /\ weekType \in {"match", "play_with_team"}
    /\ reached \in BOOLEAN
    /\ sides \in [Matches -> [Sides -> Golfers]]
    /\ rows \in [Matches -> [Golfers -> [Holes -> Row \cup {NoRow}]]]
    /\ rev \in [Matches -> 0..MaxRevision]
    /\ locked \in SUBSET Matches
    /\ changedBy \in [Matches -> Users \cup {NoOne}]
    /\ forms \in [Pages -> [Matches -> Form]]

\* A form never carries a revision newer than the scores beside it: while its
\* revision is still the match's, the scores it shows are the saved ones.  This
\* is what week_sheet's read order is for, saves landing between its reads.
FormsTrue ==
    \A p \in Pages, m \in Matches :
        /\ forms[p][m].rev <= rev[m]
        /\ forms[p][m].phase = "shown" /\ forms[p][m].rev = rev[m]
              => forms[p][m].seen = StrokesOf(m)

\* Every saved score is of a golfer who plays the match it is saved under:
\* substitutions and saves of either order never leave a score behind.
ScoresBelongToSides ==
    \A m \in Matches, g \in Golfers : Saved(m, g) => g \in PlayersOf(m)

\* A golfer's card is empty or has every hole, all entered by one person, who
\* keeps the right to change it: no order of card, form, sheet and clear mixes
\* two people's rows or leaves part of a card.
CardsWhole ==
    \A m \in Matches, g \in Golfers :
        Saved(m, g) => \E u \in Users : \A h \in Holes : rows[m][g][h].by = u

\* The saved scores of a week, whatever came before them: whole cards of one
\* author each, under the match and golfer that play.
ScoresWhole == CardsWhole /\ ScoresBelongToSides

\* A player keeps score for at most one match other than their own in a week.
KeptAtMostOne ==
    \A u \in Players \ Admins : Cardinality(Kept(u)) <= 1

\* Where a player stands for the week, as player_entry_state tells the pages.
EntryState(user) ==
    LET own == {m \in Matches : GolferOf[user] \in PlayersOf(m)}
    IN  CASE own = {} -> "not_playing"
          [] own # {} /\ weekType # "match" -> "closed"
          [] own # {} /\ weekType = "match" /\ ~reached -> "not_open_yet"
          [] OTHER -> IF own \subseteq locked THEN "locked"
                      ELSE IF \A m \in own : Complete(m) THEN "saved" ELSE "open"

\* The pages offer a player score entry exactly when the score service would
\* take it: player_entry_state and week_for_entry state the same rules twice.
EntryOfferMatchesService ==
    \A p \in Pages : ~p.admin =>
        (EntryState(p.user) \in {"open", "saved"}
            <=> /\ WeekTakesScores(p)
                /\ \E m \in Matches \ locked : GolferOf[p.user] \in PlayersOf(m))

\* A saved score is only ever changed or cleared by the account recorded as
\* the last to change the match, from a page that shows exactly that match's
\* saved scores: nobody overwrites what they have not seen.
ChangedOnlyAsSeen ==
    [][\A m \in Matches, g \in Golfers :
          Saved(m, g) /\ rows'[m][g] # rows[m][g]
              => \E p \in Pages : /\ p.user = changedBy'[m]
                                  /\ forms[p][m].phase = "shown"
                                  /\ forms[p][m].seen = StrokesOf(m)]_vars

\* A saved score is only changed by an admin, a side of the match, or whoever
\* entered the whole card; a new one only by someone who may enter that week.
ChangedOnlyByRight ==
    [][\A m \in Matches, g \in Golfers :
          rows'[m][g] # rows[m][g]
              => \E p \in Pages :
                    /\ p.user = changedBy'[m]
                    /\ p.admin \/ WeekTakesScores(p)
                    /\ Saved(m, g) => \/ p.admin
                                     \/ GolferOf[p.user] \in PlayersOf(m)
                                     \/ EnteredAllOf(p.user, m, g)]_vars

\* A match is only locked by an admin whose page shows its saved scores, one
\* at a time or all at once.
LockedOnlyAsSeen ==
    [][\A m \in locked' \ locked :
          \E p \in Pages : /\ p.admin
                           /\ forms[p][m].phase = "shown"
                           /\ forms[p][m].seen = StrokesOf(m)]_vars

\* A match is changed or locked only on what its page shows, and only by those
\* who have the right to, by form, card, week sheet or clear alike.
ChangedAsAllowed == ChangedOnlyAsSeen /\ ChangedOnlyByRight /\ LockedOnlyAsSeen

\* README.md: "A locked match refuses every change, an admin's included, until
\* it is unlocked."  The score service does; a substitution of a locked match
\* without scores goes through.
LockedMatchRefusesEveryChange ==
    [][\A m \in locked \cap locked' :
          rows'[m] = rows[m] /\ sides'[m] = sides[m]]_vars

\* The week as the abstract scorebook sees it: a page gives its reader a view
\* of a match while its revision is the match's current one.
Entered == [m \in Matches |-> StrokesOf(m)]
Views == [p \in Pages |-> [m \in Matches |->
             IF UpToDate(p, m) THEN forms[p][m].seen ELSE NoOne]]

Book == INSTANCE Scorebook WITH
    Readers <- Pages, Contents <- Shown, NoView <- NoOne,
    book <- Entered, view <- Views

\* The scores of the week behave as a scorebook: a change through a form is
\* accepted only on the very content its reader saw, a locked match refuses
\* every change, a card only fills blank lines, a lock closes what the admin
\* saw, and every accepted change voids all forms of the match.
IsScorebook == Book!Spec
=============================================================================
