# golf_league: a formal model

TLA+ modules that model how the league keeps scores, scorecard drafts, weeks, matchups, rosters,
accounts, invitations, roster imports and results, TLC runs that check them on small instances, and
TLAPS proofs for every size. The reference is the Python code in `golf_league/`; `PROJECT.json`
names the lines each definition stands for, and lists every hazard with the properties about it.

## The system

One FastAPI process over one SQLite file. Every handler is `async def` and runs on one event
loop, so handlers interleave only where they `await`. Every writing service first reserves
SQLite's single writer (`reserve_schedule_write`, `BEGIN IMMEDIATE`) and then checks and writes:
a service call is one atomic step. What is not atomic: pages (read outside a transaction and
posted any time later), handlers that await (uploads), the one background thread that reads
photos, the photo files beside the database, mail, and the process itself.

### Inventory

| component | state | operations | correct when | modelled in |
|---|---|---|---|---|
| Score entry (`services/scores.py`, `routers/player_scores.py`, `routers/admin_week_scores.py`) | `hole_scores`, `match_score_states` (revision, lock, last change), forms in browsers | card, match form, week sheet, lock, lock all, unlock, clear | nobody overwrites what they have not seen; rights are kept; cards stay whole; a locked match stays as it is | `Scores`, `Scorebook` |
| Scorecard drafts (`services/scorecard_drafts.py`, `routers/scorecard_flow.py`) | `scorecard_drafts`, photo files, worker queue, prepare lock | upload, type, read, review, submit, discard, purge, startup cleanup | limits hold for overlapping uploads; every read ends; a card is saved once and as shown; photos go | `ScorecardDrafts` |
| Weeks and rain dates (`services/schedule.py`) | `weeks` | generate, edit, shift, change nine, rain date, delete | a confirmed change is the previewed one; makeup links are acyclic; scores hold their week | `Weeks` |
| Roster, season, teams (`services/roster.py`, `season_roster.py`, `participants.py`, `teams.py`, `rsvp.py`) | activity, season golfers, overrides, team members, answers | forms of one transaction each | a golfer has one team slot and is on the season's roster; nobody comes into a match who may not play | `SeasonRoster` |
| Pairings and substitutions (`services/matchups.py`) | `team_matches`, `player_matches` | pair, generate, regenerate, substitute | scored and adjusted matches survive; a golfer plays once a week | `Matchups` |
| Substitute requests (`services/substitute_requests.py`) | `substitute_requests` | create, fulfil, decline | answered at most once, with the substitution in the same transaction | `Matchups` |
| Week handicaps (`services/handicaps.py`) | `week_handicaps` | snapshot, relabel, reseed | every golfer of a match has the week's strokes on the week's nine | `Weeks`, `Matchups` |
| Accounts (`services/auth.py`, `services/identity.py`, `routers/identity.py`, `security.py`) | `users`, `user_tokens`, session cookies | register, verify, reset, log in and out | a link completes once and never after a newer one or a new password; sessions end with the password | `Accounts` |
| Invitations (`services/invites.py`, `routers/join.py`, `routers/admin_invites.py`) | invitations, set-password links, rate windows, background mail, form nonces, receipts | create, show, rotate, revoke, join, mail, set password | a link is completed as it was issued; quotas, counters and caps are right | `Invites` |
| Roster imports (`services/roster_imports.py`) | batches, staged rows, golfers | stage, edit, swap, accept, apply, discard, purge | applied once, as reviewed, whole, or not at all | `RosterImports` |
| Results (`services/scores.py` from line 849, `domain/scoring.py`) | none of its own | points, standings, rounds, gross and net skins | agree with the league's rules for every card, and with one another | `Results` |
| Courses, schedule pages, photo reading, mail, configuration | reference data, outside services | forms, reads, calls | input and output | not modelled |

How they interact: a submitted draft goes through the score service's card and deletes the draft
and its photo in the same transaction; a substitution (an admin's, or the answer to a request)
changes the sides that decide who may write; week edits and shifts decide whether a week takes
scores; deleting a week deletes its drafts' rows but not their photos; teams, season golfers and
handicaps are checked when they are saved and again when matches are generated from them; a
golfer's address decides who may register, join and complete a link, and both the roster's forms and
an import change it; results are computed from cards, snapshots and the season's scoring type
whenever a page is read.

Hard here: pages that are stale when they are posted, the two-step reads of the pages, several
people writing the same match in different ways, uploads that overlap while a photo is decoded,
late answers of the worker, mail that leaves after the response, stops and crashes with work
queued, commits or file removals that fail half-way, and rules that are checked when something is
saved and may be broken by what is saved next. `PROJECT.json` lists each at its line.

## Modules

| module | what it is |
|---|---|
| `Scores` | the scores of one week: rows, revisions, locks, the forms people have open, and what schedule and matchups do to a week that has matches |
| `Scorebook` | what the score service promises, without revisions or two-step reads |
| `ScorecardDrafts` | drafts, photos, the prepare lock, the worker, the draft pages, the clock, stops and restarts |
| `Weeks` | the weeks of a season with their forms and previews, and what the matches, snapshots, scores and locks in them do meanwhile |
| `SeasonRoster` | who may play in those weeks: activity, the season's golfers, tees and handicaps, teams, answers; extends `Weeks` |
| `Matchups` | pairings, substitutes, handicap snapshots and substitute requests in detail; extends `SeasonRoster`, implements `Weeks` |
| `Accounts` | users, the links mailed to them, cookies, and the roster addresses they hang on |
| `Invites` | invitations, joining, quotas, background mail and set-password links; extends `Accounts` |
| `RosterImports` | files staged, reviewed in several tabs and applied, beside the golfers' own forms |
| `Results` | points, standings, rounds and skins as operators over cards and snapshots that come and go |
| `MCScores`, `MCScorecardDrafts`, `MCWeeks`, `MCMatchups`, `MCInvites`, `MCRosterImports`, `MCResults` | their instances for TLC |
| `Scores_proofs`, `Weeks_proofs`, `Matchups_proofs`, `Invites_proofs`, `ScorecardDrafts_proofs`, `RosterImports_proofs`, `Results_proofs` | theorems about the module of that name, see Proofs |
| `Induction` | induction over numbers and finite sets, for the proofs |

Some definitions are doubled under a comment that begins "Slip:" or "A slip:". They are what a
plausible mistake would make of the definition beside them; nothing uses them but the mutants of
`PROJECT.json`, which show that a property notices the mistake.

### Scores

`rows` are the `hole_scores` of each match, golfer and hole with who entered them; `rev`, `locked`
and `changedBy` are `match_score_states`; `sides` are the golfers of `player_matches`; `weekType`
and `reached` are what `week_for_entry` asks of the week. `forms` is what each open page carries
for each match: the revision in its hidden field, the golfers it has inputs for, and the scores it
showed. A page is read in two steps (`ReadState`, `ReadRows`), which is the order `week_sheet`
keeps and explains in its docstring; saves may land in between. The posted admin sheet is read
again by the server before it is compared: it is a page of kind `"post"`, read between the arrival
of the post and the reservation of the writer.

Actions are the service calls with their handlers: `SubmitCard`, `SaveMatch`, `SaveWeek`,
`LockMatch`, `LockWeek`, `UnlockMatch`, `ClearMatch`, and around them `EditWeekType`,
`MovePlayDate` and `Substitute`. A card names two to four golfers; those already saved or in a
locked match are left off, and the golfers a player may name and write follow
`_check_player_card`, `writable_golfers` and `kept_matches`. Refusals change nothing and are the
absence of a step. Parsing (`validate_strokes`, blank cells) is modelled by its outcome: a score of
`Strokes` for every hole.

Left out: a week with matches is never cancelled (`edit_week` refuses; rain dates refuse weeks with
scores or locks) and no week is ever marked played, so the status is no variable. Regenerating
pairings after a team was edited also moves the sides of unscored matches; that and rain dates are
in `Matchups` and `Weeks`.

### Scorebook, and the refinement

The abstract specification has a book (the strokes of each match), a set of locked matches and,
for each reader and match, a view that is either the content seen or void. A write needs a good
view of every match it changes, a card fills blank lines only, a lock needs a view, and every
accepted change voids all views of the match. `Scores` implements it with `book` as the strokes of
the rows and a page's view as what its form shows while the form's revision is the match's
current one (`Views`). That this is a view of the *current* content is `FormsTrue`, which the
refinement proof rests on.

### ScorecardDrafts

A draft is a row (`drafts`) and, for a photo card, a file (`photos`, with modification times in
`wrote`). `upload` follows each upload from the check of the week through the prepare lock, the
decode, the file, the commit and the queue: `"waiting"` and `"preparing"` are the handler's awaits,
between which other handlers run; `"written"` and `"stored"` are points inside one synchronous
stretch where only the worker or a crash can intervene (`Free`). `queue` and `job` are the
executor's queue and its one thread. `view` is the draft page each user has open, and `card` a
number given to each card once, so that properties can tell a card from its id. `Purge`, page
housekeeping and `Startup` follow `purge_expired`, `purge_drafts` and `_clean_scorecard_drafts`
with their failures; a behaviour's `scope` names what may fail in it. `DeleteWeek` is the cascade of
the foreign key.

Left out: the content of a reading, the hourly limit's count (admission may also be refused by
choice), and the card's own checks, which are in `Scores` (a refused submit keeps the draft and
changes nothing). The branch of `start_extraction` without a provider is unreachable: both flows
refuse a photo before it when no provider is configured.

### Weeks

`weeks` are the rows of `weeks` by printed index: date (counted in weeks), nine, kind, status and
makeup link; `season` is what the schedule reads and writes of `seasons`. `tabs` are the forms and
previews admins have open, each with what its fingerprint was taken of (`Seen`): the week itself
for the edit form, the whole schedule for a shift or a change of nine, and the matches and
snapshots of both weeks as well for a rain date. A confirmation is one transaction that reserves
the writer, checks everything anew and compares the fingerprint (`UpToDate`).

Actions: `Generate`, `EditSeason`, `EditWeek`, `DeleteWeek`, `ConfirmShift`, `ConfirmNine`,
`ConfirmRain`, and `OpenEdit`, `PreviewShift`, `PreviewNine`, `PreviewRain` that fill a tab. What
happens in the weeks meanwhile is kept abstract: `Arrange` makes a team match, makes it again or
puts other golfers in it, with snapshots for all who play; `SaveScores`, `ClearScores`, `Lock` and
`Unlock` only say which matches have scores and locks. `Matchups` and `Scores` are the details.

Left out: the display of previews, the audit rows, and the status `played`, which no code sets.

### SeasonRoster

`active` is `Golfer.is_active`, `included` the season's golfers, `overrides` the tee and seed of
`season_participants`, `members` the teams by position, `underway` whether the season is active,
`answers` who has a row in `week_rsvps`. `Effective` is `effective_participant`: with another tee
and no seed of its own a golfer has no handicap. Each action is one form: `SaveSeasonGolfers`,
`ChangeActive`, `ChangeStatus`, `AddOverride`, `UpdateOverride`, `SaveTeam`, `AssignPositions`
(`order_members_by_seed`) and `Answer`. What one form checks another may change, so a team may come
to have a golfer who is not active or has no handicap.

Left out: one season and one course only, so golfers of other seasons and tees of other courses do
not occur; names, phone numbers and the read-only rosters.

### Matchups

`Matchups` extends `SeasonRoster` and with it `Weeks`, and keeps their variables. It adds the teams
of a pairing, which matches were adjusted by hand (`manual`), which sides are substitutes (`subs`),
the snapshot's tee and strokes, and the requests. A slot is named by the two positions that meet in
it. `GeneratePairing` is `generate_week_matches`, called when a pairing is made (`CreatePairing`)
and again later (`Regenerate`); `Replace` is `substitute_player_core`, called by an admin
(`Substitute`) or to answer a request (`Fulfill`); `Ensure` is `ensure_week_handicap`, which looks
again at whether each golfer is active and has a handicap; `Reseed` the re-seed page's
confirmation; `MakeRequest`, `NoticeSent`, `NoticeFailed`, `NoticeLost` and `Decline` the life of a
request, whose token exists in the mailed notice only, so that a notice which is lost when the
process stops leaves a request nobody can answer. `ScheduleNext` takes everything else from
`Weeks`; a week that a request or an answer names cannot be deleted, because a foreign key refuses.

`IsSchedule` says that `Matchups` implements `Weeks`: every pairing, generation and substitution
is an `Arrange`. The run checks it and `MatchupsAreSchedule` proves it, so what is proved of `Weeks`
holds however matches are made. A re-seed applies the plan of the moment it is confirmed, as the code does,
whatever its page showed.

### Accounts

`users` are the accounts by id with their `session_version`; `userLinks` the rows of `user_tokens`
of both purposes, `setLinks` those of `golfer_set_password_tokens`; `golfers` the address and
activity on the roster, and `cookies` the session in each browser that is followed. A link is
known by its row; whoever has the mail has the token, so `held` says that a set-password link may
have been mailed. A cookie also keeps the password it was opened under, and a link the session
version at its issue: neither is in the code, both are for the properties.

Actions: `Register` (a new account, or a new link for one that is not verified), `VerifyEmail`,
which commits the link before it marks the account, so that `VerifyCutShort` can stop between,
`RequestReset`, `CompleteReset`, `Login`, `Logout`, `EditGolfer` and `Tick`. Wrong passwords,
refusals and the in-memory limiter change nothing here; hashing and signing are taken as done right.

### Invites

`Invites` extends `Accounts` with `invites` (rows and counters), `windows` (the four tiers of
`invite_rate_windows`), `mail` (background tasks after the response), and the process's own memory:
`forms` with their nonces and `receipts` with the URLs to be shown once. `PostForm` consumes a
nonce and looks for a twin before it makes an invitation; `ShowReceipt` shows the URL;
`RevokeInvite` and `RotateInvite` close the links with the invitation. `Admit` is
`admit_join_send`: quotas, identity and cap are looked at, the windows raised and the link written
in one transaction; `Suppress` is the refused attempt, which only counts. `SendMail`, `SendFails`,
`RecordSuccess`, `RecordFailure` and `RecordingFails` are the task's steps, each with commits of
others in between. `CompleteSet` is `complete_set_password`. `ProcessStops` forgets mail, forms and
receipts. `CheckWindow` is `domain/rate_limit.py`.

Left out: the floor on response times, the text of pages and mails, and other uses of the limiter.

### RosterImports

`golfers` is the roster by id, `batches` the staged files with their rows, versions and state,
`tabs` the review page each tab shows with the versions its forms carry. `Stage` follows
`stage_upload` from the files' checks (`Acceptable`) over the cells (`BuiltRow`, `StaticError`) to
the first judgement of all rows (`Revalidated`, `ValidationCode`). `EditRow`, `SwapNames` and
`AcceptDomainSuggestion` are the three buttons of a row, `Apply`, `Discard` and `PurgeExpired` those
of a batch; `GrowOld` lets ninety days pass. `CreateGolfer`, `UpdateGolfer` and `DeleteGolfer` are
the golfers' own forms. Texts are values of small sets; normalising an address, reading a handicap
and comparing telephone numbers by digits are functions of them, because properties are about what
they do. SQLite gives the ids of deleted rows again (`NextId`), and so does the model.

Left out: the parsing of CSV below cells, warnings, and the code that finds a misspelled domain.

### Results

The module has no state of the code's own: `book`, `snapshot` and `scoring` are what its functions
read, and its actions (`SaveCard`, `ClearScores`, `Reseed`, `ChangeScoring`) only take them through
their values. `StrokesForRelative`, `Round`, `Lead`, `WeekPlayers`, `WeekTeams`, `WeekTotals`,
`SeasonPlayers`, `SeasonTeams`, `SeasonTotals`, `CompetitionRanks`, `PlayerRounds`, `SkinHoles`,
`GrossSkins` and `NetSkins` are written after the code's loops; the properties write the rules the
other way round, by sets and counts, or compare two readers with each other.

Left out: `score_match` and its helpers (`domain/scoring.py:48-235`), which only tests call, and
the layout of the tables.

## Runs

| run | asks |
|---|---|
| `scores_forms` | one match of two holes with a player's form and cards, an admin's form and week sheet, a substitute and date edits: `FormsTrue`, `ScoresWhole`, `ChangedAsAllowed` and the refinement `IsScorebook` |
| `scores_cards` | three matches, two players whose cards reach into them, while the week's type and date change: `KeptAtMostOne`, `EntryOfferMatchesService` |
| `scores_locked_sides` | the repository's README on locked matches: violated, see below |
| `drafts` | overlapping uploads of two players and open pages when commits fail, or a player's and an admin's photo across two stops under every fault: `LimitsHold`, `SavedOnceAsShown`, `ReviewSettled` and the liveness `ReadsEnd` |
| `weeks_changes` | rain dates, nines and shifts confirmed in one tab against edits, nines and shifts of the other, and against deletions, matches and scores: `PlayedTogether`, `MakeupsEnd`, `DatesDistinct`, `ConfirmedAsShown`, `ScoresHoldTheWeek` |
| `matchups` | two teams paired, rearranged, substituted, re-seeded and moved; or requests against locks, scores and substitutions; or a roster that changes: `MatchupsHold`, `AdjustmentsStay`, `FulfilledByReplacement` and the refinement `IsSchedule` |
| `matchups_moved` | the promise that a request is answered: violated, see below |
| `invites` | links of both kinds, joining under the quotas, the admin's forms, the last account: `LinksHold`, `SessionsFollowPassword`, `AccountsHold`, `QuotasHold`, `OutcomesCounted`, `InvitesApart`, `CompletedAsIssued` |
| `imports` | files corrected in two tabs while golfers are edited by hand: `AppliedAsReviewed`, `SharedAddressesCaught`, `ProtectedByOptIn`, `AppliedOnceAndWhole` |
| `imports_handicap` | what the code says of unreadable handicaps: violated, see below |
| `results` | three matches of two weeks, one of a team against itself: `RoundsByRule`, `StandingsAgree`, `SkinsByRule` |
| `results_skins` | skins on a course that was not the first one made: violated, see below |

The runs of a module's whole state also check its type invariant (`TypeOK`, `MatchupsTypeOK`).
The passing runs are exhaustive within their bounds, and between them take every action.

Four runs show where the code disagrees with its documents or with itself.

- `scores_locked_sides`: a match locked without scores still takes a substitute, though the README
  says a locked match refuses every change (`substitute_player_core` looks at scores, not at the
  lock; answering a request does look at it).
- `matchups_moved`: a pending substitute request cannot be answered once its match has moved to a
  rain date: `respond` looks the match up by the week of the request, which the move leaves behind,
  and the match takes no second request.
- `imports_handicap`: a row whose handicap cannot be read and whose address another row shares is
  only called a duplicate; once the other row is corrected it has no error left and is applied with
  a blank handicap, though a comment says that this error cannot get lost.
- `results_skins`: the skins look each saved hole up by its id in a table from numbers to ids. On
  a course whose holes have other ids than their numbers no card is ever found, and the week's
  skins stay pending for ever.

Others were met and have no run: photos outlive the 24 hours of `docs/deployment.md` while nobody
opens a page that cleans up; a substitute who asks to be replaced can be accepted as the own
substitute; `delete_golfer` and `delete_week` leave some references to the foreign keys, whose
`IntegrityError` nobody catches; a golfer's form has no version, so of two the later one wins; and
ids of purged imports are given again, so a review page older than ninety days may name another
batch.

### Bounds

`MaxRevision` caps the changes of a match; two are enough for a page to be overtaken and its
successor to be overtaken again. `Opened` limits the matches a page is opened for and `WeekEdits`
the kinds of week edits in a run. One hole suffices where whole cards are not the question, two
where they are; one or two values of strokes tell a changed score from an unchanged one.

`MaxDrafts` and `MaxNow` bound the drafts and the ticks: two drafts let an id come back if ids
could, one tick passes the lifetime of a draft (`Lifetime = 1`). `Scopes` gives each behaviour its
uploads, faults and stops: `Overlapping` has three uploads of two players and failing commits,
`Interrupting` a player's and an admin's photo, every fault and two stops, so that a startup can be
interrupted too. `BusyAt` is 1 for the code's 8: the limit is reached by the second card.

`Weeks` has two printed weeks, one to change and one to move to or to link, and two free dates
(`MaxDate`), so that weeks can be shifted onto each other and apart. `Proposals` are the ways they
are generated, the last one with links that go round, `Edits` what the edit form is filled with,
`Uses` what each of the two admins does in a behaviour (`Races`: rain dates and nines against edits
and locks, rain dates against shifts, shifts against edits, two changes of nine, two shifts),
`SeasonEdits` what the season's form is sent with (a one-week season starting on the back nine, and
the season as it was), `Changes` which of the scores and deletions happen. `Matchups` has two teams
of two and a golfer outside them. Its `Scopes` keep three questions apart in one run: two teams with
two pairings whose seeds change, one team that plays itself with requests, locks and scores, and one
team whose roster changes.

`Invites` has one bound (`Bounds`) per question as well: `Links` (both kinds of links, resets,
changed addresses, a stop), `Joins` (three mails, two ticks, an invitation that ends and another),
`Forms` (two create forms, three invitations, a stop) and `Last` (the last account under the cap).
Limits are 1 and 2 and spans 1 and 2, so that tiers fill and expire at different times. `Imports`
has two files and `MaxWork = 4` uploads, saved rows and golfer forms together: a file, a
correction of it in either tab, and a golfer edited in between. `Results` has three holes for nine,
so that every stroke index, wrap and carry occurs within `Seeded` handicaps from minus two to five,
and three cards a side.

Symmetry is used where a run checks safety only: golfers and tabs in `MCWeeks`, passwords and client
addresses in `MCInvites`, tabs in `MCRosterImports`; each is a set of model values that no other
constant of the run tells apart (`OneAgainstOther` has every one of the `Races` both ways round).

### Fairness

All modules but `ScorecardDrafts` have none: they only say what may not happen. `ReadsEnd` assumes
that a handler that holds the event loop without awaiting goes on (`Storing`), that the worker
thread runs and the provider answers or fails within its own time limit (`Worker`), and that the
process is started again after it stopped (`Startup`; the compose file restarts the container). No
fairness is assumed of people, of the clock or of housekeeping. A result that cannot be stored in
three attempts is where the code itself gives a read up; such drafts are `stranded`, which
`ReadsEnd` excepts: they stay in `extracting` until they expire and some page is opened, or until
the next startup.

## Proofs

Every safety invariant and every action property that a passing run checks has a theorem, and so
has each of the two refinements; `PROJECT.json` names the property of each. The theorems hold for
any number of matches, golfers, weeks, pages, accounts, rows and holes and for any bounds: the
`Max...` constants, `Scopes` and `Bounds` are parameters like the others.

| module | theorems |
|---|---|
| `Scores_proofs` | `TypeCorrect`, `FormsAreTrue`, `ScoresAreWhole` (from `CardsAreWhole` and `ScoresStayWithSides`), `ChangesAreAllowed` (from `ChangesAreSeen`, `ChangesAreByRight`, `LocksAreSeen`), `KeepsAtMostOne`, `OffersMatchService`, and the refinement `WeekIsScorebook` |
| `Weeks_proofs` | `TypeCorrect`, `StaysTogether` (from `NothingInCancelledWeeks`, `SnapshotsRight`), `MakeupsAlwaysEnd`, `DatesStayDistinct`, `ScoresHold`, `ConfirmsAsShown` (from `MovesAsShown`, `NinesChangeAsShown`, `DatesChangeAsShown`) |
| `Matchups_proofs` | `TeamsWithinRoster`, `MatchupsTypeCorrect`, `MatchupsStayRight`, `AdjustmentsHold`, `RequestsFulfilled`, the refinement `MatchupsAreSchedule` and what follows from it (`ScheduleAllows`, `MatchupsPlayedTogether`) |
| `Invites_proofs` | `InvitesTypeCorrect`, `LinksStayRight`, `SessionsEndWithPassword`, `AccountsStayRight`, `OutcomesNeverTwice`, `InvitesStayApart`, `LinksCompletedAsIssued`, `QuotasAlwaysHold` |
| `ScorecardDrafts_proofs` | `DraftsTypeCorrect`, `LimitsAlwaysHold`, `SavedOnce`, `ReviewsSettled` |
| `RosterImports_proofs` | `ImportsTypeCorrect`, `AppliedAsShown`, `SharedAddresses`, `ProtectedUnlessOptedIn`, `ImportsOnceAndWhole` |
| `Results_proofs` | `TypesAlwaysHold`, `RoundsAlwaysByRule`, `StandingsAlwaysAgree`, `SkinsAlwaysByRule` |
| `Induction` | what several of them need: a least number, induction over numbers and over the subsets of a finite set, a bound of a finite set of numbers, and that a state stepped n times has the states it passes through |

`Induction` makes its principles statements about sets: a set of numbers that has 0 and with each
number the next one is `Nat`; a family of subsets that has the empty one and grows by every element
has the whole set. A proof by induction defines the set of those `n` that have the property. Loops
of the code are recursive functions in the models (`Applied`, `Lead`, `SkinHoles`,
`CompetitionRanks`), whose existence is proved with `Steps` before what they compute.

### What is assumed

Each module's `ASSUME`s, all of which TLC evaluates on the runs:

- `ScoresAssumption`: strokes lie in 1..15, a player's account is linked to at most one golfer, a
  week has at least one hole and finitely many matches, a posted sheet belongs to an opened one.
- `WeeksAssumption`: finitely many printed weeks, which fit between the season's start and
  `MaxDate`; what forms can be sent with is of its type.
- `SeasonRosterAssumption`, `MatchupsAssumption`: positions come in pairs, as `matchup_pairs` meets
  them; `Labels` are the slots of some pairing; golfers have distinct ids; to begin with a golfer
  has one slot. These are the unique constraints of `team_members` and the pairs of positions.
- `AccountsAssumption`, `InvitesAssumption`, `FirstInvitesAssumption`: limits, spans, lifetimes and
  the cap on accounts that join by invitation are at least one, as the code's constants are;
  invitations there are to begin with have counted nothing.
- `ImportsAssumption`, `InputsAssumption`: the roster to begin with has unique, normalised
  addresses (the column's constraint); lower case has no upper case in it; cells are texts.
- `DraftsAssumption`: a user is a player or an admin; the limit and the lifetime are at least one.
- `ResultsAssumption`: finitely many golfers and matches; the two sides of a match are different
  golfers; holes are stored in the order of their numbers (the grid's form and
  the seed add them so); the stroke indexes of a nine are 1 to nine, each once.

That no transaction is seen half done, and that handlers interleave only where the modules say so,
is in the modules and not an assumption of the proofs.

### Scores

`TypeOK` is inductive. `FormsTrue` is inductive with it because it says two things: no form is ahead
of its match, and a form at the match's revision shows its rows. The first half is what makes the
second survive a change: every action that changes rows raises the revision past every form
(`SaveCardsBump`, `SaveWeekBump`, `SubmitCardBump` say which matches are raised). The two-step read
is the delicate case: between its steps the form has a revision but no scores, and the second step
reads the current ones. `CardsWhole` is inductive with `TypeOK`: a missing row only ever gets a row
together with all others of its card, and an existing row keeps its author. `ScoresBelongToSides`
needs `TypeOK` and the guard of `Substitute`. The action properties follow from `TypeOK` and
`FormsTrue` by one lemma that names, for every changed row, the page and the action it came from.
`KeptAtMostOne` is inductive because nothing but a card makes a player the keeper of another match
(`KeptGrowsInScope`): a form signs scores only in a match its player plays in or keeps already
(`SaveMatchAuthors`), substitutions take unscored matches only, and a card is in scope only if the
matches it is about and those kept before are at most one together. `EntryOfferMatchesService` is a fact of every
state: the pages and the service decide alike. The refinement maps each action: reads of a page to `Look` or `Forget`, saves and clears to
`Write` (with the matches whose rows changed), cards to `Add`, locks to `Lock`, everything else to
a stutter.

### Weeks

Neither `CancelledWeeksEmpty` nor `SnapshotsFollowMatches` is inductive. Cancelling looks for
matches only, not for snapshots, so the proof needs that a week without matches has no snapshots
(`SnapshotsNeedMatches`), which in turn holds because deletions and rain dates check or move
snapshots together with the matches. A change of nine is refused for scored matches, which protects
a score only if a scored match is in some week: a score has two golfers (`ScoresNeedMatches`),
golfers have a snapshot in the week of their match, and so the match has a week, which by
`CancelledWeeksEmpty` takes place. `Inv` is the conjunction of these with the types.
`DatesDistinct` needs the types only: later weeks move alike, and `CanShift` compares them with the
earlier ones. One lemma per action says what it does to rows, places and snapshots (`EditStep` ...
`ArrangeStep`); `InvNext` and the action properties cite them. `MovesAsShown`,
`NinesChangeAsShown` and `DatesChangeAsShown` come down to the fingerprint: what the tab holds equals what the schedule holds
at the confirmation, and a rain date that passes its checks has nothing of its own to show.

`MakeupsEnd` is about chains of links, which the code follows step by step. The proof replaces steps
by sets: no cycle means that what a week makes up for lies in a set of weeks which links do not
leave and which leaves the week out (`Parted`). That the two say the same (`AcyclicIsParted`) takes
an induction along the chain and, because `Chain` stops after as many steps as there are weeks, the
pigeonhole principle. A new link keeps it because the form refuses a target whose chain comes back
(`LinkAdded`), rain dates link to a fresh row, and deletions take links away only.

### Matchups

`MatchupsInv` joins the invariant of `Weeks`, `RosterInv` (one team slot a golfer, on the season's
roster), `TeamsInv` (a match has the golfers of a slot its pairing has; adjusted matches have
golfers; a team plays once a week), `StrokesInv` (who has a snapshot has strokes) and
`RequestsTyped`. Of these `OncePerWeek` is why the rest is there: a generation takes every slot of
the two teams that is not adjusted, and a rain date moves all matches of a week to one that has
none. `AssignPositions` keeps one slot each because it deals the members of one team again, each to
the position after those who come before them (`BySeedPlacesMembers`).

The refinement: `GenerateArranges` and `ReplaceArranges` show that a generation and a substitution
are `Arrange` steps of `Weeks` with snapshots for all who play, `RequestSteps` and `PairingSteps`
that everything else of `Matchups` leaves the schedule alone or passes a guard of `Weeks`. So every
theorem of `Weeks_proofs` holds of the matchups in detail, and `MatchupsInv` may use the invariant
of `Weeks` in its own proof. The two action properties come from one lemma on a step each
(`StepsAdjust`, `StepsAnswer`): golfers come into matches from teams or by substitution only, and a
request gets its answer in the transaction of the substitution.

### Invites and Accounts

`Inv` has a part per table (`UsersInv`, `UserLinksInv`, `SetLinksInv`, `CookiesInv`, `InvitesInv`,
`MailInv`, `WindowsInv`, `RowsLive`), and beside each is a formula that says how its rows may change
in any step (`UsersEvolve`, `UserLinksStay`, `SetLinksStay`, `InviteFrom`, ...): accounts keep their
address and golfer, a password changes only together with the session version, a consumed link
stays consumed, a link never opens again. A lemma per kind of change shows the part from the
formulas, a lemma per action shows the formulas. `SessionsFollowPassword` follows because a cookie
never has a later version than its account and, at the same version, has its password.
`CompletedAsIssued` needs that an open link is the newest of its golfer and at its account's
version, so that completing one leaves none that could complete again. `OutcomesCounted` counts
the jobs of an invitation against its links; the two commits of a recording, of which the second may
fail, are where it would break.

`QuotasHold` says that the rows of the rate windows count exactly the links issued in them and that
no span of time holds more links than two windows allow. The proof keeps, for every key, the set of
moments at which its windows began (`QuotasInv`): `Windowed` says that they cover the log of links,
begin with one, do not overlap and hold no more than the limit, `Running` that the row is the window
that is running. A request joins it (`EntryJoins`) or begins one (`EntryBegins`). A span that
begins at a link meets two windows at most and leaves that link's predecessors out
(`TwoWindowsMet`), and the beginnings chosen in the property are the ones of the invariant
(`BeginningsAgree`).

### ScorecardDrafts

`DInv` is `TypeOK` with four parts. `CardsInv`: a card keeps its id in its row, in pages and among
the saved ones, and a saved one has no row. `JobInv`: what the worker holds. `LockInv`: one upload
holds the prepare lock, and what admitted it (no open photo card of the player, a short queue)
stays true until it is stored, because everything that happens meanwhile only takes cards away or
ends their reading. `OneCard`: a player has one photo card at most. `Settles` is what purges,
startups, failures, discards and deletions have in common: rows only go or stop being read; one
lemma (`SettledStep`) does for all of them.

### RosterImports

`IInv` joins `RosterInv` (finite, addresses unique and normalised), `BatchesInv` (rows well formed;
in a staged batch shared addresses are in error), `PagesInv` (a page at its batch's version shows
its rows) and `AppliedAsReviewed`. `AppliedAsReviewed` follows from the versions as `FormsTrue` does
in `Scores`. What `apply_batch`'s loop makes of the roster is proved by induction over the rows
(`LoopInv`): a golfer there was is as their row says or as before, a new one as a row nobody
matched, every included row is in the roster, and the counters add up. It needs that addresses of
included rows differ, which is what validation saw (`Clean`), again in the transaction of the apply.
That importing the same rows again changes nothing (`AppliedAgain`) follows: every row now matches
the golfer it made or changed, who already is as it says.

### Results

Cards and snapshots are typed in every reachable state (`Inv`), and everything else is a fact of
every such state: the actions play no part in it.

- Sums: `SumFunctionOnSet` is a fold over a set in an order nobody knows. `FoldExists` and
  `FoldsAgree` show that it has a value and that the order does not matter; then a sum can be taken
  apart by what its elements belong to (`SumFibers`), moved along a bijection (`SumMoved`) and along
  a sorted sequence (`SumAlong`).
- Rounds: dealing strokes one by one, in order of the index and round again, gives each hole the
  quotient and, to the low indexes, one more (`DealtOneByOne`). The net of both sides adds up to
  their totals, so that the lead after the last hole is the difference of the totals (`LeadEnds`).
- Standings: the season's points of a golfer and of a team are the points of the same credits,
  summed by owner (`SeasonByOwner`); both tables sum all credits (`SeasonShared`). A golfer's own
  page and the season's totals sum over the golfer's cards, by match or by week (`SumOfSeason`,
  `NetOfSeason`). Ranks go down the sorted table: of those before a place all have more points or
  tie with it (`RanksCount`); that a sorted sequence of a finite set exists is `SortedExists`.
- Skins: the carry before a hole is the number of holes since the last one won (`CarryIs`), so the
  units of the winners and what is carried at the end add up to nine (`UnitsAddUp`). If a card is
  found for anybody, the numbers of the holes are the ids of the holes, and since both ascend each
  hole's number is its id (`NumbersAreHoles`): the card that is found is the saved one
  (`FoundIsSaved`). On all other courses nothing is found, which is the run `results_skins`.

### Only model-checked

`ReadsEnd`, the liveness of `ScorecardDrafts`: it rests on fairness, and with it on `ENABLED`, which
the prover does not handle. The four runs that show a disagreement are TLC's alone, as
counterexamples are. The theorems say nothing about states the modules exclude: what is left out of
the models (below, and under each module) is left out of the proofs too.

## Not modelled

- Courses, tee sets and holes: forms of one transaction each over reference data, whose checks look
  at nothing that changes meanwhile. `Results` takes a course as constants.
- Reading a photo: image decoding, the providers' calls and the matching of names to golfers. The
  drafts take an answer or a failure, at any time, as their outcome.
- The pages a player reads (schedule, home), attendance summaries and reminders: nothing is written,
  or mail is sent that nothing records.
- The pages that chart handicaps over time and the formulas behind them: pure arithmetic over
  saved rounds, called by one page.
- Configuration, logging, migrations, the database session and the mail transport: input and
  output. SQLite's single writer, and that a transaction happens whole or not at all, are what the
  models take for granted.

## Plan

The passing runs' safety properties are proved. What could still be said about this code:

1. Refinements of `Scores` and `ScorecardDrafts` into one module, so that a submitted draft is the
   card that `SubmitCard` saves; today the drafts take a refused card as a choice.
2. The answer to an RSVP, the summary and reminders, should they come to record what they send.
3. Courses and tees: that an edited course keeps the nines and indexes which `ResultsAssumption`
   takes for granted, and with it the condition that decides whether skins are found.
