---------------------------- MODULE Scores_proofs ----------------------------
(***************************************************************************)
(* Proofs about Scores, for any matches, golfers, holes, accounts and      *)
(* pages, and any bound on the revisions.                                  *)
(***************************************************************************)
EXTENDS Scores, TLAPS, FiniteSetTheorems

USE DEF Users, Sides, PlayerPage, AdminPage

-----------------------------------------------------------------------------
(* What the helpers return.                                                 *)

\* The sides of a match are golfers.
LEMMA PlayersAreGolfers ==
    ASSUME TypeOK, NEW m \in Matches
    PROVE  PlayersOf(m) \subseteq Golfers
BY DEF TypeOK, PlayersOf

\* Every page belongs to an account.
LEMMA PagesHaveUsers ==
    ASSUME NEW p \in Pages
    PROVE  p.user \in Users
BY ScoresAssumption

\* The strokes of a match as they stand are something a page can show.
LEMMA StrokesAreShown ==
    ASSUME TypeOK, NEW m \in Matches
    PROVE  StrokesOf(m) \in Shown
<1>1. \A g \in Golfers, h \in Holes : rows[m][g][h] \in Row \cup {NoRow}
  BY DEF TypeOK
<1>2. \A g \in Golfers, h \in Holes : rows[m][g][h].strokes \in Strokes \cup {0}
  BY <1>1 DEF Row, NoRow
<1> QED
  BY <1>2 DEF StrokesOf, Shown

\* A missing row is no row.
LEMMA NoRowIsNoRow == NoRow \notin Row
BY ScoresAssumption DEF NoRow, Row

\* Applying scores for every hole to a card gives rows for every hole.
LEMMA ApplyGivesRows ==
    ASSUME NEW card \in [Holes -> Row \cup {NoRow}],
           NEW new \in [Holes -> Strokes], NEW user \in Users
    PROVE  Apply(card, new, user) \in [Holes -> Row]
<1> SUFFICES ASSUME NEW h \in Holes
             PROVE  (IF card[h] = NoRow
                     THEN [strokes |-> new[h], by |-> user]
                     ELSE [card[h] EXCEPT !.strokes = new[h]]) \in Row
  BY DEF Apply
<1>1. CASE card[h] = NoRow
  BY <1>1 DEF Row
<1>2. CASE card[h] # NoRow
  <2>1. card[h] \in [strokes : Strokes, by : Users]
    BY <1>2 DEF Row
  <2> QED
    BY <1>2, <2>1 DEF Row
<1> QED
  BY <1>1, <1>2

\* Saving cards of complete scores keeps rows and their marks well typed.
LEMMA SaveCardsTyped ==
    ASSUME TypeOK, NEW M \in SUBSET Matches, NEW new, NEW user \in Users,
           \A m \in M : \A g \in Golfers \cap DOMAIN new[m] :
               new[m][g] \in [Holes -> Strokes],
           SaveCards(M, new, user)
    PROVE  /\ rows' \in [Matches -> [Golfers -> [Holes -> Row \cup {NoRow}]]]
           /\ rev' \in [Matches -> 0..MaxRevision]
           /\ changedBy' \in [Matches -> Users \cup {NoOne}]
<1> DEFINE saved == [m \in Matches |-> [g \in Golfers |->
                        IF m \in M /\ g \in DOMAIN new[m]
                        THEN Apply(rows[m][g], new[m][g], user)
                        ELSE rows[m][g]]]
<1>1. rows' = saved /\ BumpScores({m \in M : saved[m] # rows[m]}, user)
  BY DEF SaveCards
<1>2. ASSUME NEW m \in Matches, NEW g \in Golfers
      PROVE  saved[m][g] \in [Holes -> Row \cup {NoRow}]
  <2>1. rows[m][g] \in [Holes -> Row \cup {NoRow}]
    BY DEF TypeOK
  <2>2. CASE m \in M /\ g \in DOMAIN new[m]
    <3>1. new[m][g] \in [Holes -> Strokes]
      BY <2>2
    <3>2. Apply(rows[m][g], new[m][g], user) \in [Holes -> Row]
      BY <2>1, <3>1, ApplyGivesRows
    <3> QED
      BY <2>2, <3>2
  <2>3. CASE ~(m \in M /\ g \in DOMAIN new[m])
    BY <2>1, <2>3
  <2> QED
    BY <2>2, <2>3
<1>3. rows' \in [Matches -> [Golfers -> [Holes -> Row \cup {NoRow}]]]
  BY <1>1, <1>2
<1>4. /\ rev' \in [Matches -> 0..MaxRevision]
      /\ changedBy' \in [Matches -> Users \cup {NoOne}]
  <2> DEFINE N == {m \in M : saved[m] # rows[m]}
  <2>1. N \subseteq Matches
    OBVIOUS
  <2>2. BumpScores(N, user)
    BY <1>1
  <2> HIDE DEF N, saved
  <2> QED
    BY <2>1, <2>2, ScoresAssumption DEF BumpScores, Bump, TypeOK
<1> QED
  BY <1>3, <1>4

-----------------------------------------------------------------------------
(* Types.                                                                   *)

\* An empty form, and a blank card, are well typed.
LEMMA NoFormTyped == NoForm \in Form /\ Blank \in Shown
BY ScoresAssumption DEF NoForm, Form, Blank, Shown

\* Reading a page, in either step, keeps the forms well typed.
LEMMA ReadsTyped ==
    ASSUME TypeOK, NEW page \in Pages, NEW m \in Matches,
           ReadState(page, m) \/ ReadRows(page, m)
    PROVE  forms' \in [Pages -> [Matches -> Form]]
<1>1. CASE ReadState(page, m)
  <2> DEFINE form == [phase |-> "state", rev |-> rev[m], seen |-> Blank,
                      inputs |-> IF m \in locked THEN {} ELSE PlayersOf(m)]
  <2>1. form \in Form
    BY PlayersAreGolfers, NoFormTyped DEF TypeOK, Form
  <2>2. forms' = [forms EXCEPT ![page][m] = form]
    BY <1>1 DEF ReadState
  <2> HIDE DEF form
  <2> QED
    BY <2>1, <2>2 DEF TypeOK
<1>2. CASE ReadRows(page, m)
  <2> DEFINE ins == {g \in forms[page][m].inputs :
                        IF page.kind = "match" THEN g \in Writable(m, page)
                                               ELSE ~Saved(m, g)}
             strokes == StrokesOf(m)
             form == [forms[page][m] EXCEPT !.phase = "shown", !.seen = strokes,
                                            !.inputs = ins]
  <2>1. forms[page][m] \in Form
    BY DEF TypeOK
  <2>2. ins \subseteq Golfers /\ strokes \in Shown
    BY <2>1, StrokesAreShown DEF Form
  <2>3. forms' = [forms EXCEPT ![page][m] = form]
    <3>1. forms' = [forms EXCEPT ![page][m].phase = "shown",
                                 ![page][m].seen = strokes,
                                 ![page][m].inputs = ins]
      BY <1>2 DEF ReadRows
    <3> HIDE DEF ins, strokes
    <3> QED
      BY <2>1, <3>1 DEF TypeOK, Form
  <2>4. form \in Form
    <3> HIDE DEF ins, strokes
    <3> QED
      BY <2>1, <2>2 DEF Form
  <2> HIDE DEF form
  <2> QED
    BY <2>3, <2>4 DEF TypeOK
<1> QED
  BY <1>1, <1>2

\* What the week sheet writes for a match that is ready is a score per hole.
LEMMA SheetScoresTyped ==
    ASSUME TypeOK, NEW page \in Pages, NEW post \in Pages, NEW m \in Matches,
           SheetMatchReady(page, post, m), NEW typed \in Typed(Golfers),
           NEW g \in PlayersOf(m)
    PROVE  SheetScores(post, m, typed)[g] \in [Holes -> Strokes]
<1>1. g \in Golfers
  BY PlayersAreGolfers
<1>2. CASE g \in forms[post][m].inputs
  BY <1>1, <1>2 DEF SheetScores, Typed
<1>3. CASE g \notin forms[post][m].inputs
  <2>1. forms[post][m].seen \in Shown
    BY DEF TypeOK, Form
  <2>2. forms[post][m].seen[g] \in [Holes -> Strokes \cup {0}]
    BY <1>1, <2>1 DEF Shown
  <2>3. \A h \in Holes : forms[post][m].seen[g][h] # 0
    BY <1>3 DEF SheetMatchReady
  <2>4. forms[post][m].seen[g] \in [Holes -> Strokes]
    BY <2>2, <2>3
  <2> QED
    BY <1>3, <2>4 DEF SheetScores
<1> QED
  BY <1>2, <1>3

\* A posted week sheet keeps the rows and marks well typed.
LEMMA SaveWeekTyped ==
    ASSUME TypeOK, NEW page \in Pages, page.kind = "sheet",
           NEW typedIn \in SUBSET Matches, SaveWeek(page, typedIn)
    PROVE  TypeOK'
<1> DEFINE post == [page EXCEPT !.kind = "post"]
<1>1. post \in Pages
  BY ScoresAssumption
<1>2. PICK typed \in Typed(Golfers) :
        SaveCards(typedIn, [m \in typedIn |-> SheetScores(post, m, typed)], page.user)
  BY DEF SaveWeek
<1> DEFINE new == [m \in typedIn |-> SheetScores(post, m, typed)]
<1>3. \A m \in typedIn : \A g \in Golfers \cap DOMAIN new[m] :
          new[m][g] \in [Holes -> Strokes]
  <2> SUFFICES ASSUME NEW m \in typedIn, NEW g \in PlayersOf(m)
               PROVE  SheetScores(post, m, typed)[g] \in [Holes -> Strokes]
    BY DEF SheetScores
  <2>1. SheetMatchReady(page, post, m)
    BY DEF SaveWeek
  <2> HIDE DEF post
  <2> QED
    BY <1>1, <2>1, SheetScoresTyped
<1>4. forms' = [forms EXCEPT ![post] = [m \in Matches |-> NoForm]]
  BY DEF SaveWeek
<1>5. forms' \in [Pages -> [Matches -> Form]]
  <2> HIDE DEF post
  <2> QED
    BY <1>4, NoFormTyped DEF TypeOK
<1>6. SaveCards(typedIn, new, page.user)
  BY <1>2
<1>7. /\ rows' \in [Matches -> [Golfers -> [Holes -> Row \cup {NoRow}]]]
      /\ rev' \in [Matches -> 0..MaxRevision]
      /\ changedBy' \in [Matches -> Users \cup {NoOne}]
  <2> HIDE DEF new
  <2> QED
    BY <1>3, <1>6, PagesHaveUsers, SaveCardsTyped
<1>8. UNCHANGED <<weekType, reached, sides, locked>>
  BY DEF SaveWeek
<1> QED
  BY <1>5, <1>7, <1>8 DEF TypeOK

\* A posted match form does.
LEMMA SaveMatchTyped ==
    ASSUME TypeOK, NEW page \in Pages, NEW m \in Matches, SaveMatch(page, m)
    PROVE  TypeOK'
<1>1. PICK typed \in Typed(Writable(m, page)) :
        SaveCards({m}, [n \in {m} |-> typed], page.user)
  BY DEF SaveMatch
<1> DEFINE new == [n \in {m} |-> typed]
<1>2. \A n \in {m} : \A g \in Golfers \cap DOMAIN new[n] :
          new[n][g] \in [Holes -> Strokes]
  BY <1>1 DEF Typed
<1>3. SaveCards({m}, new, page.user)
  BY <1>1
<1>4. /\ rows' \in [Matches -> [Golfers -> [Holes -> Row \cup {NoRow}]]]
      /\ rev' \in [Matches -> 0..MaxRevision]
      /\ changedBy' \in [Matches -> Users \cup {NoOne}]
  <2>1. {m} \in SUBSET Matches
    OBVIOUS
  <2> HIDE DEF new
  <2> QED
    BY <1>2, <1>3, <2>1, PagesHaveUsers, SaveCardsTyped
<1>5. UNCHANGED <<weekType, reached, sides, locked, forms>>
  BY DEF SaveMatch
<1> QED
  BY <1>4, <1>5 DEF TypeOK

\* A scorecard does.
LEMMA SubmitCardTyped ==
    ASSUME TypeOK, NEW actor \in Pages, NEW on \in SUBSET Golfers,
           NEW acknowledged \in BOOLEAN, SubmitCard(actor, on, acknowledged)
    PROVE  TypeOK'
<1> DEFINE written == on \ Blocked(on)
<1>1. PICK typed \in Typed(on) :
        rows' = [m \in Matches |-> [g \in Golfers |->
                    IF g \in written \cap PlayersOf(m)
                    THEN [h \in Holes |-> [strokes |-> typed[g][h], by |-> actor.user]]
                    ELSE rows[m][g]]]
  BY DEF SubmitCard
<1>2. \A m \in Matches, g \in Golfers :
          rows'[m][g] \in [Holes -> Row \cup {NoRow}]
  <2> SUFFICES ASSUME NEW m \in Matches, NEW g \in Golfers
               PROVE  rows'[m][g] \in [Holes -> Row \cup {NoRow}]
    OBVIOUS
  <2>1. CASE g \in written \cap PlayersOf(m)
    <3>1. typed[g] \in [Holes -> Strokes]
      BY <1>1, <2>1 DEF Typed
    <3>2. rows'[m][g] = [h \in Holes |-> [strokes |-> typed[g][h], by |-> actor.user]]
      BY <1>1, <2>1
    <3> QED
      BY <3>1, <3>2, PagesHaveUsers DEF Row
  <2>2. CASE g \notin written \cap PlayersOf(m)
    BY <1>1, <2>2 DEF TypeOK
  <2> QED
    BY <2>1, <2>2
<1>3. rows' \in [Matches -> [Golfers -> [Holes -> Row \cup {NoRow}]]]
  BY <1>1, <1>2
<1>4. /\ rev' \in [Matches -> 0..MaxRevision]
      /\ changedBy' \in [Matches -> Users \cup {NoOne}]
  <2> DEFINE M == {m \in Matches : PlayersOf(m) \cap written # {}}
  <2>1. BumpScores(M, actor.user) /\ M \subseteq Matches
    BY DEF SubmitCard
  <2> HIDE DEF M
  <2> QED
    BY <2>1, PagesHaveUsers, ScoresAssumption DEF BumpScores, Bump, TypeOK
<1>5. UNCHANGED <<weekType, reached, sides, locked, forms>>
  BY DEF SubmitCard
<1> QED
  BY <1>3, <1>4, <1>5 DEF TypeOK

\* The first state is well typed.
LEMMA InitTyped == Init => TypeOK
<1> SUFFICES ASSUME Init PROVE TypeOK
  OBVIOUS
<1>1. Empty \in [Golfers -> [Holes -> Row \cup {NoRow}]]
  BY DEF Empty
<1>2. rows \in [Matches -> [Golfers -> [Holes -> Row \cup {NoRow}]]]
  BY <1>1 DEF Init
<1>3. forms \in [Pages -> [Matches -> Form]]
  BY NoFormTyped DEF Init
<1>4. /\ weekType \in {"match", "play_with_team"}
      /\ reached \in BOOLEAN
  BY DEF Init
<1>5. /\ sides \in [Matches -> [Sides -> Golfers]]
      /\ rev \in [Matches -> 0..MaxRevision]
      /\ locked \in SUBSET Matches
      /\ changedBy \in [Matches -> Users \cup {NoOne}]
  BY ScoresAssumption DEF Init
<1> QED
  BY <1>2, <1>3, <1>4, <1>5 DEF TypeOK

\* Every step keeps the state well typed.
LEMMA NextTyped == TypeOK /\ [Next]_vars => TypeOK'
<1> SUFFICES ASSUME TypeOK, [Next]_vars PROVE TypeOK'
  OBVIOUS
<1>1. ASSUME NEW actor \in Pages, NEW on \in CardSizes, NEW acknowledged \in BOOLEAN,
             SubmitCard(actor, on, acknowledged)
      PROVE  TypeOK'
  BY <1>1, SubmitCardTyped DEF CardSizes
<1>2. ASSUME NEW page \in Pages, NEW m \in Matches,
             ReadState(page, m) \/ ReadRows(page, m)
      PROVE  TypeOK'
  BY <1>2, ReadsTyped DEF TypeOK, ReadState, ReadRows
<1>3. ASSUME NEW page \in Pages, NEW m \in Matches, SaveMatch(page, m)
      PROVE  TypeOK'
  BY <1>3, SaveMatchTyped
<1>4. ASSUME NEW page \in Pages, NEW m \in Matches, LockMatch(page, m)
      PROVE  TypeOK'
  BY <1>4, ScoresAssumption DEF LockMatch, Bump, TypeOK
<1>5. ASSUME NEW page \in Pages, NEW m \in Matches, ClearMatch(page, m)
      PROVE  TypeOK'
  BY <1>5, PagesHaveUsers, ScoresAssumption
     DEF ClearMatch, BumpScores, Bump, Empty, TypeOK
<1>6. ASSUME NEW page \in Pages, LockWeek(page)
      PROVE  TypeOK'
  BY <1>6, ScoresAssumption DEF LockWeek, Bump, TypeOK
<1>7. ASSUME NEW page \in Pages, page.kind = "sheet",
             NEW typedIn \in SUBSET Matches, SaveWeek(page, typedIn)
      PROVE  TypeOK'
  BY <1>7, SaveWeekTyped
<1>8. CASE EditWeekType \/ MovePlayDate
  BY <1>8 DEF EditWeekType, MovePlayDate, TypeOK
<1>9. ASSUME NEW m \in Matches, UnlockMatch(m)
      PROVE  TypeOK'
  BY <1>9, ScoresAssumption DEF UnlockMatch, Bump, TypeOK
<1>10. ASSUME NEW m \in Matches, NEW side \in Sides, NEW golfer \in Golfers,
              Substitute(m, side, golfer)
       PROVE  TypeOK'
  BY <1>10 DEF Substitute, TypeOK
<1>11. CASE UNCHANGED vars
  BY <1>11 DEF vars, TypeOK
<1> QED
  BY <1>1, <1>2, <1>3, <1>4, <1>5, <1>6, <1>7, <1>8, <1>9, <1>10, <1>11
     DEF Next, CardNext, PageNext, SheetNext, WeekNext

\* Type correctness: the variables always hold what the tables and the pages
\* can hold; in particular only scores of 1 to 15 are ever stored, although
\* the week sheet writes back rows it read earlier.
THEOREM TypeCorrect == Spec => []TypeOK
BY InitTyped, NextTyped, PTL DEF Spec

-----------------------------------------------------------------------------
(* Revisions: what every other proof rests on.                              *)

\* The step lets go of some forms, and leaves the others alone.
FormsKept == \A p \in Pages, m \in Matches : forms'[p][m] \in {forms[p][m], NoForm}

\* No revision goes down, and a match whose rows change gets a new one.
RevisionsTell ==
    \A m \in Matches :
        /\ rev'[m] >= rev[m]
        /\ rows'[m] # rows[m] => rev'[m] > rev[m]

\* Raising the revisions of the matches that changed keeps revisions telling.
LEMMA BumpTells ==
    ASSUME TypeOK, NEW M \in SUBSET Matches, Bump(M),
           \A m \in Matches \ M : rows'[m] = rows[m]
    PROVE  RevisionsTell
BY ScoresAssumption DEF TypeOK, Bump, RevisionsTell

\* Saving cards raises the revisions of just the matches it changes.
LEMMA SaveCardsBump ==
    ASSUME TypeOK, NEW M \in SUBSET Matches, NEW new, NEW user,
           SaveCards(M, new, user)
    PROVE  \E N \in SUBSET M :
              /\ Bump(N)
              /\ \A m \in N : changedBy'[m] = user /\ rows'[m] # rows[m]
              /\ \A m \in Matches \ N : rows'[m] = rows[m]
<1> DEFINE saved == [m \in Matches |-> [g \in Golfers |->
                        IF m \in M /\ g \in DOMAIN new[m]
                        THEN Apply(rows[m][g], new[m][g], user)
                        ELSE rows[m][g]]]
           N == {m \in M : saved[m] # rows[m]}
<1>1. rows' = saved /\ BumpScores(N, user)
  BY DEF SaveCards
<1>2. \A m \in Matches \ M : saved[m] = rows[m]
  <2> SUFFICES ASSUME NEW m \in Matches \ M
               PROVE  [g \in Golfers |-> rows[m][g]] = rows[m]
    OBVIOUS
  <2>1. rows[m] \in [Golfers -> [Holes -> Row \cup {NoRow}]]
    BY DEF TypeOK
  <2> QED
    BY <2>1
<1>3. N \in SUBSET M /\ \A m \in Matches \ N : saved[m] = rows[m]
  BY <1>2
<1>4. Bump(N) /\ \A m \in N : changedBy'[m] = user /\ saved[m] # rows[m]
  <2>1. \A m \in N : m \in Matches /\ saved[m] # rows[m]
    OBVIOUS
  <2> HIDE DEF N, saved
  <2> QED
    BY <1>1, <2>1 DEF BumpScores
<1> QED
  BY <1>1, <1>3, <1>4

\* The three ways to write scores, seen as a change of some matches by one
\* account: the revisions of those matches go up and nothing else moves.
LEMMA SaveMatchBump ==
    ASSUME TypeOK, NEW page \in Pages, NEW m \in Matches, SaveMatch(page, m)
    PROVE  \E N \in SUBSET {m} :
              /\ Bump(N)
              /\ \A n \in N : changedBy'[n] = page.user /\ rows'[n] # rows[n]
              /\ \A n \in Matches \ N : rows'[n] = rows[n]
<1>1. PICK typed \in Typed(Writable(m, page)) :
        SaveCards({m}, [n \in {m} |-> typed], page.user)
  BY DEF SaveMatch
<1>2. {m} \in SUBSET Matches
  OBVIOUS
<1> DEFINE new == [n \in {m} |-> typed]
<1>3. SaveCards({m}, new, page.user)
  BY <1>1
<1> HIDE DEF new
<1> QED
  BY <1>2, <1>3, SaveCardsBump

\* A posted week sheet raises the revision of exactly the matches it changes.
LEMMA SaveWeekBump ==
    ASSUME TypeOK, NEW page \in Pages, NEW typedIn \in SUBSET Matches,
           SaveWeek(page, typedIn)
    PROVE  \E N \in SUBSET typedIn :
              /\ Bump(N)
              /\ \A n \in N : changedBy'[n] = page.user /\ rows'[n] # rows[n]
              /\ \A n \in Matches \ N : rows'[n] = rows[n]
<1> DEFINE post == [page EXCEPT !.kind = "post"]
<1>1. PICK typed \in Typed(Golfers) :
        SaveCards(typedIn, [m \in typedIn |-> SheetScores(post, m, typed)], page.user)
  BY DEF SaveWeek
<1> DEFINE new == [m \in typedIn |-> SheetScores(post, m, typed)]
<1>2. SaveCards(typedIn, new, page.user)
  BY <1>1
<1> HIDE DEF new
<1> QED
  BY <1>2, SaveCardsBump

\* A card raises the revision of exactly the matches it adds scores to.
LEMMA SubmitCardBump ==
    ASSUME TypeOK, NEW actor \in Pages, NEW on \in SUBSET Golfers,
           NEW acknowledged \in BOOLEAN, SubmitCard(actor, on, acknowledged)
    PROVE  LET M == {m \in Matches : PlayersOf(m) \cap (on \ Blocked(on)) # {}}
           IN  /\ Bump(M)
               /\ \A n \in M : changedBy'[n] = actor.user
               /\ \A n \in Matches \ M : rows'[n] = rows[n]
<1> DEFINE written == on \ Blocked(on)
           M == {m \in Matches : PlayersOf(m) \cap written # {}}
<1>1. PICK typed \in Typed(on) :
        rows' = [m \in Matches |-> [g \in Golfers |->
                    IF g \in written \cap PlayersOf(m)
                    THEN [h \in Holes |-> [strokes |-> typed[g][h], by |-> actor.user]]
                    ELSE rows[m][g]]]
  BY DEF SubmitCard
<1>2. ASSUME NEW n \in Matches \ M
      PROVE  rows'[n] = rows[n]
  <2>1. \A g \in Golfers : g \notin written \cap PlayersOf(n)
    BY <1>2
  <2>2. rows'[n] = [g \in Golfers |-> rows[n][g]]
    BY <1>1, <2>1
  <2>3. rows[n] \in [Golfers -> [Holes -> Row \cup {NoRow}]]
    BY DEF TypeOK
  <2> QED
    BY <2>2, <2>3
<1>3. BumpScores(M, actor.user) /\ \A n \in M : n \in Matches
  BY DEF SubmitCard
<1>4. Bump(M) /\ \A n \in M : changedBy'[n] = actor.user
  <2> HIDE DEF M
  <2> QED
    BY <1>3 DEF BumpScores
<1> QED
  BY <1>2, <1>4

\* In every step revisions tell.
LEMMA RevisionsAlwaysTell ==
    ASSUME TypeOK, [Next]_vars
    PROVE  RevisionsTell
<1>1. ASSUME NEW actor \in Pages, NEW on \in CardSizes, NEW acknowledged \in BOOLEAN,
             SubmitCard(actor, on, acknowledged)
      PROVE  RevisionsTell
  <2> DEFINE M == {m \in Matches : PlayersOf(m) \cap (on \ Blocked(on)) # {}}
  <2>1. on \in SUBSET Golfers
    BY DEF CardSizes
  <2>2. Bump(M) /\ \A n \in Matches \ M : rows'[n] = rows[n]
    BY <1>1, <2>1, SubmitCardBump
  <2>3. M \in SUBSET Matches
    OBVIOUS
  <2> HIDE DEF M
  <2> QED
    BY <2>2, <2>3, BumpTells
<1>2. ASSUME NEW page \in Pages, NEW m \in Matches,
             ReadState(page, m) \/ ReadRows(page, m)
      PROVE  RevisionsTell
  BY <1>2, ScoresAssumption DEF ReadState, ReadRows, RevisionsTell, TypeOK
<1>3. ASSUME NEW page \in Pages, NEW m \in Matches, SaveMatch(page, m)
      PROVE  RevisionsTell
  <2>1. PICK N \in SUBSET {m} : Bump(N) /\ \A n \in Matches \ N : rows'[n] = rows[n]
    BY <1>3, SaveMatchBump
  <2>2. N \in SUBSET Matches
    OBVIOUS
  <2> QED
    BY <2>1, <2>2, BumpTells
<1>4. ASSUME NEW page \in Pages, NEW m \in Matches,
             LockMatch(page, m) \/ ClearMatch(page, m)
      PROVE  RevisionsTell
  <2>1. {m} \in SUBSET Matches
    OBVIOUS
  <2>2. Bump({m}) /\ \A n \in Matches \ {m} : rows'[n] = rows[n]
    BY <1>4 DEF LockMatch, ClearMatch, BumpScores, TypeOK
  <2> QED
    BY <2>1, <2>2, BumpTells
<1>5. ASSUME NEW page \in Pages, LockWeek(page)
      PROVE  RevisionsTell
  <2> DEFINE M == {m \in Matches \ locked : Complete(m) /\ UpToDate(page, m)}
  <2>1. Bump(M) /\ \A n \in Matches \ M : rows'[n] = rows[n]
    BY <1>5 DEF LockWeek
  <2>2. M \in SUBSET Matches
    OBVIOUS
  <2> HIDE DEF M
  <2> QED
    BY <2>1, <2>2, BumpTells
<1>6. ASSUME NEW page \in Pages, NEW typedIn \in SUBSET Matches, SaveWeek(page, typedIn)
      PROVE  RevisionsTell
  <2>1. PICK N \in SUBSET typedIn : Bump(N) /\ \A n \in Matches \ N : rows'[n] = rows[n]
    BY <1>6, SaveWeekBump
  <2>2. N \in SUBSET Matches
    OBVIOUS
  <2> QED
    BY <2>1, <2>2, BumpTells
<1>7. CASE UNCHANGED <<rows, rev>>
  BY <1>7, ScoresAssumption DEF RevisionsTell, TypeOK
<1>8. ASSUME NEW m \in Matches, UnlockMatch(m)
      PROVE  RevisionsTell
  <2>1. {m} \in SUBSET Matches /\ Bump({m}) /\ \A n \in Matches \ {m} : rows'[n] = rows[n]
    BY <1>8 DEF UnlockMatch
  <2> QED
    BY <2>1, BumpTells
<1> QED
  BY <1>1, <1>2, <1>3, <1>4, <1>5, <1>6, <1>7, <1>8
     DEF Next, CardNext, PageNext, SheetNext, WeekNext, vars,
         EditWeekType, MovePlayDate, Substitute

\* Every step that is not a read only lets go of forms.
LEMMA FormsUsuallyKept ==
    ASSUME TypeOK, [Next]_vars,
           ~(\E p \in Pages, m \in Matches : ReadState(p, m) \/ ReadRows(p, m))
    PROVE  FormsKept
<1>1. CASE UNCHANGED forms
  BY <1>1 DEF FormsKept
<1>2. ASSUME NEW page \in Pages, NEW typedIn \in SUBSET Matches, SaveWeek(page, typedIn)
      PROVE  FormsKept
  <2> DEFINE post == [page EXCEPT !.kind = "post"]
  <2>1. forms' = [forms EXCEPT ![post] = [m \in Matches |-> NoForm]]
    BY <1>2 DEF SaveWeek
  <2> HIDE DEF post
  <2> QED
    BY <2>1 DEF FormsKept, TypeOK
<1> QED
  BY <1>1, <1>2 DEF Next, CardNext, PageNext, SheetNext, WeekNext, vars,
     SubmitCard, SaveMatch, LockMatch, ClearMatch, LockWeek, UnlockMatch,
     EditWeekType, MovePlayDate, Substitute

-----------------------------------------------------------------------------
(* Forms show what is saved.                                                *)

\* A form whose match moved on is out of date, and one whose match did not
\* still shows the same rows.
LEMMA FormsTrueKept ==
    ASSUME TypeOK, FormsTrue, RevisionsTell, FormsKept, TypeOK'
    PROVE  FormsTrue'
<1> SUFFICES ASSUME NEW p \in Pages, NEW m \in Matches
             PROVE  /\ forms'[p][m].rev <= rev'[m]
                    /\ forms'[p][m].phase = "shown" /\ forms'[p][m].rev = rev'[m]
                          => forms'[p][m].seen = StrokesOf(m)'
  BY DEF FormsTrue
<1>1. rev[m] \in Nat /\ rev'[m] \in Nat /\ rev'[m] >= rev[m]
  BY ScoresAssumption DEF TypeOK, RevisionsTell
<1>2. CASE forms'[p][m] = NoForm
  BY <1>1, <1>2 DEF NoForm
<1>3. CASE forms'[p][m] = forms[p][m]
  <2>1. forms[p][m].rev \in Nat /\ forms[p][m].rev <= rev[m]
    BY ScoresAssumption DEF FormsTrue, TypeOK, Form
  <2>2. ASSUME forms[p][m].phase = "shown", forms[p][m].rev = rev'[m]
        PROVE  forms[p][m].seen = StrokesOf(m)'
    <3>1. rev'[m] = rev[m]
      BY <1>1, <2>1, <2>2
    <3>2. rows'[m] = rows[m]
      BY <1>1, <3>1 DEF RevisionsTell
    <3>3. StrokesOf(m)' = StrokesOf(m)
      BY <3>2 DEF StrokesOf
    <3> QED
      BY <2>2, <3>1, <3>3 DEF FormsTrue
  <2> QED
    BY <1>1, <1>3, <2>1, <2>2
<1> QED
  BY <1>2, <1>3 DEF FormsKept

\* Reading the state first, then the rows, leaves a form that is true or old.
LEMMA ReadsTrue ==
    ASSUME TypeOK, FormsTrue, NEW page \in Pages, NEW m \in Matches,
           ReadState(page, m) \/ ReadRows(page, m)
    PROVE  FormsTrue'
<1> SUFFICES ASSUME NEW p \in Pages, NEW n \in Matches
             PROVE  /\ forms'[p][n].rev <= rev'[n]
                    /\ forms'[p][n].phase = "shown" /\ forms'[p][n].rev = rev'[n]
                          => forms'[p][n].seen = StrokesOf(n)'
  BY DEF FormsTrue
<1>1. UNCHANGED <<rows, rev>> /\ StrokesOf(n)' = StrokesOf(n)
  BY DEF ReadState, ReadRows, StrokesOf
<1>2. CASE ReadState(page, m) /\ p = page /\ n = m
  BY <1>1, <1>2, ScoresAssumption DEF ReadState, TypeOK
<1>3. CASE ReadRows(page, m) /\ p = page /\ n = m
  <2> DEFINE strokes == StrokesOf(m)
             ins == {g \in forms[page][m].inputs :
                        IF page.kind = "match" THEN g \in Writable(m, page)
                                               ELSE ~Saved(m, g)}
  <2>1. forms' = [forms EXCEPT ![page][m].phase = "shown",
                               ![page][m].seen = strokes,
                               ![page][m].inputs = ins]
    BY <1>3 DEF ReadRows
  <2>2. forms'[p][n].rev = forms[p][n].rev /\ forms'[p][n].seen = strokes
    <3> HIDE DEF strokes, ins
    <3> QED
      BY <1>3, <2>1 DEF TypeOK, Form
  <2> QED
    BY <1>1, <1>3, <2>2 DEF FormsTrue
<1>4. CASE p # page \/ n # m
  <2>1. forms'[p][n] = forms[p][n]
    BY <1>4 DEF ReadState, ReadRows, TypeOK
  <2> QED
    BY <1>1, <2>1 DEF FormsTrue
<1> QED
  BY <1>2, <1>3, <1>4

\* No step makes a form untrue.
LEMMA NextFormsTrue ==
    ASSUME TypeOK, FormsTrue, [Next]_vars
    PROVE  FormsTrue'
<1>1. CASE \E p \in Pages, m \in Matches : ReadState(p, m) \/ ReadRows(p, m)
  BY <1>1, ReadsTrue
<1>2. CASE ~(\E p \in Pages, m \in Matches : ReadState(p, m) \/ ReadRows(p, m))
  BY <1>2, FormsUsuallyKept, RevisionsAlwaysTell, FormsTrueKept, NextTyped
<1> QED
  BY <1>1, <1>2

\* However saves, cards, locks and clears fall between the two reads of a page
\* and the post of its form, a form whose revision is still the match's shows
\* the scores that are saved: comparing revisions is enough to never overwrite
\* what was not seen.
THEOREM FormsAreTrue == Spec => []FormsTrue
<1>1. Init => FormsTrue
  BY ScoresAssumption DEF Init, FormsTrue, NoForm
<1>2. TypeOK /\ FormsTrue /\ [Next]_vars => FormsTrue'
  BY NextFormsTrue
<1> QED
  BY <1>1, <1>2, TypeCorrect, PTL DEF Spec

-----------------------------------------------------------------------------
(* What a step may do to one golfer's card in one match: nothing, clear it, *)
(* or give a side of the match a score for every hole.                      *)

CardStep(m, g) ==
    \/ rows'[m][g] = rows[m][g]
    \/ rows'[m][g] = Empty[g]
    \/ /\ g \in PlayersOf(m)
       /\ \E new \in [Holes -> Strokes], user \in Users :
             rows'[m][g] = Apply(rows[m][g], new, user)

\* What SaveCards does to one card.
LEMMA SaveCardsCard ==
    ASSUME TypeOK, NEW M \in SUBSET Matches, NEW new, NEW user \in Users,
           \A m \in M : DOMAIN new[m] \subseteq PlayersOf(m),
           \A m \in M : \A g \in Golfers \cap DOMAIN new[m] :
               new[m][g] \in [Holes -> Strokes],
           SaveCards(M, new, user), NEW m \in Matches, NEW g \in Golfers
    PROVE  CardStep(m, g)
<1>1. rows' = [n \in Matches |-> [f \in Golfers |->
                  IF n \in M /\ f \in DOMAIN new[n]
                  THEN Apply(rows[n][f], new[n][f], user)
                  ELSE rows[n][f]]]
  BY DEF SaveCards
<1>2. CASE m \in M /\ g \in DOMAIN new[m]
  BY <1>1, <1>2 DEF CardStep
<1>3. CASE ~(m \in M /\ g \in DOMAIN new[m])
  BY <1>1, <1>3 DEF CardStep
<1> QED
  BY <1>2, <1>3

\* A card scores the golfers it writes on blank lines only.
LEMMA SubmitCardCard ==
    ASSUME TypeOK, NEW actor \in Pages, NEW on \in SUBSET Golfers,
           NEW acknowledged \in BOOLEAN, SubmitCard(actor, on, acknowledged),
           NEW m \in Matches, NEW g \in Golfers
    PROVE  /\ CardStep(m, g)
           /\ Saved(m, g) => rows'[m][g] = rows[m][g]
<1> DEFINE written == on \ Blocked(on)
<1>1. PICK typed \in Typed(on) :
        rows' = [n \in Matches |-> [f \in Golfers |->
                    IF f \in written \cap PlayersOf(n)
                    THEN [h \in Holes |-> [strokes |-> typed[f][h], by |-> actor.user]]
                    ELSE rows[n][f]]]
  BY DEF SubmitCard
<1>2. CASE g \in written \cap PlayersOf(m)
  <2>1. ~Saved(m, g)
    BY <1>2 DEF Blocked
  <2>2. typed[g] \in [Holes -> Strokes]
    BY <1>2 DEF Typed
  <2>3. rows'[m][g] = [h \in Holes |-> [strokes |-> typed[g][h], by |-> actor.user]]
    BY <1>1, <1>2
  <2>4. rows'[m][g] = Apply(rows[m][g], typed[g], actor.user)
    BY <2>1, <2>3 DEF Saved, Apply
  <2> QED
    BY <1>2, <2>1, <2>2, <2>4, PagesHaveUsers DEF CardStep
<1>3. CASE g \notin written \cap PlayersOf(m)
  BY <1>1, <1>3 DEF CardStep
<1> QED
  BY <1>2, <1>3

\* The form of one match leaves every saved card whole.
LEMMA SaveMatchCard ==
    ASSUME TypeOK, NEW page \in Pages, NEW n \in Matches, SaveMatch(page, n),
           NEW m \in Matches, NEW g \in Golfers
    PROVE  CardStep(m, g)
<1>1. PICK typed \in Typed(Writable(n, page)) :
        SaveCards({n}, [k \in {n} |-> typed], page.user)
  BY DEF SaveMatch
<1> DEFINE new == [k \in {n} |-> typed]
<1>2. /\ \A k \in {n} : DOMAIN new[k] \subseteq PlayersOf(k)
      /\ \A k \in {n} : \A f \in Golfers \cap DOMAIN new[k] :
            new[k][f] \in [Holes -> Strokes]
  BY <1>1 DEF Typed, Writable
<1>3. SaveCards({n}, new, page.user) /\ {n} \in SUBSET Matches
  BY <1>1
<1> HIDE DEF new
<1> QED
  BY <1>2, <1>3, PagesHaveUsers, SaveCardsCard

\* A posted week sheet leaves every saved card whole.
LEMMA SaveWeekCard ==
    ASSUME TypeOK, NEW page \in Pages, page.kind = "sheet",
           NEW typedIn \in SUBSET Matches, SaveWeek(page, typedIn),
           NEW m \in Matches, NEW g \in Golfers
    PROVE  CardStep(m, g)
<1> DEFINE post == [page EXCEPT !.kind = "post"]
<1>1. post \in Pages
  BY ScoresAssumption
<1>2. PICK typed \in Typed(Golfers) :
        SaveCards(typedIn, [k \in typedIn |-> SheetScores(post, k, typed)], page.user)
  BY DEF SaveWeek
<1> DEFINE new == [k \in typedIn |-> SheetScores(post, k, typed)]
<1>3. \A k \in typedIn : DOMAIN new[k] \subseteq PlayersOf(k)
  BY DEF SheetScores
<1>4. \A k \in typedIn : \A f \in Golfers \cap DOMAIN new[k] :
          new[k][f] \in [Holes -> Strokes]
  <2> SUFFICES ASSUME NEW k \in typedIn, NEW f \in PlayersOf(k)
               PROVE  SheetScores(post, k, typed)[f] \in [Holes -> Strokes]
    BY <1>3
  <2>1. SheetMatchReady(page, post, k)
    BY DEF SaveWeek
  <2> HIDE DEF post
  <2> QED
    BY <1>1, <2>1, SheetScoresTyped
<1>5. SaveCards(typedIn, new, page.user)
  BY <1>2
<1> HIDE DEF new
<1> QED
  BY <1>3, <1>4, <1>5, PagesHaveUsers, SaveCardsCard

\* Every step is a card step for every card, and sides move only in
\* substitutions, which leave the rows alone.
LEMMA NextCardStep ==
    ASSUME TypeOK, [Next]_vars, NEW m \in Matches, NEW g \in Golfers
    PROVE  /\ CardStep(m, g)
           /\ sides' # sides => rows' = rows
<1>1. ASSUME NEW actor \in Pages, NEW on \in CardSizes, NEW acknowledged \in BOOLEAN,
             SubmitCard(actor, on, acknowledged)
      PROVE  CardStep(m, g) /\ sides' = sides
  <2>1. on \in SUBSET Golfers
    BY DEF CardSizes
  <2>2. CardStep(m, g)
    BY <1>1, <2>1, SubmitCardCard
  <2>3. sides' = sides
    BY <1>1 DEF SubmitCard
  <2> QED
    BY <2>2, <2>3
<1>2. ASSUME NEW page \in Pages, NEW n \in Matches, SaveMatch(page, n)
      PROVE  CardStep(m, g) /\ sides' = sides
  BY <1>2, SaveMatchCard DEF SaveMatch
<1>3. ASSUME NEW page \in Pages, page.kind = "sheet",
             NEW typedIn \in SUBSET Matches, SaveWeek(page, typedIn)
      PROVE  CardStep(m, g) /\ sides' = sides
  BY <1>3, SaveWeekCard DEF SaveWeek
<1>4. ASSUME NEW page \in Pages, NEW n \in Matches, ClearMatch(page, n)
      PROVE  CardStep(m, g) /\ sides' = sides
  BY <1>4 DEF ClearMatch, CardStep, TypeOK
<1>5. CASE UNCHANGED rows
  BY <1>5 DEF CardStep
<1> QED
  BY <1>1, <1>2, <1>3, <1>4, <1>5, ZenonT(40) DEF Next, CardNext, PageNext, SheetNext, WeekNext,
     vars, ReadState, ReadRows, LockMatch, LockWeek, UnlockMatch,
     EditWeekType, MovePlayDate, Substitute

\* Scores already on a card keep who entered them; new ones have one author.
LEMMA ApplyAuthors ==
    ASSUME NEW card \in [Holes -> Row \cup {NoRow}],
           NEW new \in [Holes -> Strokes], NEW user \in Users, NEW h \in Holes
    PROVE  /\ card[h] = NoRow => Apply(card, new, user)[h].by = user
           /\ card[h] # NoRow => Apply(card, new, user)[h].by = card[h].by
<1>1. Apply(card, new, user)[h] = IF card[h] = NoRow
                                  THEN [strokes |-> new[h], by |-> user]
                                  ELSE [card[h] EXCEPT !.strokes = new[h]]
  BY DEF Apply
<1>2. CASE card[h] # NoRow
  <2>1. card[h] \in [strokes : Strokes, by : Users]
    BY <1>2 DEF Row
  <2> QED
    BY <1>1, <1>2, <2>1
<1> QED
  BY <1>1, <1>2

-----------------------------------------------------------------------------
(* Cards are whole, and belong to the sides of their match.                 *)

\* No step mixes authors or leaves part of a card.
LEMMA NextCardsWhole ==
    ASSUME TypeOK, CardsWhole, [Next]_vars
    PROVE  CardsWhole'
<1> SUFFICES ASSUME NEW m \in Matches, NEW g \in Golfers, Saved(m, g)'
             PROVE  \E u \in Users : \A h \in Holes : rows'[m][g][h].by = u
  BY DEF CardsWhole
<1>1. CASE rows'[m][g] = rows[m][g]
  BY <1>1 DEF CardsWhole, Saved
<1>2. CASE rows'[m][g] = Empty[g]
  BY <1>2 DEF Saved, Empty
<1>3. ASSUME NEW new \in [Holes -> Strokes], NEW user \in Users,
             rows'[m][g] = Apply(rows[m][g], new, user)
      PROVE  \E u \in Users : \A h \in Holes : rows'[m][g][h].by = u
  <2>1. rows[m][g] \in [Holes -> Row \cup {NoRow}]
    BY DEF TypeOK
  <2>2. CASE Saved(m, g)
    <3>1. PICK u \in Users : \A h \in Holes : rows[m][g][h].by = u
      BY <2>2 DEF CardsWhole
    <3>2. \A h \in Holes : rows[m][g][h] # NoRow
      BY <3>1, ScoresAssumption DEF NoRow
    <3> QED
      BY <1>3, <2>1, <3>1, <3>2, ApplyAuthors
  <2>3. CASE ~Saved(m, g)
    BY <1>3, <2>1, <2>3, ApplyAuthors DEF Saved
  <2> QED
    BY <2>2, <2>3
<1> QED
  BY <1>1, <1>2, <1>3, NextCardStep DEF CardStep

\* A golfer's card in a match is empty or has every hole, entered by one
\* account, whatever order cards, forms, week sheets and clears come in.
THEOREM CardsAreWhole == Spec => []CardsWhole
<1>1. Init => CardsWhole
  BY DEF Init, CardsWhole, Saved, Empty
<1>2. TypeOK /\ CardsWhole /\ [Next]_vars => CardsWhole'
  BY NextCardsWhole
<1> QED
  BY <1>1, <1>2, TypeCorrect, PTL DEF Spec

\* Only a substitution moves the sides.
LEMMA SidesMove ==
    ASSUME [Next]_vars, sides' # sides
    PROVE  \E m \in Matches, side \in Sides, golfer \in Golfers :
              Substitute(m, side, golfer)
<1>1. \A actor, on, acknowledged : ~SubmitCard(actor, on, acknowledged)
  BY DEF SubmitCard
<1>2. \A page, m : ~ReadState(page, m) /\ ~ReadRows(page, m)
  BY DEF ReadState, ReadRows
<1>3. \A page, m : ~SaveMatch(page, m)
  BY DEF SaveMatch
<1>4. \A page, m : ~LockMatch(page, m) /\ ~ClearMatch(page, m) /\ ~UnlockMatch(m)
  BY DEF LockMatch, ClearMatch, UnlockMatch
<1>5. \A page, typedIn : ~SaveWeek(page, typedIn)
  BY DEF SaveWeek
<1>6. \A page : ~LockWeek(page)
  BY DEF LockWeek
<1>7. ~EditWeekType /\ ~MovePlayDate /\ ~(UNCHANGED vars)
  BY DEF EditWeekType, MovePlayDate, vars
<1> QED
  BY <1>1, <1>2, <1>3, <1>4, <1>5, <1>6, <1>7
     DEF Next, CardNext, PageNext, SheetNext, WeekNext

\* No step leaves a score under a match its golfer does not play.
LEMMA NextScoresBelong ==
    ASSUME TypeOK, ScoresBelongToSides, [Next]_vars
    PROVE  ScoresBelongToSides'
<1> SUFFICES ASSUME NEW m \in Matches, NEW g \in Golfers, Saved(m, g)'
             PROVE  g \in PlayersOf(m)'
  BY DEF ScoresBelongToSides
<1>1. CASE sides' = sides
  <2>1. PlayersOf(m)' = PlayersOf(m)
    BY <1>1 DEF PlayersOf
  <2>2. CASE rows'[m][g] = rows[m][g]
    BY <2>1, <2>2 DEF ScoresBelongToSides, Saved
  <2>3. CASE rows'[m][g] = Empty[g]
    BY <2>3 DEF Saved, Empty
  <2> QED
    BY <2>1, <2>2, <2>3, NextCardStep DEF CardStep
<1>2. CASE sides' # sides
  <2>1. rows' = rows /\ Saved(m, g)
    BY <1>2, NextCardStep DEF Saved
  <2>2. PICK n \in Matches, side \in Sides, golfer \in Golfers :
           Substitute(n, side, golfer)
    BY <1>2, SidesMove
  <2>3. m # n
    BY <2>1, <2>2 DEF Substitute, Scored
  <2>4. sides'[m] = sides[m]
    BY <2>2, <2>3 DEF Substitute, TypeOK
  <2> QED
    BY <2>1, <2>4 DEF ScoresBelongToSides, PlayersOf
<1> QED
  BY <1>1, <1>2

\* No saved score is ever left behind with a golfer who no longer plays the
\* match, and none is saved for a golfer who does not.
THEOREM ScoresStayWithSides == Spec => []ScoresBelongToSides
<1>1. Init => ScoresBelongToSides
  BY DEF Init, ScoresBelongToSides, Saved, Empty
<1>2. TypeOK /\ ScoresBelongToSides /\ [Next]_vars => ScoresBelongToSides'
  BY NextScoresBelong
<1> QED
  BY <1>1, <1>2, TypeCorrect, PTL DEF Spec

-----------------------------------------------------------------------------
(* Steps that change or lock scores come from a page that shows them.       *)

\* An up-to-date form shows what is saved.
LEMMA UpToDateShows ==
    ASSUME FormsTrue, NEW p \in Pages, NEW m \in Matches, UpToDate(p, m)
    PROVE  forms[p][m].phase = "shown" /\ forms[p][m].seen = StrokesOf(m)
BY DEF FormsTrue, UpToDate

\* A posted match form writes only golfers its actor may write.
LEMMA SaveMatchWrites ==
    ASSUME NEW page \in Pages, NEW n \in Matches, SaveMatch(page, n), TypeOK,
           NEW m \in Matches, NEW g \in Golfers, rows'[m][g] # rows[m][g]
    PROVE  m = n /\ g \in Writable(m, page) /\ changedBy'[m] = page.user
<1>1. PICK typed \in Typed(Writable(n, page)) :
        SaveCards({n}, [k \in {n} |-> typed], page.user)
  BY DEF SaveMatch
<1> DEFINE new == [k \in {n} |-> typed]
<1>2. rows' = [k \in Matches |-> [f \in Golfers |->
                  IF k \in {n} /\ f \in DOMAIN new[k]
                  THEN Apply(rows[k][f], new[k][f], page.user)
                  ELSE rows[k][f]]]
  BY <1>1 DEF SaveCards
<1>3. m = n /\ g \in DOMAIN new[m]
  BY <1>2
<1>4. g \in Writable(m, page)
  BY <1>1, <1>3 DEF Typed
<1>5. changedBy'[m] = page.user
  BY SaveMatchBump
<1> QED
  BY <1>3, <1>4, <1>5

\* Clearing changes only the match that is cleared, in the clearing admin's name.
LEMMA ClearedBy ==
    ASSUME NEW page \in Pages, NEW n \in Matches, ClearMatch(page, n), TypeOK,
           NEW m \in Matches, NEW g \in Golfers, rows'[m][g] # rows[m][g]
    PROVE  m = n /\ changedBy'[m] = page.user
BY DEF ClearMatch, BumpScores, TypeOK

\* Who may have written, and from what, when a row changed.
LEMMA ChangeExplained ==
    ASSUME TypeOK, FormsTrue, [Next]_vars,
           NEW m \in Matches, NEW g \in Golfers, rows'[m][g] # rows[m][g]
    PROVE  \E p \in Pages :
              /\ p.user = changedBy'[m]
              /\ p.admin \/ WeekTakesScores(p)
              /\ Saved(m, g) => /\ forms[p][m].phase = "shown"
                                /\ forms[p][m].seen = StrokesOf(m)
                                /\ \/ p.admin
                                   \/ GolferOf[p.user] \in PlayersOf(m)
                                   \/ EnteredAllOf(p.user, m, g)
<1> DEFINE Explained == \E p \in Pages :
              /\ p.user = changedBy'[m]
              /\ p.admin \/ WeekTakesScores(p)
              /\ Saved(m, g) => /\ forms[p][m].phase = "shown"
                                /\ forms[p][m].seen = StrokesOf(m)
                                /\ \/ p.admin
                                   \/ GolferOf[p.user] \in PlayersOf(m)
                                   \/ EnteredAllOf(p.user, m, g)
<1>1. ASSUME NEW actor \in Pages, NEW on \in CardSizes, NEW acknowledged \in BOOLEAN,
             SubmitCard(actor, on, acknowledged)
      PROVE  Explained
  <2>1. on \in SUBSET Golfers
    BY DEF CardSizes
  <2>2. ~Saved(m, g) /\ rows'[m] # rows[m]
    BY <1>1, <2>1, SubmitCardCard
  <2>3. changedBy'[m] = actor.user
    BY <1>1, <2>1, <2>2, SubmitCardBump
  <2>4. WeekTakesScores(actor)
    BY <1>1 DEF SubmitCard, CardAccepted
  <2> QED
    BY <2>2, <2>3, <2>4
<1>2. ASSUME NEW page \in Pages, NEW n \in Matches, SaveMatch(page, n)
      PROVE  Explained
  <2>1. m = n /\ g \in Writable(m, page) /\ changedBy'[m] = page.user
    BY <1>2, SaveMatchWrites
  <2>2. WeekTakesScores(page) /\ UpToDate(page, m)
    BY <1>2, <2>1 DEF SaveMatch
  <2>3. \/ page.admin
        \/ GolferOf[page.user] \in PlayersOf(m)
        \/ EnteredAllOf(page.user, m, g)
    BY <2>1 DEF Writable
  <2> QED
    BY <2>1, <2>2, <2>3, UpToDateShows
<1>3. ASSUME NEW page \in Pages, page.kind = "sheet",
             NEW typedIn \in SUBSET Matches, SaveWeek(page, typedIn)
      PROVE  Explained
  <2>1. m \in typedIn /\ changedBy'[m] = page.user
    BY <1>3, SaveWeekBump
  <2>2. WeekTakesScores(page) /\ UpToDate(page, m)
    BY <1>3, <2>1 DEF SaveWeek, SheetMatchReady
  <2>3. page.admin
    BY <1>3, ScoresAssumption
  <2> QED
    BY <2>1, <2>2, <2>3, UpToDateShows
<1>4. ASSUME NEW page \in Pages, page.admin, NEW n \in Matches, ClearMatch(page, n)
      PROVE  Explained
  <2>1. m = n /\ changedBy'[m] = page.user
    BY <1>4, ClearedBy
  <2>2. UpToDate(page, m)
    BY <1>4, <2>1 DEF ClearMatch
  <2> QED
    BY <1>4, <2>1, <2>2, UpToDateShows
<1> HIDE DEF Explained
<1>5. Explained
  BY <1>1, <1>2, <1>3, <1>4, ZenonT(40) DEF Next, CardNext, PageNext, SheetNext, WeekNext,
     vars, ReadState, ReadRows, LockMatch, LockWeek, UnlockMatch,
     EditWeekType, MovePlayDate, Substitute
<1> QED
  BY <1>5 DEF Explained

\* Nobody overwrites or clears a score they have not seen.
THEOREM ChangesAreSeen == Spec => ChangedOnlyAsSeen
<1>1. TypeOK /\ FormsTrue /\ [Next]_vars =>
        [\A m \in Matches, g \in Golfers :
            Saved(m, g) /\ rows'[m][g] # rows[m][g]
                => \E p \in Pages : /\ p.user = changedBy'[m]
                                    /\ forms[p][m].phase = "shown"
                                    /\ forms[p][m].seen = StrokesOf(m)]_vars
  BY ChangeExplained
<1> QED
  BY <1>1, TypeCorrect, FormsAreTrue, PTL DEF Spec, ChangedOnlyAsSeen

\* Nobody changes a score without the right to, or enters one in a week that
\* is not open to them.
THEOREM ChangesAreByRight == Spec => ChangedOnlyByRight
<1>1. TypeOK /\ FormsTrue /\ [Next]_vars =>
        [\A m \in Matches, g \in Golfers :
            rows'[m][g] # rows[m][g]
                => \E p \in Pages :
                      /\ p.user = changedBy'[m]
                      /\ p.admin \/ WeekTakesScores(p)
                      /\ Saved(m, g) => \/ p.admin
                                       \/ GolferOf[p.user] \in PlayersOf(m)
                                       \/ EnteredAllOf(p.user, m, g)]_vars
  BY ChangeExplained
<1> QED
  BY <1>1, TypeCorrect, FormsAreTrue, PTL DEF Spec, ChangedOnlyByRight

\* Every step that locks a match is taken from a page that shows its scores.
LEMMA LocksAsSeen ==
    ASSUME TypeOK, FormsTrue, [Next]_vars, NEW m \in locked' \ locked
    PROVE  \E p \in Pages : /\ p.admin
                            /\ forms[p][m].phase = "shown"
                            /\ forms[p][m].seen = StrokesOf(m)
<1>1. ASSUME NEW page \in Pages, page.admin, NEW n \in Matches, LockMatch(page, n)
      PROVE  \E p \in Pages : /\ p.admin
                              /\ forms[p][m].phase = "shown"
                              /\ forms[p][m].seen = StrokesOf(m)
  BY <1>1, UpToDateShows DEF LockMatch
<1>2. ASSUME NEW page \in Pages, page.kind = "sheet", LockWeek(page)
      PROVE  \E p \in Pages : /\ p.admin
                              /\ forms[p][m].phase = "shown"
                              /\ forms[p][m].seen = StrokesOf(m)
  BY <1>2, UpToDateShows, ScoresAssumption DEF LockWeek
<1>3. \A actor, on, acknowledged : ~SubmitCard(actor, on, acknowledged)
  BY DEF SubmitCard
<1>4. \A page, n : ~ReadState(page, n) /\ ~ReadRows(page, n)
  BY DEF ReadState, ReadRows
<1>5. \A page, n : ~SaveMatch(page, n) /\ ~ClearMatch(page, n) /\ ~UnlockMatch(n)
  BY DEF SaveMatch, ClearMatch, UnlockMatch
<1>6. \A page, typedIn : ~SaveWeek(page, typedIn)
  BY DEF SaveWeek
<1>7. ~EditWeekType /\ ~MovePlayDate /\ ~(UNCHANGED vars)
  BY DEF EditWeekType, MovePlayDate, vars
<1>8. \A n, side, golfer : ~Substitute(n, side, golfer)
  BY DEF Substitute
<1> QED
  BY <1>1, <1>2, <1>3, <1>4, <1>5, <1>6, <1>7, <1>8
     DEF Next, CardNext, PageNext, SheetNext, WeekNext

\* No match is locked with scores the admin was not shown.
THEOREM LocksAreSeen == Spec => LockedOnlyAsSeen
<1>1. TypeOK /\ FormsTrue /\ [Next]_vars =>
        [\A m \in locked' \ locked :
            \E p \in Pages : /\ p.admin
                             /\ forms[p][m].phase = "shown"
                             /\ forms[p][m].seen = StrokesOf(m)]_vars
  BY LocksAsSeen
<1> QED
  BY <1>1, TypeCorrect, FormsAreTrue, PTL DEF Spec, LockedOnlyAsSeen

-----------------------------------------------------------------------------
(* The week is a scorebook.                                                 *)

\* A good view is of what is saved.
LEMMA ViewsAreGood ==
    ASSUME FormsTrue, NEW p \in Pages, NEW m \in Matches, UpToDate(p, m)
    PROVE  Views[p][m] = Entered[m]
BY UpToDateShows DEF Views, Entered

\* Raising the revisions of some matches, and dropping forms or not, voids the
\* views of those matches.
LEMMA BumpVoids ==
    ASSUME TypeOK, FormsTrue, NEW M \in SUBSET Matches, Bump(M),
           FormsKept, NEW p \in Pages, NEW m \in Matches
    PROVE  Views'[p][m] \in IF m \in M THEN {NoOne} ELSE {Views[p][m], NoOne}
<1>1. /\ forms[p][m].rev \in Nat /\ rev[m] \in Nat
      /\ forms[p][m].rev <= rev[m]
  BY ScoresAssumption DEF TypeOK, Form, FormsTrue
<1>2. rev'[m] = IF m \in M THEN rev[m] + 1 ELSE rev[m]
  BY DEF Bump
<1>3. CASE forms'[p][m] = NoForm
  BY <1>3 DEF Views, UpToDate, NoForm
<1>4. CASE forms'[p][m] = forms[p][m] /\ m \in M
  <2>1. ~UpToDate(p, m)'
    BY <1>1, <1>2, <1>4 DEF UpToDate
  <2> QED
    BY <1>4, <2>1 DEF Views
<1>5. CASE forms'[p][m] = forms[p][m] /\ m \notin M
  BY <1>2, <1>5 DEF Views, UpToDate
<1> QED
  BY <1>3, <1>4, <1>5 DEF FormsKept

\* With the forms untouched, exactly the views of those matches are void.
LEMMA BumpVoidsJust ==
    ASSUME TypeOK, FormsTrue, NEW M \in SUBSET Matches, Bump(M), UNCHANGED forms
    PROVE  Views' = [p \in Pages |-> [m \in Matches |->
                        IF m \in M THEN NoOne ELSE Views[p][m]]]
<1>1. \A m \in Matches : rev'[m] = IF m \in M THEN rev[m] + 1 ELSE rev[m]
  BY DEF Bump
<1>2. \A p \in Pages, m \in Matches :
          Views'[p][m] = IF m \in M THEN NoOne ELSE Views[p][m]
  <2> SUFFICES ASSUME NEW p \in Pages, NEW m \in Matches
               PROVE  Views'[p][m] = IF m \in M THEN NoOne ELSE Views[p][m]
    OBVIOUS
  <2>1. CASE m \in M
    BY <2>1, BumpVoids DEF FormsKept
  <2>2. CASE m \notin M
    BY <1>1, <2>2 DEF Views, UpToDate
  <2> QED
    BY <2>1, <2>2
<1> QED
  BY <1>2 DEF Views

\* The strokes of a match tell whether its rows changed.
LEMMA StrokesTell ==
    ASSUME TypeOK, NEW m \in Matches, rows'[m] # rows[m],
           \A g \in Golfers : CardStep(m, g), TypeOK'
    PROVE  Entered'[m] # Entered[m]
<1>1. /\ rows[m] \in [Golfers -> [Holes -> Row \cup {NoRow}]]
      /\ rows'[m] \in [Golfers -> [Holes -> Row \cup {NoRow}]]
  BY DEF TypeOK
<1>2. PICK g \in Golfers, h \in Holes : rows'[m][g][h] # rows[m][g][h]
  <2>1. PICK g \in Golfers : rows'[m][g] # rows[m][g]
    BY <1>1
  <2>2. /\ rows[m][g] \in [Holes -> Row \cup {NoRow}]
        /\ rows'[m][g] \in [Holes -> Row \cup {NoRow}]
    BY <1>1
  <2> QED
    BY <2>1, <2>2
<1>3. rows'[m][g][h].strokes # rows[m][g][h].strokes
  <2>1. CASE rows'[m][g] = Empty[g]
    <3>1. rows'[m][g][h] = NoRow
      BY <2>1 DEF Empty
    <3>2. rows[m][g][h] \in Row
      BY <1>1, <1>2, <3>1
    <3> QED
      BY <3>1, <3>2, ScoresAssumption DEF NoRow, Row
  <2>2. ASSUME NEW new \in [Holes -> Strokes], NEW user \in Users,
               rows'[m][g] = Apply(rows[m][g], new, user)
        PROVE  rows'[m][g][h].strokes # rows[m][g][h].strokes
    <3>1. rows'[m][g][h] = IF rows[m][g][h] = NoRow
                           THEN [strokes |-> new[h], by |-> user]
                           ELSE [rows[m][g][h] EXCEPT !.strokes = new[h]]
      BY <2>2 DEF Apply
    <3>2. CASE rows[m][g][h] = NoRow
      BY <3>1, <3>2, ScoresAssumption DEF NoRow
    <3>3. CASE rows[m][g][h] # NoRow
      <4>1. rows[m][g][h] \in [strokes : Strokes, by : Users]
        BY <1>1, <3>3 DEF Row
      <4> QED
        BY <1>2, <3>1, <3>3, <4>1
    <3> QED
      BY <3>2, <3>3
  <2> QED
    BY <1>2, <2>1, <2>2 DEF CardStep
<1> QED
  BY <1>3 DEF Entered, StrokesOf

\* What a page can show of a well-typed week, now and after the step.
LEMMA EnteredTyped == TypeOK => \A m \in Matches : Entered[m] \in Shown
BY StrokesAreShown DEF Entered

\* After a step too, what is entered is something a page can show.
LEMMA EnteredTypedNext == TypeOK' => (\A m \in Matches : Entered[m] \in Shown)'
BY EnteredTyped, PTL

\* Matches whose rows stay have the same content in the book.
LEMMA EnteredKept ==
    ASSUME NEW m \in Matches, rows'[m] = rows[m]
    PROVE  Entered'[m] = Entered[m]
BY DEF Entered, StrokesOf

\* A change of the matches in N through a page on which each is up to date is
\* a write of the book.
LEMMA ChangeIsWrite ==
    ASSUME TypeOK, FormsTrue, [Next]_vars, NEW page \in Pages,
           NEW N \in SUBSET Matches, Bump(N), FormsKept, UNCHANGED locked,
           \A m \in N : m \notin locked /\ UpToDate(page, m) /\ rows'[m] # rows[m],
           \A m \in Matches \ N : rows'[m] = rows[m]
    PROVE  Book!Write(page, N)
<1>1. TypeOK'
  BY NextTyped
<1>2. N \cap locked = {} /\ \A m \in N : Views[page][m] = Entered[m]
  BY ViewsAreGood
<1>3. \A m \in Matches \ N : Entered'[m] = Entered[m]
  BY EnteredKept
<1>4. \A m \in N : Entered'[m] \in Shown /\ Entered'[m] # Entered[m]
  <2> SUFFICES ASSUME NEW m \in N
               PROVE  Entered'[m] \in Shown /\ Entered'[m] # Entered[m]
    OBVIOUS
  <2>1. \A g \in Golfers : CardStep(m, g)
    BY NextCardStep
  <2>2. Entered'[m] \in Shown
    BY <1>1, EnteredTypedNext
  <2> QED
    BY <1>1, <2>1, <2>2, StrokesTell
<1>5. \A p \in Pages, m \in Matches :
          Views'[p][m] \in IF m \in N THEN {NoOne} ELSE {Views[p][m], NoOne}
  BY BumpVoids
<1> QED
  BY <1>2, <1>3, <1>4, <1>5 DEF Book!Write

\* Saving a match form, or a week sheet, or clearing a match writes the book.
LEMMA SaveMatchIsWrite ==
    ASSUME TypeOK, FormsTrue, [Next]_vars, NEW page \in Pages, NEW m \in Matches,
           SaveMatch(page, m)
    PROVE  \E M \in SUBSET Matches : Book!Write(page, M)
<1>1. PICK N \in SUBSET {m} :
        /\ Bump(N)
        /\ \A n \in N : rows'[n] # rows[n]
        /\ \A n \in Matches \ N : rows'[n] = rows[n]
  BY SaveMatchBump
<1>2. N \in SUBSET Matches
  OBVIOUS
<1>3. \A n \in N : n \notin locked /\ UpToDate(page, n)
  BY DEF SaveMatch
<1>4. UNCHANGED locked /\ FormsKept
  BY DEF SaveMatch, FormsKept
<1> QED
  BY <1>1, <1>2, <1>3, <1>4, ChangeIsWrite

\* A posted week sheet is a write of the scorebook (of no match if nothing changed).
LEMMA SaveWeekIsWrite ==
    ASSUME TypeOK, FormsTrue, [Next]_vars, NEW page \in Pages,
           NEW typedIn \in SUBSET Matches, SaveWeek(page, typedIn)
    PROVE  \E M \in SUBSET Matches : Book!Write(page, M)
<1>1. PICK N \in SUBSET typedIn :
        /\ Bump(N)
        /\ \A n \in N : rows'[n] # rows[n]
        /\ \A n \in Matches \ N : rows'[n] = rows[n]
  BY SaveWeekBump
<1>2. N \in SUBSET Matches
  OBVIOUS
<1>3. \A n \in N : n \notin locked /\ UpToDate(page, n)
  BY DEF SaveWeek, SheetMatchReady
<1>4. UNCHANGED locked
  BY DEF SaveWeek
<1>5. FormsKept
  <2> DEFINE post == [page EXCEPT !.kind = "post"]
  <2>1. forms' = [forms EXCEPT ![post] = [n \in Matches |-> NoForm]]
    BY DEF SaveWeek
  <2> HIDE DEF post
  <2> QED
    BY <2>1 DEF FormsKept, TypeOK
<1> QED
  BY <1>1, <1>2, <1>3, <1>4, <1>5, ChangeIsWrite

\* Clearing a match is a write of the scorebook.
LEMMA ClearIsWrite ==
    ASSUME TypeOK, FormsTrue, [Next]_vars, NEW page \in Pages, NEW m \in Matches,
           ClearMatch(page, m)
    PROVE  \E M \in SUBSET Matches : Book!Write(page, M)
<1>1. Bump({m}) /\ {m} \in SUBSET Matches
  BY DEF ClearMatch, BumpScores
<1>2. rows'[m] = Empty /\ \A n \in Matches \ {m} : rows'[n] = rows[n]
  BY DEF ClearMatch, TypeOK
<1>3. rows[m] # Empty
  BY DEF ClearMatch, Scored, Saved, Empty
<1>4. \A n \in {m} : n \notin locked /\ UpToDate(page, n) /\ rows'[n] # rows[n]
  BY <1>2, <1>3 DEF ClearMatch
<1>5. UNCHANGED locked /\ FormsKept
  BY DEF ClearMatch, FormsKept
<1> QED
  BY <1>1, <1>2, <1>4, <1>5, ChangeIsWrite

\* A card adds to the book.
LEMMA CardIsAdd ==
    ASSUME TypeOK, FormsTrue, [Next]_vars, NEW actor \in Pages,
           NEW on \in SUBSET Golfers, NEW acknowledged \in BOOLEAN,
           SubmitCard(actor, on, acknowledged)
    PROVE  \E M \in SUBSET Matches : Book!Add(M)
<1> DEFINE written == on \ Blocked(on)
           M == {m \in Matches : PlayersOf(m) \cap written # {}}
<1>1. Bump(M) /\ \A m \in Matches \ M : rows'[m] = rows[m]
  BY SubmitCardBump
<1>2. UNCHANGED <<locked, forms>>
  BY DEF SubmitCard
<1>3. M \cap locked = {}
  BY DEF Blocked
<1>4. \A m \in Matches, g \in Golfers :
          Entered[m][g] \in {Book!BlankLine, Entered'[m][g]}
  <2> SUFFICES ASSUME NEW m \in Matches, NEW g \in Golfers
               PROVE  Entered[m][g] \in {Book!BlankLine, Entered'[m][g]}
    OBVIOUS
  <2>1. CASE Saved(m, g)
    BY <2>1, SubmitCardCard DEF Entered, StrokesOf
  <2>2. CASE ~Saved(m, g)
    BY <2>2 DEF Entered, StrokesOf, Saved, NoRow, Book!BlankLine
  <2> QED
    BY <2>1, <2>2
<1>5. ASSUME NEW m \in M
      PROVE  Entered'[m] \in Shown /\ Entered'[m] # Entered[m]
  <2>1. PICK g \in Golfers : g \in PlayersOf(m) \cap written
    BY PlayersAreGolfers
  <2>2. ~Saved(m, g)
    BY <2>1 DEF Blocked
  <2>3. PICK typed \in Typed(on) :
          rows' = [n \in Matches |-> [f \in Golfers |->
                      IF f \in written \cap PlayersOf(n)
                      THEN [h \in Holes |-> [strokes |-> typed[f][h], by |-> actor.user]]
                      ELSE rows[n][f]]]
    BY DEF SubmitCard
  <2>4. rows'[m][g] = [h \in Holes |-> [strokes |-> typed[g][h], by |-> actor.user]]
    BY <2>1, <2>3
  <2>5. PICK h \in Holes : TRUE
    BY ScoresAssumption
  <2>6. typed[g][h] \in Strokes
    BY <2>1 DEF Typed
  <2>7. rows'[m][g][h].strokes \in Strokes /\ rows[m][g][h] = NoRow
    BY <2>2, <2>4, <2>6 DEF Saved
  <2>8. rows'[m][g][h] # rows[m][g][h]
    <3>1. 0 \notin Strokes /\ NoRow.strokes = 0
      BY ScoresAssumption DEF NoRow
    <3> QED
      BY <2>7, <3>1
  <2>9. rows'[m] # rows[m]
    BY <2>8
  <2>10. TypeOK' /\ \A f \in Golfers : CardStep(m, f)
    BY NextTyped, NextCardStep
  <2> QED
    BY <2>9, <2>10, StrokesTell, EnteredTypedNext
<1>6. \A m \in Matches \ M : Entered'[m] = Entered[m]
  BY <1>1, EnteredKept
<1>7. Book!Void(M)
  <2> M \in SUBSET Matches
    OBVIOUS
  <2> HIDE DEF M
  <2> QED
    BY <1>1, <1>2, BumpVoidsJust DEF Book!Void
<1>8. Book!Add(M)
  <2>1. UNCHANGED locked /\ M \subseteq Matches
    BY <1>2
  <2> HIDE DEF M
  <2> QED
    BY <1>3, <1>4, <1>5, <1>6, <1>7, <2>1 DEF Book!Add
<1> QED
  BY <1>8

\* Locking, one match or all that are ready, locks what was viewed.
LEMMA LockIsLock ==
    ASSUME TypeOK, FormsTrue, NEW page \in Pages, NEW M \in SUBSET Matches,
           \A m \in M : m \notin locked /\ UpToDate(page, m),
           Bump(M), locked' = locked \cup M, UNCHANGED <<rows, forms>>
    PROVE  Book!Lock(page, M)
<1>1. \A m \in M : Views[page][m] = Entered[m]
  BY ViewsAreGood
<1>2. Book!Void(M)
  BY BumpVoidsJust DEF Book!Void
<1>3. UNCHANGED Entered
  BY DEF Entered, StrokesOf
<1> QED
  BY <1>1, <1>2, <1>3 DEF Book!Lock

\* Unlocking a match is unlocking it in the scorebook.
LEMMA UnlockIsUnlock ==
    ASSUME TypeOK, FormsTrue, NEW m \in Matches, UnlockMatch(m)
    PROVE  Book!Unlock(m)
<1>1. Bump({m}) /\ UNCHANGED forms
  BY DEF UnlockMatch
<1>2. Book!Void({m})
  BY <1>1, BumpVoidsJust DEF Book!Void
<1>3. UNCHANGED Entered
  BY DEF UnlockMatch, Entered, StrokesOf
<1> QED
  BY <1>2, <1>3 DEF Book!Unlock, UnlockMatch

\* Reading a page is a look, or leaves no view while it is being read.
LEMMA ReadIsLook ==
    ASSUME TypeOK, FormsTrue, NEW page \in Pages, NEW m \in Matches,
           ReadState(page, m) \/ ReadRows(page, m)
    PROVE  Book!Look(page, m) \/ Book!Forget(page, m)
<1>1. UNCHANGED <<rows, rev, locked>>
  BY DEF ReadState, ReadRows
<1>2. UNCHANGED Entered
  BY <1>1 DEF Entered, StrokesOf
<1>3. ASSUME NEW p \in Pages, NEW n \in Matches, p # page \/ n # m
      PROVE  Views'[p][n] = Views[p][n]
  <2>1. forms'[p][n] = forms[p][n]
    BY <1>3 DEF ReadState, ReadRows, TypeOK
  <2> QED
    BY <1>1, <2>1 DEF Views, UpToDate
<1>4. Views'[page][m] \in {Entered[m], NoOne}
  <2>1. FormsTrue'
    BY ReadsTrue
  <2>2. CASE UpToDate(page, m)'
    <3>1. forms'[page][m].seen = StrokesOf(m)'
      BY <2>1, <2>2 DEF FormsTrue, UpToDate
    <3>2. StrokesOf(m)' = Entered[m]
      BY <1>1 DEF StrokesOf, Entered
    <3> QED
      BY <2>2, <3>1, <3>2 DEF Views
  <2>3. CASE ~UpToDate(page, m)'
    BY <2>3 DEF Views
  <2> QED
    BY <2>2, <2>3
<1>5. /\ Views = [p \in Pages |-> [n \in Matches |-> Views[p][n]]]
      /\ Views' = [p \in Pages |-> [n \in Matches |-> Views'[p][n]]]
  BY DEF Views
<1>6. Views' = [Views EXCEPT ![page][m] = Views'[page][m]]
  BY <1>3, <1>5
<1> QED
  BY <1>1, <1>2, <1>4, <1>6 DEF Book!Look, Book!Forget

\* The first week is the first book.
LEMMA InitIsInit == Init => Book!Init
<1> SUFFICES ASSUME Init PROVE Book!Init
  OBVIOUS
<1>1. \A m \in Matches : StrokesOf(m) = [g \in Golfers |-> [h \in Holes |-> 0]]
  BY DEF Init, StrokesOf, Empty, NoRow
<1>2. \A p \in Pages, m \in Matches : ~UpToDate(p, m)
  BY DEF Init, UpToDate, NoForm
<1> QED
  BY <1>1, <1>2 DEF Book!Init, Book!BlankLine, Entered, Views, Init

\* Every step of the week is a step of the book, or leaves it as it is.
LEMMA NextIsNext ==
    ASSUME TypeOK, FormsTrue, [Next]_vars
    PROVE  [Book!Next]_(Book!bookVars)
<1>1. ASSUME NEW actor \in Pages, NEW on \in CardSizes, NEW acknowledged \in BOOLEAN,
             SubmitCard(actor, on, acknowledged)
      PROVE  Book!Next
  <2>1. on \in SUBSET Golfers
    BY DEF CardSizes
  <2> QED
    BY <1>1, <2>1, CardIsAdd DEF Book!Next
<1>2. ASSUME NEW page \in Pages, NEW m \in Matches,
             ReadState(page, m) \/ ReadRows(page, m)
      PROVE  Book!Next
  BY <1>2, ReadIsLook DEF Book!Next
<1>3. ASSUME NEW page \in Pages, NEW m \in Matches,
             SaveMatch(page, m) \/ ClearMatch(page, m)
      PROVE  Book!Next
  BY <1>3, SaveMatchIsWrite, ClearIsWrite DEF Book!Next
<1>4. ASSUME NEW page \in Pages, NEW m \in Matches, LockMatch(page, m)
      PROVE  Book!Next
  <2>1. {m} \in SUBSET Matches
    OBVIOUS
  <2>2. Book!Lock(page, {m})
    BY <1>4, <2>1, LockIsLock DEF LockMatch
  <2> QED
    BY <2>1, <2>2 DEF Book!Next
<1>5. ASSUME NEW page \in Pages, LockWeek(page)
      PROVE  Book!Next
  <2> DEFINE M == {m \in Matches \ locked : Complete(m) /\ UpToDate(page, m)}
  <2>1. /\ Bump(M) /\ locked' = locked \cup M /\ UNCHANGED <<rows, forms>>
        /\ M \in SUBSET Matches
        /\ \A m \in M : m \notin locked /\ UpToDate(page, m)
    BY <1>5 DEF LockWeek
  <2> HIDE DEF M
  <2>2. Book!Lock(page, M)
    BY <2>1, LockIsLock
  <2> QED
    BY <2>1, <2>2 DEF Book!Next
<1>6. ASSUME NEW page \in Pages, NEW typedIn \in SUBSET Matches, SaveWeek(page, typedIn)
      PROVE  Book!Next
  BY <1>6, SaveWeekIsWrite DEF Book!Next
<1>7. ASSUME NEW m \in Matches, UnlockMatch(m)
      PROVE  Book!Next
  BY <1>7, UnlockIsUnlock DEF Book!Next
<1>8. ASSUME UNCHANGED <<rows, rev, locked, forms>>
      PROVE  UNCHANGED Book!bookVars
  BY <1>8 DEF Book!bookVars, Entered, StrokesOf, Views, UpToDate
<1> QED
  BY <1>1, <1>2, <1>3, <1>4, <1>5, <1>6, <1>7, <1>8
     DEF Next, CardNext, PageNext, SheetNext, WeekNext, vars,
         EditWeekType, MovePlayDate, Substitute

\* Revisions, two-step reads, posts of stale forms, cards and locks together
\* behave as the abstract scorebook, in which a change is accepted only on the
\* content its reader saw.
THEOREM WeekIsScorebook == Spec => IsScorebook
<1>1. Init => Book!Init
  BY InitIsInit
<1>2. TypeOK /\ FormsTrue /\ [Next]_vars => [Book!Next]_(Book!bookVars)
  BY NextIsNext
<1> QED
  BY <1>1, <1>2, TypeCorrect, FormsAreTrue, PTL DEF Spec, IsScorebook, Book!Spec

\* Every saved card is whole and belongs to a side of its match.
THEOREM ScoresAreWhole == Spec => []ScoresWhole
BY CardsAreWhole, ScoresStayWithSides, PTL DEF ScoresWhole

\* No score is changed and no match locked unseen or without the right to.
THEOREM ChangesAreAllowed == Spec => ChangedAsAllowed
BY ChangesAreSeen, ChangesAreByRight, LocksAreSeen DEF ChangedAsAllowed

-----------------------------------------------------------------------------
(* A player keeps score for one other match at most.                        *)

\* Saving cards signs no row with another account's name.
LEMMA SavedAuthors ==
    ASSUME TypeOK, NEW M \in SUBSET Matches, NEW new, NEW user, SaveCards(M, new, user)
    PROVE  \A m \in Matches, g \in Golfers, h \in Holes :
              rows'[m][g][h].by \in {user, rows[m][g][h].by}
<1> SUFFICES ASSUME NEW m \in Matches, NEW g \in Golfers, NEW h \in Holes
             PROVE  rows'[m][g][h].by \in {user, rows[m][g][h].by}
  OBVIOUS
<1>1. rows' = [n \in Matches |-> [f \in Golfers |->
                  IF n \in M /\ f \in DOMAIN new[n]
                  THEN Apply(rows[n][f], new[n][f], user)
                  ELSE rows[n][f]]]
  BY DEF SaveCards
<1>2. CASE m \in M /\ g \in DOMAIN new[m]
  <2>1. rows'[m][g][h] = IF rows[m][g][h] = NoRow
                         THEN [strokes |-> new[m][g][h], by |-> user]
                         ELSE [rows[m][g][h] EXCEPT !.strokes = new[m][g][h]]
    BY <1>1, <1>2 DEF Apply
  <2>2. rows[m][g][h] \in Row \cup {NoRow}
    BY DEF TypeOK
  <2>3. CASE rows[m][g][h] = NoRow
    BY <2>1, <2>3
  <2>4. CASE rows[m][g][h] # NoRow
    <3>1. rows[m][g][h] \in [strokes : Strokes, by : Users]
      BY <2>2, <2>4 DEF Row
    <3> QED
      BY <2>1, <2>4, <3>1
  <2> QED
    BY <2>3, <2>4
<1>3. CASE ~(m \in M /\ g \in DOMAIN new[m])
  BY <1>1, <1>3
<1> QED
  BY <1>2, <1>3

\* Only an admin's page is an admin's.
LEMMA PageKinds ==
    ASSUME NEW p \in Pages
    PROVE  /\ p.admin => p.user \in Admins
           /\ p.kind = "sheet" => p.admin
<1>1. p \in PlayerPage \/ p \in AdminPage
  BY ScoresAssumption
<1>2. CASE p \in PlayerPage
  BY <1>2
<1>3. CASE p \in AdminPage
  BY <1>3
<1> QED
  BY <1>1, <1>2, <1>3

\* A form of a match only signs rows where its actor plays or kept score before.
LEMMA SaveMatchAuthors ==
    ASSUME TypeOK, NEW page \in Pages, NEW n \in Matches, SaveMatch(page, n),
           NEW u \in Players \ Admins, NEW m \in Matches, GolferOf[u] \notin PlayersOf(m),
           NEW g \in Golfers, NEW h \in Holes, rows'[m][g][h].by = u
    PROVE  m \in Kept(u)
<1>1. CASE page.user # u
  <2>1. PICK typed \in Typed(Writable(n, page)) :
          SaveCards({n}, [k \in {n} |-> typed], page.user)
    BY DEF SaveMatch
  <2> DEFINE new == [k \in {n} |-> typed]
  <2>2. SaveCards({n}, new, page.user) /\ {n} \in SUBSET Matches
    BY <2>1
  <2> HIDE DEF new
  <2>3. rows[m][g][h].by = u
    BY <1>1, <2>2, SavedAuthors
  <2> QED
    BY <2>3 DEF Kept
<1>2. CASE page.user = u /\ rows'[m][g] # rows[m][g]
  <2>1. g \in Writable(m, page)
    BY <1>2, SaveMatchWrites
  <2>2. ~page.admin
    BY <1>2, PageKinds
  <2>3. EnteredAllOf(u, m, g)
    BY <1>2, <2>1, <2>2 DEF Writable
  <2>4. \E k \in Holes : rows[m][g][k].by = u
    BY <2>3 DEF EnteredAllOf, Saved
  <2> QED
    BY <2>4 DEF Kept
<1>3. CASE rows'[m][g] = rows[m][g]
  BY <1>3 DEF Kept
<1> QED
  BY <1>1, <1>2, <1>3

\* The matches a player's card is about, besides the player's own.
OthersOn(u, on) == {m \in Matches : GolferOf[u] \notin PlayersOf(m) /\ PlayersOf(m) \cap on # {}}

\* A match only comes to be kept by a card that had room for it.
LEMMA KeptGrowsInScope ==
    ASSUME TypeOK, [Next]_vars, NEW u \in Players \ Admins
    PROVE  \/ Kept(u)' \subseteq Kept(u)
           \/ \E on \in CardSizes : /\ CardInScope(u, on)
                                    /\ Kept(u)' \subseteq OthersOn(u, on) \cup Kept(u)
<1> DEFINE Grows == \/ Kept(u)' \subseteq Kept(u)
                    \/ \E on \in CardSizes : /\ CardInScope(u, on)
                                             /\ Kept(u)' \subseteq OthersOn(u, on) \cup Kept(u)
<1>1. u # NoOne
  BY ScoresAssumption
<1>2. Kept(u)' = {m \in Matches : /\ GolferOf[u] \notin PlayersOf(m)'
                                  /\ \E g \in Golfers, h \in Holes : rows'[m][g][h].by = u}
  BY DEF Kept
<1>3. sides' = sides => \A m \in Matches : PlayersOf(m)' = PlayersOf(m)
  BY DEF PlayersOf
<1>4. ASSUME NEW actor \in Pages, NEW on \in CardSizes, NEW acknowledged \in BOOLEAN,
             SubmitCard(actor, on, acknowledged)
      PROVE  Grows
  <2> DEFINE written == on \ Blocked(on)
  <2>1. sides' = sides /\ CardAccepted(actor, on, acknowledged)
    BY <1>4 DEF SubmitCard
  <2>2. PICK typed \in Typed(on) :
          rows' = [m \in Matches |-> [g \in Golfers |->
                      IF g \in written \cap PlayersOf(m)
                      THEN [h \in Holes |-> [strokes |-> typed[g][h], by |-> actor.user]]
                      ELSE rows[m][g]]]
    BY <1>4 DEF SubmitCard
  <2>3. ASSUME NEW m \in Kept(u)'
        PROVE  m \in Kept(u) \/ (actor.user = u /\ m \in OthersOn(u, on))
    <3>1. m \in Matches /\ GolferOf[u] \notin PlayersOf(m)
      BY <1>2, <1>3, <2>1, <2>3
    <3>2. PICK g \in Golfers, h \in Holes : rows'[m][g][h].by = u
      BY <1>2, <2>3
    <3>3. CASE g \in written \cap PlayersOf(m)
      <4>1. rows'[m][g][h].by = actor.user
        BY <2>2, <3>1, <3>3
      <4> QED
        BY <3>1, <3>2, <3>3, <4>1 DEF OthersOn
    <3>4. CASE g \notin written \cap PlayersOf(m)
      <4>1. rows'[m][g] = rows[m][g]
        BY <2>2, <3>1, <3>4
      <4> QED
        BY <3>1, <3>2, <4>1 DEF Kept
    <3> QED
      BY <3>3, <3>4
  <2>4. CASE actor.user = u
    <3>1. ~actor.admin
      BY <2>4, PageKinds
    <3>2. CardInScope(u, on)
      BY <2>1, <2>4, <3>1 DEF CardAccepted
    <3> QED
      BY <2>3, <3>2
  <2>5. CASE actor.user # u
    BY <2>3, <2>5
  <2> QED
    BY <2>4, <2>5
<1>5. ASSUME NEW page \in Pages, NEW n \in Matches, SaveMatch(page, n)
      PROVE  Grows
  <2>1. sides' = sides
    BY <1>5 DEF SaveMatch
  <2> QED
    BY <1>2, <1>3, <1>5, <2>1, SaveMatchAuthors
<1>6. ASSUME NEW page \in Pages, page.kind = "sheet",
             NEW typedIn \in SUBSET Matches, SaveWeek(page, typedIn)
      PROVE  Grows
  <2>1. sides' = sides
    BY <1>6 DEF SaveWeek
  <2>2. page.user # u
    BY <1>6, PageKinds
  <2> DEFINE post == [page EXCEPT !.kind = "post"]
  <2>3. PICK typed \in Typed(Golfers) :
          SaveCards(typedIn, [m \in typedIn |-> SheetScores(post, m, typed)], page.user)
    BY <1>6 DEF SaveWeek
  <2> DEFINE new == [m \in typedIn |-> SheetScores(post, m, typed)]
  <2>4. SaveCards(typedIn, new, page.user)
    BY <2>3
  <2> HIDE DEF new
  <2>5. \A m \in Matches, g \in Golfers, h \in Holes :
           rows'[m][g][h].by = u => rows[m][g][h].by = u
    BY <2>2, <2>4, SavedAuthors
  <2> QED
    BY <1>2, <1>3, <2>1, <2>5 DEF Kept
<1>7. ASSUME NEW page \in Pages, NEW n \in Matches, ClearMatch(page, n)
      PROVE  Grows
  <2>1. sides' = sides /\ rows' = [rows EXCEPT ![n] = Empty]
    BY <1>7 DEF ClearMatch
  <2>2. \A m \in Matches, g \in Golfers, h \in Holes :
           rows'[m][g][h].by = u => rows[m][g][h].by = u
    <3> SUFFICES ASSUME NEW m \in Matches, NEW g \in Golfers, NEW h \in Holes,
                        rows'[m][g][h].by = u
                 PROVE  rows[m][g][h].by = u
      OBVIOUS
    <3>1. CASE m = n
      <4>1. rows'[m][g][h] = NoRow
        BY <2>1, <3>1 DEF Empty, TypeOK
      <4> QED
        BY <1>1, <4>1 DEF NoRow
    <3>2. CASE m # n
      BY <2>1, <3>2 DEF TypeOK
    <3> QED
      BY <3>1, <3>2
  <2> QED
    BY <1>2, <1>3, <2>1, <2>2 DEF Kept
<1>8. ASSUME NEW n \in Matches, NEW side \in Sides, NEW golfer \in Golfers,
             Substitute(n, side, golfer)
      PROVE  Grows
  <2>1. rows' = rows /\ ~Scored(n) /\ \A m \in Matches : m # n => sides'[m] = sides[m]
    BY <1>8 DEF Substitute, TypeOK
  <2>2. ASSUME NEW m \in Kept(u)' PROVE m \in Kept(u)
    <3>1. PICK g \in Golfers, h \in Holes : rows[m][g][h].by = u
      BY <1>2, <2>1, <2>2
    <3>2. rows[m][g][h] # NoRow
      BY <1>1, <3>1 DEF NoRow
    <3>3. m \in Matches /\ m # n
      BY <1>2, <2>1, <2>2, <3>2 DEF Scored, Saved
    <3>4. PlayersOf(m)' = PlayersOf(m)
      BY <2>1, <3>3 DEF PlayersOf
    <3> QED
      BY <1>2, <2>2, <3>1, <3>3, <3>4 DEF Kept
  <2> QED
    BY <2>2
<1>9. ASSUME rows' = rows, sides' = sides
      PROVE  Grows
  BY <1>2, <1>3, <1>9 DEF Kept
<1> HIDE DEF Grows
<1>10. Grows
  <2>1. CASE CardNext
    BY <1>4, <2>1 DEF CardNext
  <2>2. CASE PageNext
    BY <1>5, <1>7, <1>9, <2>2 DEF PageNext, ReadState, ReadRows, LockMatch
  <2>3. CASE SheetNext
    BY <1>6, <1>9, <2>3 DEF SheetNext, LockWeek
  <2>4. CASE WeekNext
    BY <1>8, <1>9, <2>4 DEF WeekNext, EditWeekType, MovePlayDate, UnlockMatch
  <2>5. CASE UNCHANGED vars
    BY <1>9, <2>5 DEF vars
  <2> QED
    BY <2>1, <2>2, <2>3, <2>4, <2>5 DEF Next
<1> QED
  BY <1>10 DEF Grows

\* However cards, match forms, clears and substitutions follow one another, an account
\* that is no admin's keeps score for at most one match besides its own: submit_card
\* counts what was kept before, a match form adds nothing to it, and a scored match
\* keeps its sides.
THEOREM KeepsAtMostOne == Spec => []KeptAtMostOne
<1>1. Init => KeptAtMostOne
  <2> SUFFICES ASSUME Init, NEW u \in Players \ Admins PROVE Cardinality(Kept(u)) <= 1
    BY DEF KeptAtMostOne
  <2>1. u # NoOne
    BY ScoresAssumption
  <2>2. Kept(u) = {}
    BY <2>1 DEF Init, Empty, NoRow, Kept
  <2> QED
    BY <2>2, FS_EmptySet
<1>2. TypeOK /\ KeptAtMostOne /\ [Next]_vars => KeptAtMostOne'
  <2> SUFFICES ASSUME TypeOK, KeptAtMostOne, [Next]_vars, NEW u \in Players \ Admins
               PROVE  Cardinality(Kept(u)') <= 1
    BY DEF KeptAtMostOne
  <2>1. \A S \in SUBSET Matches, T \in SUBSET Matches :
           S \subseteq T /\ Cardinality(T) <= 1 => Cardinality(S) <= 1
    <3> SUFFICES ASSUME NEW S \in SUBSET Matches, NEW T \in SUBSET Matches,
                        S \subseteq T, Cardinality(T) <= 1
                 PROVE  Cardinality(S) <= 1
      OBVIOUS
    <3>1. IsFiniteSet(T)
      BY ScoresAssumption, FS_Subset
    <3>2. Cardinality(S) <= Cardinality(T) /\ IsFiniteSet(S)
      BY <3>1, FS_Subset
    <3>3. Cardinality(S) \in Nat /\ Cardinality(T) \in Nat
      BY <3>1, <3>2, FS_CardinalityType
    <3> QED
      BY <3>2, <3>3
  <2>2. Kept(u) \in SUBSET Matches /\ Kept(u)' \in SUBSET Matches
    BY DEF Kept
  <2>3. CASE Kept(u)' \subseteq Kept(u)
    BY <2>1, <2>2, <2>3 DEF KeptAtMostOne
  <2>4. ASSUME NEW on \in CardSizes, CardInScope(u, on),
               Kept(u)' \subseteq OthersOn(u, on) \cup Kept(u)
        PROVE  Cardinality(Kept(u)') <= 1
    <3>1. Cardinality(OthersOn(u, on) \cup Kept(u)) <= 1
      BY <2>4 DEF CardInScope, OthersOn
    <3>2. OthersOn(u, on) \cup Kept(u) \in SUBSET Matches
      BY <2>2 DEF OthersOn
    <3> QED
      BY <2>1, <2>2, <2>4, <3>1, <3>2
  <2> QED
    BY <2>3, <2>4, KeptGrowsInScope
<1> QED
  BY <1>1, <1>2, TypeCorrect, PTL DEF Spec

\* The pages offer a player score entry exactly when the score service takes it
\* (player_entry_state and week_for_entry), in every state of the week.
THEOREM OffersMatchService == Spec => []EntryOfferMatchesService
<1>1. EntryOfferMatchesService
  <2> SUFFICES ASSUME NEW p \in Pages, ~p.admin
               PROVE  EntryState(p.user) \in {"open", "saved"}
                         <=> /\ WeekTakesScores(p)
                             /\ \E m \in Matches \ locked : GolferOf[p.user] \in PlayersOf(m)
    BY DEF EntryOfferMatchesService
  <2> DEFINE own == {m \in Matches : GolferOf[p.user] \in PlayersOf(m)}
  <2>1. PlaysInWeek(GolferOf[p.user]) <=> own # {}
    BY DEF PlaysInWeek
  <2>2. WeekTakesScores(p) <=> weekType = "match" /\ own # {} /\ reached
    BY <2>1 DEF WeekTakesScores
  <2>3. (\E m \in Matches \ locked : GolferOf[p.user] \in PlayersOf(m)) <=> ~(own \subseteq locked)
    OBVIOUS
  <2>4. EntryState(p.user) =
           CASE own = {} -> "not_playing"
             [] own # {} /\ weekType # "match" -> "closed"
             [] own # {} /\ weekType = "match" /\ ~reached -> "not_open_yet"
             [] OTHER -> IF own \subseteq locked THEN "locked"
                         ELSE IF \A m \in own : Complete(m) THEN "saved" ELSE "open"
    BY DEF EntryState
  <2> HIDE DEF own
  <2> QED
    BY <2>2, <2>3, <2>4
<1> QED
  BY <1>1, PTL
=============================================================================
