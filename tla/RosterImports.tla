---------------------------- MODULE RosterImports ----------------------------
(***************************************************************************)
(* A roster file is staged as a batch of rows, reviewed and corrected on a *)
(* page, and applied to the golfers at once: services/roster_imports.py,   *)
(* domain/roster_import.py, routers/admin_imports.py and the golfer forms  *)
(* of services/roster.py, which change the same golfers meanwhile.  A      *)
(* handler does not await between its first read and its commit, so each   *)
(* is one step; a page is what was read for it, and may be posted late, in *)
(* another tab, twice, or after its batch is gone.                         *)
(***************************************************************************)
EXTENDS Integers, SequencesExt

CONSTANTS
    Texts,              \* what a cell or a field may say
    Tees,               \* the labels a tee may have
    Numbers,            \* the texts that are whole numbers
    Malformed,          \* addresses that are not well formed
    LowerCase,          \* addresses written otherwise, and how they are stored
    NearMiss,           \* addresses of a misspelled domain, and the address suggested
    LongPhones,         \* telephone numbers that are too long
    Digits,             \* the digits of each telephone number
    Uploads,            \* the files that may be posted together
    Retyped,            \* what an administrator may type over the fields of a row
    GolferForms,        \* what a golfer's form may say
    FirstGolfers,       \* the golfers at the start
    Referenced,         \* golfers other tables point at, who cannot be deleted
    Tabs,               \* browser tabs
    MaxDataRows, MaxUploadBytes,
    MaxWork             \* how many uploads, saved rows and golfer forms there are together

None == ""   \* a blank cell, a NULL column, a row without an error
Absent == <<>>   \* a tab that shows no review page

\* What is wrong with a row.
Codes == {"name_unparseable", "email_missing", "email_malformed", "email_duplicate_in_batch",
          "status_blank", "status_unknown", "handicap_invalid", "phone_invalid",
          "protected_field_changed"}

\* The cells of a line of a file, and a file of an upload.
Cells == [first : Texts, last : Texts, tee : Texts, handicap : Texts, email : Texts, phone : Texts]
File == [empty : BOOLEAN, bytes : Nat, text : BOOLEAN, header : BOOLEAN, lines : Seq(Cells)]

\* A row of roster_import_rows; "cell" is the handicap of its raw line.
Row == [version : Nat \ {0}, first : Texts, last : Texts, email : Texts, phone : Texts,
        tee : Tees \cup {None}, handicap : Numbers \cup {None}, cell : Texts,
        included : BOOLEAN, optIn : BOOLEAN, error : Codes \cup {None}]
\* A row of golfers; "set" is the label of default_tee_set, None without one.
Golfer == [first : Texts, last : Texts, email : Texts, phone : Texts, set : Tees \cup {None},
           label : Tees, handicap : Numbers \cup {None}]
Counts == [created : Nat, updated : Nat, unchanged : Nat, skipped : Nat]
NoCounts == [created |-> 0, updated |-> 0, unchanged |-> 0, skipped |-> 0]

\* A review page in a tab; "gone" says, for the properties, that its batch was purged.
Page == [id : Nat \ {0}, version : Nat \ {0}, rows : Seq(Row), gone : BOOLEAN]
\* A row of roster_import_batches, and its rows; "by" is the page it was applied from,
\* kept for the properties.
Batch == [state : {"staged", "applied", "discarded"}, version : Nat \ {0}, rows : Seq(Row),
          counts : Counts, expired : BOOLEAN, by : Page \cup {Absent}]

ASSUME ImportsAssumption ==
    /\ None \notin Tees \cup Numbers
    /\ MaxDataRows \in Nat /\ MaxUploadBytes \in Nat
    /\ MaxWork \in Nat

VARIABLES
    golfers,    \* the roster, by golfers.id
    batches,    \* the batches there are, by roster_import_batches.id
    tabs,       \* the review page in each tab
    work        \* how many uploads, saved rows and golfer forms there were so far

vars == <<golfers, batches, tabs, work>>

--------------------------------------------------------------------------------
(* What a line of a file becomes. *)

\* SQLite gives a row the id after the highest there is, those of deleted rows again.
NextId(table) == 1 + Max(DOMAIN table \cup {0})
Added(table, row) == [id \in DOMAIN table \cup {NextId(table)} |->
                         IF id \in DOMAIN table THEN table[id] ELSE row]

\* The code of the first check that fails, of pairs <<fails, code>>.
FirstFailing(checks) ==
    LET failing == {i \in DOMAIN checks : checks[i][1]}
    IN  IF failing = {} THEN None ELSE checks[Min(failing)][2]

Normalized(email) == IF email \in DOMAIN LowerCase THEN LowerCase[email] ELSE email
\* A slip: the text of the cell is kept.
HandicapAsWritten(cell) == cell

Handicap(cell) == IF cell \in Numbers THEN cell ELSE None
ValidHandicap(cell) == cell \in Numbers \cup {None}
Tee(cell) == IF cell \in Tees THEN cell ELSE None

StaticError(c) == FirstFailing(
    << <<c.first = None \/ c.last = None, "name_unparseable">>,
       <<c.email = None, "email_missing">>,
       <<Normalized(c.email) \in Malformed, "email_malformed">>,
       <<c.tee = None, "status_blank">>,
       <<c.tee \notin Tees, "status_unknown">>,
       <<~ValidHandicap(c.handicap), "handicap_invalid">>,
       <<c.phone \in LongPhones, "phone_invalid">> >>)

BuiltRow(c) ==
    [version |-> 1, first |-> c.first, last |-> c.last, email |-> Normalized(c.email),
     phone |-> c.phone, tee |-> Tee(c.tee), handicap |-> Handicap(c.handicap),
     cell |-> c.handicap, included |-> TRUE, optIn |-> FALSE, error |-> StaticError(c)]

Blank(c) == \A f \in DOMAIN c : c[f] = None
Lines(file) == SelectSeq(file.lines, LAMBDA c : ~Blank(c))
Kept(files) == SelectSeq(files, LAMBDA f : ~f.empty)
DataRows(files) == FlattenSeq([i \in DOMAIN Kept(files) |-> Lines(Kept(files)[i])])

Acceptable(files) ==
    /\ Kept(files) # <<>>
    /\ FoldLeft(LAMBDA sum, f : sum + f.bytes, 0, Kept(files)) <= MaxUploadBytes
    /\ \A i \in DOMAIN Kept(files) :
          LET f == Kept(files)[i] IN f.text /\ f.header /\ Lines(f) # <<>>
    /\ Len(DataRows(files)) <= MaxDataRows

--------------------------------------------------------------------------------
(* The review of rows against one another and against the roster. *)

PhonesEqual(p, q) == (p = None <=> q = None) /\ Digits[p] = Digits[q]
MatchOf(email, roster) == {g \in DOMAIN roster : email # None /\ roster[g].email = email}
DuplicateEmails(rows) ==
    {rows[i].email : i \in {k \in DOMAIN rows : \E j \in DOMAIN rows \ {k} :
                                rows[j].email = rows[k].email}} \ {None}

TeeOf(golfer) == IF golfer.set # None THEN golfer.set ELSE golfer.label

ProtectedFieldChanged(row, golfer) ==
    \/ row.first # golfer.first \/ row.last # golfer.last
    \/ row.phone # None /\ ~PhonesEqual(row.phone, golfer.phone)
    \/ row.tee # None /\ row.tee # TeeOf(golfer)
    \/ row.handicap # None /\ row.handicap # golfer.handicap

\* tee_required_for_new_golfer asks for a row without a tee, which status_blank has
\* already refused for the one role a file can have.
ValidationCode(row, rows, roster) == FirstFailing(
    << <<row.first = None \/ row.last = None, "name_unparseable">>,
       <<row.email = None, "email_missing">>,
       <<row.email \in Malformed, "email_malformed">>,
       <<row.email \in DuplicateEmails(rows), "email_duplicate_in_batch">>,
       <<row.tee = None /\ row.error = "status_unknown", "status_unknown">>,
       <<row.tee = None, "status_blank">>,
       <<row.error = "handicap_invalid", "handicap_invalid">>,
       <<row.phone \in LongPhones, "phone_invalid">>,
       <<~row.optIn /\ \E g \in MatchOf(row.email, roster) : ProtectedFieldChanged(row, roster[g]),
         "protected_field_changed">> >>)

\* A slip: a row that was saved is not judged again.
RevalidatedErrorsOnly(rows, roster) ==
    [i \in DOMAIN rows |-> IF rows[i].error = None THEN rows[i] ELSE
        [rows[i] EXCEPT !.error = ValidationCode(rows[i], rows, roster)]]

\* Every row of the batch is judged again, whichever row was changed.
Revalidated(rows, roster) ==
    [i \in DOMAIN rows |-> [rows[i] EXCEPT !.error = ValidationCode(rows[i], rows, roster)]]

--------------------------------------------------------------------------------
(* What applying rows makes of the roster. *)

NewGolfer(row) ==
    [first |-> row.first, last |-> row.last, email |-> row.email, phone |-> row.phone,
     set |-> None, label |-> IF row.tee # None THEN row.tee ELSE "White",
     handicap |-> row.handicap]

\* A slip: the course's tee set stays beside the imported label.
ImportedKeepsSet(golfer, row) ==
    [golfer EXCEPT
        !.first = row.first, !.last = row.last,
        !.phone = IF row.phone # None /\ ~PhonesEqual(row.phone, @) THEN row.phone ELSE @,
        !.label = IF row.tee # None THEN row.tee ELSE @,
        !.handicap = IF row.handicap # None THEN row.handicap ELSE @]

Imported(golfer, row) ==
    [first |-> row.first, last |-> row.last, email |-> golfer.email,
     phone |-> IF row.phone # None /\ ~PhonesEqual(row.phone, golfer.phone)
               THEN row.phone ELSE golfer.phone,
     set |-> None, label |-> IF row.tee # None THEN row.tee ELSE golfer.label,
     handicap |-> IF row.handicap # None THEN row.handicap ELSE golfer.handicap]

\* A slip: an excluded row still updates a golfer it matches.
ApplyRowExcludedToo(before, acc, row) ==
    LET found == MatchOf(row.email, before)
        Counted(roster, what) == [roster |-> roster, counts |-> [acc.counts EXCEPT ![what] = @ + 1]]
    IN  IF found = {} THEN
            IF ~row.included THEN Counted(acc.roster, "skipped")
            ELSE Counted(Added(acc.roster, NewGolfer(row)), "created")
        ELSE LET g == CHOOSE x \in found : TRUE
             IN  Counted([acc.roster EXCEPT ![g] = Imported(acc.roster[g], row)], "updated")

\* The roster is queried as it stood: a golfer created by an earlier row is not found.
ApplyRow(before, acc, row) ==
    LET found == MatchOf(row.email, before)
        Counted(roster, what) == [roster |-> roster, counts |-> [acc.counts EXCEPT ![what] = @ + 1]]
    IN  IF ~row.included THEN Counted(acc.roster, "skipped")
        ELSE IF found = {} THEN
            Counted(Added(acc.roster, NewGolfer(row)), "created")
        ELSE LET g == CHOOSE x \in found : TRUE
                 after == Imported(acc.roster[g], row)
             IN  IF after = acc.roster[g] THEN Counted(acc.roster, "unchanged")
                 ELSE Counted([acc.roster EXCEPT ![g] = after], "updated")

Applied(rows, roster) ==
    LET after[n \in 0..Len(rows)] ==
            IF n = 0 THEN [roster |-> roster, counts |-> NoCounts]
            ELSE ApplyRow(roster, after[n - 1], rows[n])
    IN  after[Len(rows)]

\* golfers.email is unique where there is one.
EmailsUnique(roster) ==
    \A g, h \in DOMAIN roster : g # h /\ roster[g].email # None => roster[g].email # roster[h].email

\* What the inputs are: lower() leaves its own results, every column of a form and
\* every line of a file is of its kind, and the roster at the start may be one.
ASSUME InputsAssumption ==
    /\ \A email \in DOMAIN LowerCase : LowerCase[email] \in Texts \ DOMAIN LowerCase
    /\ \A email \in DOMAIN NearMiss : NearMiss[email] \in Texts
    /\ \A files \in Uploads : DataRows(files) \in Seq(Cells)
    /\ \A typed \in Retyped :
          /\ DOMAIN typed \subseteq {"first", "last", "email", "phone", "tee", "handicap",
                                    "included", "optIn"}
          /\ \A f \in DOMAIN typed :
                typed[f] \in IF f \in {"included", "optIn"} THEN BOOLEAN ELSE Texts
    /\ GolferForms \subseteq Golfer
    /\ FirstGolfers \in [DOMAIN FirstGolfers -> Golfer] /\ EmailsUnique(FirstGolfers)
    /\ DOMAIN FirstGolfers \subseteq Nat \ {0} /\ IsFiniteSet(DOMAIN FirstGolfers)

--------------------------------------------------------------------------------
(* The pages. *)

Staged(id) == id \in DOMAIN batches /\ batches[id].state = "staged"

\* A page of a staged batch: its forms carry the versions of the batch and its rows.
Open(t, id) ==
    /\ Staged(id)
    /\ tabs' = [tabs EXCEPT ![t] = [id |-> id, version |-> batches[id].version,
                                    rows |-> batches[id].rows, gone |-> FALSE]]
    /\ UNCHANGED <<golfers, batches, work>>

\* Slips: the version is not claimed; nothing is.
CurrentAnyVersion(t) == tabs[t] # Absent /\ Staged(tabs[t].id)
CurrentUnclaimed(t) == tabs[t] # Absent /\ tabs[t].id \in DOMAIN batches

\* The batch a page was made from may still be changed by it.
Current(t) ==
    /\ tabs[t] # Absent
    /\ Staged(tabs[t].id)
    /\ batches[tabs[t].id].version = tabs[t].version

Stage(files) ==
    /\ work < MaxWork
    /\ Acceptable(files)
    /\ LET rows == DataRows(files)
           built == [i \in DOMAIN rows |-> BuiltRow(rows[i])]
       IN  batches' = Added(batches,
               [state |-> "staged", version |-> 1, rows |-> Revalidated(built, golfers),
                counts |-> NoCounts, expired |-> FALSE, by |-> Absent])
    /\ work' = work + 1
    /\ UNCHANGED <<golfers, tabs>>

\* What saving the row does with the fields of its form or, for the two buttons
\* beside it, with fields taken from the row itself; an edit clears a frozen error.
Saved(row, values, clears) ==
    [version |-> row.version + 1, first |-> values.first, last |-> values.last,
     email |-> Normalized(values.email), phone |-> values.phone, tee |-> values.tee,
     handicap |-> values.handicap, cell |-> row.cell, included |-> values.included,
     optIn |-> values.optIn, error |-> IF clears THEN None ELSE row.error]

SaveRow(t, i, values, clears) ==
    LET id == tabs[t].id
        batch == batches[id]
        row == batch.rows[i]
        rows == [batch.rows EXCEPT ![i] = Saved(row, values, clears)]
    IN  /\ row.version = tabs[t].rows[i].version
        /\ values.tee \in Tees \cup {None} /\ ValidHandicap(values.handicap)
        /\ batches' = [batches EXCEPT ![id] =
               [batch EXCEPT !.version = @ + 1, !.rows = Revalidated(rows, golfers)]]
        /\ work' = work + 1
        /\ UNCHANGED <<golfers, tabs>>

\* The row is on the page and still there.
Shown(t, i) == Current(t) /\ i \in DOMAIN tabs[t].rows \cap DOMAIN batches[tabs[t].id].rows

\* A row's form is posted as the page showed it, with some fields typed over.
Typed(typed, shown) == [f \in DOMAIN shown |-> IF f \in DOMAIN typed THEN typed[f] ELSE shown[f]]

EditRow(t, i, typed) ==
    /\ Shown(t, i) /\ work < MaxWork
    /\ SaveRow(t, i, Typed(typed, tabs[t].rows[i]), TRUE)

SwapNames(t, i) ==
    /\ Shown(t, i) /\ work < MaxWork
    /\ LET row == batches[tabs[t].id].rows[i]
       IN  SaveRow(t, i, [row EXCEPT !.first = row.last, !.last = row.first], FALSE)

AcceptDomainSuggestion(t, i) ==
    /\ Shown(t, i) /\ work < MaxWork
    /\ LET row == batches[tabs[t].id].rows[i]
       IN  /\ row.email \in DOMAIN NearMiss
           /\ SaveRow(t, i, [row EXCEPT !.email = NearMiss[@]], FALSE)

Discard(t) ==
    /\ Current(t)
    /\ LET batch == batches[tabs[t].id]
       IN  batches' = [batches EXCEPT ![tabs[t].id] =
                           [batch EXCEPT !.state = "discarded", !.version = @ + 1]]
    /\ UNCHANGED <<golfers, tabs, work>>

\* A slip: the errors of the last save are taken for those of now.
ApplyUnrevalidated(t) ==
    /\ Current(t)
    /\ LET id == tabs[t].id
           batch == batches[id]
           rows == batch.rows
           result == Applied(rows, golfers)
       IN  /\ \A i \in DOMAIN rows : rows[i].included => rows[i].error = None
           /\ EmailsUnique(result.roster)
           /\ golfers' = result.roster
           /\ batches' = [batches EXCEPT
                  ![id] = [batch EXCEPT !.state = "applied", !.version = @ + 1, !.rows = rows,
                                        !.counts = result.counts, !.by = tabs[t]]]
    /\ UNCHANGED <<tabs, work>>

\* Nothing is applied while an included row has an error against the roster of now.
Apply(t) ==
    /\ Current(t)
    /\ LET id == tabs[t].id
           batch == batches[id]
           rows == Revalidated(batch.rows, golfers)
           result == Applied(rows, golfers)
       IN  /\ \A i \in DOMAIN rows : rows[i].included => rows[i].error = None
           /\ EmailsUnique(result.roster)
           /\ golfers' = result.roster
           /\ batches' = [batches EXCEPT
                  ![id] = [batch EXCEPT !.state = "applied", !.version = @ + 1, !.rows = rows,
                                        !.counts = result.counts, !.by = tabs[t]]]
    /\ UNCHANGED <<tabs, work>>

\* Ninety days pass, and somebody presses the purge button: a batch goes in any state,
\* and the pages made of it stay where they are open.
GrowOld(id) ==
    /\ id \in DOMAIN batches /\ ~batches[id].expired
    /\ \A k \in DOMAIN batches : k < id => batches[k].expired
    /\ batches' = [batches EXCEPT ![id].expired = TRUE]
    /\ UNCHANGED <<golfers, tabs, work>>

PurgeExpired ==
    LET expired == {id \in DOMAIN batches : batches[id].expired}
    IN  /\ expired # {}
        /\ batches' = [id \in DOMAIN batches \ expired |-> batches[id]]
        /\ tabs' = [t \in Tabs |-> IF tabs[t] # Absent /\ tabs[t].id \in expired
                                   THEN [tabs[t] EXCEPT !.gone = TRUE] ELSE tabs[t]]
        /\ UNCHANGED <<golfers, work>>

--------------------------------------------------------------------------------
(* The golfers' own forms. *)

\* A golfer's form names a tee set of a course or only a label, and on create a set.
Complete(form) == form.first # None /\ form.last # None /\ (form.set # None => form.label = form.set)

CreateGolfer(form) ==
    /\ work < MaxWork
    /\ Complete(form) /\ form.set # None
    /\ golfers' = Added(golfers, form)
    /\ EmailsUnique(golfers')
    /\ work' = work + 1
    /\ UNCHANGED <<batches, tabs>>

\* The form replaces every field, whatever was imported since it was rendered; the tee
\* and the handicap come together, both of them typed or both as rendered.
UpdateGolfer(g, form) ==
    /\ work < MaxWork
    /\ g \in DOMAIN golfers
    /\ Complete(form)
    /\ golfers' = [golfers EXCEPT ![g] = form]
    /\ EmailsUnique(golfers')
    /\ work' = work + 1
    /\ UNCHANGED <<batches, tabs>>

DeleteGolfer(g) ==
    /\ work < MaxWork
    /\ g \in DOMAIN golfers \ Referenced
    /\ golfers' = [h \in DOMAIN golfers \ {g} |-> golfers[h]]
    /\ work' = work + 1
    /\ UNCHANGED <<batches, tabs>>

Init ==
    /\ golfers = FirstGolfers
    /\ batches = <<>>
    /\ tabs = [t \in Tabs |-> Absent]
    /\ work = 0

\* The buttons below a review's rows and on the list of imports.
ReviewNext ==
    \/ \E t \in Tabs : Discard(t) \/ Apply(t)
    \/ PurgeExpired

\* A tee that is not the rendered one brings the form back with a blank handicap to fill
\* in, so any tee and handicap of GolferForms are posted together, never a new tee alone.
GolferNext ==
    \/ \E form \in GolferForms : CreateGolfer(form)
    \/ \E g \in DOMAIN golfers, form \in GolferForms : UpdateGolfer(g, form)
    \/ \E g \in DOMAIN golfers : DeleteGolfer(g)

Next ==
    \/ \E files \in Uploads : Stage(files)
    \/ \E t \in Tabs, id \in DOMAIN batches : Open(t, id)
    \/ \E t \in Tabs, i \in 1..MaxDataRows, typed \in Retyped : EditRow(t, i, typed)
    \/ \E t \in Tabs, i \in 1..MaxDataRows : SwapNames(t, i) \/ AcceptDomainSuggestion(t, i)
    \/ ReviewNext
    \/ \E id \in DOMAIN batches : GrowOld(id)
    \/ GolferNext

Spec == Init /\ [][Next]_vars

--------------------------------------------------------------------------------
(* Properties. *)

\* The tables hold records of their kind: no text that is not a number is a handicap,
\* no address is kept as it was written.
TypeOK ==
    /\ \A g \in DOMAIN golfers : golfers[g] \in Golfer
    /\ \A id \in DOMAIN batches : batches[id] \in Batch
    /\ \A id \in DOMAIN batches, i \in 1..MaxDataRows : i \in DOMAIN batches[id].rows =>
          batches[id].rows[i].email \notin DOMAIN LowerCase
    /\ \A t \in Tabs : tabs[t] \in Page \cup {Absent}
    /\ EmailsUnique(golfers)
    /\ work \in 0..MaxWork

\* What a reviewer sees of a row and decides about it.
Reviewed(row) == [row EXCEPT !.version = 1, !.error = None]

\* What is applied is what the page showed whose button was pressed, also when rows
\* were corrected, swapped, excluded or opted in from another tab (the versions that
\* apply_batch and edit_staged_row claim).  A page that outlived its purged batch is
\* left out: ids are given again, and its batch may be another one.
AppliedAsReviewed ==
    \A id \in DOMAIN batches :
        LET batch == batches[id]
        IN  batch.state = "applied" /\ ~batch.by.gone =>
                /\ Len(batch.rows) = Len(batch.by.rows)
                /\ \A i \in DOMAIN batch.rows : Reviewed(batch.rows[i]) = Reviewed(batch.by.rows[i])

\* Two rows of a batch that share an address are both in error, and a row is called a
\* duplicate only while it is one, whichever row was corrected last (revalidate_batch).
SharedAddressesCaught ==
    \A id \in DOMAIN batches : batches[id].state = "staged" =>
        LET rows == batches[id].rows
        IN  \A i \in DOMAIN rows :
                LET shares == \E j \in DOMAIN rows \ {i} :
                                  rows[j].email # None /\ rows[j].email = rows[i].email
                IN  /\ shares => rows[i].error # None
                    /\ rows[i].error = "email_duplicate_in_batch" => shares

\* A row whose handicap cell could not be read stays in error until it is saved itself:
\* no correction of another row lets it pass as a row without a handicap.
HandicapErrorStays ==
    \A id \in DOMAIN batches : batches[id].state = "staged" =>
        \A i \in DOMAIN batches[id].rows :
            LET row == batches[id].rows[i]
            IN  row.version = 1 /\ ~ValidHandicap(row.cell) => row.error # None

\* A batch that was applied or discarded is never changed again, however often and
\* from whichever page its forms are posted.
FinalStaysFinal ==
    [][\A id \in DOMAIN batches \cap DOMAIN batches' : batches[id].state # "staged" =>
          batches'[id] = [batches[id] EXCEPT !.expired = batches'[id].expired]]_vars

Applies(id) == Staged(id) /\ id \in DOMAIN batches' /\ batches'[id].state = "applied"
Protected(golfer) == [first |-> golfer.first, last |-> golfer.last, tee |-> TeeOf(golfer),
                      phone |-> Digits[golfer.phone], handicap |-> golfer.handicap]

\* An import changes what the roster says of a golfer only where the row was opted in,
\* also when the golfer was edited, made or given another address since the review.
ProtectedByOptIn ==
    [][\A id \in DOMAIN batches : Applies(id) =>
          \A g \in DOMAIN golfers : Protected(golfers'[g]) # Protected(golfers[g]) =>
              \E i \in DOMAIN batches[id].rows :
                  LET row == batches[id].rows[i]
                  IN  row.included /\ row.optIn /\ row.email = golfers[g].email]_vars

\* A batch is applied whole: every included row is in the roster afterwards, no golfer
\* without an included row is touched, and the counters say what happened.
AppliedWhole ==
    [][\A id \in DOMAIN batches : Applies(id) =>
          LET rows == batches'[id].rows
              included == {i \in DOMAIN rows : rows[i].included}
              counts == batches'[id].counts
          IN  /\ \A i \in included : \E g \in MatchOf(rows[i].email, golfers') :
                     ~ProtectedFieldChanged(rows[i], golfers'[g])
              /\ \A g \in DOMAIN golfers' :
                     (\A i \in included : rows[i].email # golfers'[g].email) =>
                         g \in DOMAIN golfers /\ golfers'[g] = golfers[g]
              /\ counts.created = Cardinality(DOMAIN golfers' \ DOMAIN golfers)
              /\ counts.updated = Cardinality({g \in DOMAIN golfers : golfers'[g] # golfers[g]})
              /\ counts.unchanged = Cardinality(included) - counts.created - counts.updated
              /\ counts.skipped = Len(rows) - Cardinality(included)]_vars

\* Applying the same rows once more needs no opt-in and changes nothing: what
\* _existing_golfer_changes writes is what _protected_field_changed compares.
ReimportIsClean ==
    [][\A id \in DOMAIN batches : Applies(id) =>
          LET rows == batches'[id].rows
          IN  /\ \A i \in DOMAIN rows : rows[i].included =>
                     ValidationCode([rows[i] EXCEPT !.optIn = FALSE], rows, golfers') = None
              /\ Applied(rows, golfers').roster = golfers']_vars

\* A batch is applied once, whole, and as if the next import of the same file had
\* nothing left to do.
AppliedOnceAndWhole == FinalStaysFinal /\ AppliedWhole /\ ReimportIsClean

=============================================================================
