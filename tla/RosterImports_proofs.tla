------------------------- MODULE RosterImports_proofs -------------------------
(***************************************************************************)
(* Theorems about roster imports, for any files, forms, tabs and rosters.  *)
(* The proofs come in four parts: what validation answers and which rows   *)
(* are stored; what apply_batch's loop has made of the roster after n rows *)
(* (LoopInv, by induction over n), and from it that a batch is applied     *)
(* whole, protects golfers and leaves nothing for a second import; the     *)
(* invariant IInv, whose core is that a page of the batch's version shows  *)
(* the batch's rows; and one lemma for each step, which keeps IInv and     *)
(* does what the action properties say of a step (StepHolds).              *)
(***************************************************************************)
EXTENDS RosterImports, Induction

-----------------------------------------------------------------------------
(* A new id.                                                                *)

LEMMA MaxOfFinite ==
    ASSUME NEW S \in SUBSET Nat, IsFiniteSet(S), S # {}
    PROVE  Max(S) \in S /\ \A x \in S : x <= Max(S)
<1>1. PICK k \in Nat : \A x \in S : x <= k
  BY FiniteBounded
<1> DEFINE D == {k - x : x \in S}
<1>2. D \in SUBSET Nat /\ D # {}
  <2>1. \A x \in S : x \in Nat /\ k - x \in Nat
    BY <1>1
  <2> QED  BY <2>1
<1>3. PICK d \in D : \A e \in D : d <= e
  BY <1>2, Smallest
<1>4. PICK m \in S : d = k - m
  BY <1>3
<1>5. \A x \in S : m >= x
  <2>1. \A x \in S : d <= k - x /\ x \in Nat
    BY <1>3
  <2> QED  BY <1>4, <2>1
<1>6. \E m1 \in S : \A x \in S : m1 >= x
  BY <1>5
<1>7. Max(S) \in S /\ \A x \in S : Max(S) >= x
  BY <1>6 DEF Max
<1> QED  BY <1>7

LEMMA MinOfNats ==
    ASSUME NEW S \in SUBSET Nat, S # {}
    PROVE  Min(S) \in S
<1>1. \E n \in S : \A m \in S : n <= m
  BY Smallest
<1> QED  BY <1>1 DEF Min

LEMMA NextIdIsNew ==
    ASSUME NEW table, DOMAIN table \subseteq Nat \ {0}, IsFiniteSet(DOMAIN table)
    PROVE  NextId(table) \in Nat \ {0} /\ NextId(table) \notin DOMAIN table
<1> DEFINE S == DOMAIN table \cup {0}
<1>1. IsFiniteSet(S) /\ S \in SUBSET Nat /\ S # {}
  BY FS_AddElement
<1>2. Max(S) \in S /\ \A x \in S : x <= Max(S)
  BY <1>1, MaxOfFinite
<1>3. NextId(table) = 1 + Max(S)
  BY DEF NextId
<1> HIDE DEF S
<1>4. Max(S) \in Nat /\ NextId(table) \notin S
  <2>1. Max(S) \in Nat
    BY <1>1, <1>2
  <2>2. 1 + Max(S) \notin S
    BY <1>2, <2>1
  <2> QED  BY <1>3, <2>1, <2>2
<1> QED  BY <1>3, <1>4 DEF S

-----------------------------------------------------------------------------
(* The review of rows.                                                      *)

\* The code of a list of checks is that of one that fails, and None without one.
LEMMA FirstFailingFails ==
    ASSUME NEW n \in Nat, NEW checks, DOMAIN checks = 1..n
    PROVE  \/ FirstFailing(checks) = None /\ \A i \in 1..n : ~checks[i][1]
           \/ \E i \in 1..n : checks[i][1] /\ FirstFailing(checks) = checks[i][2]
<1> DEFINE failing == {i \in DOMAIN checks : checks[i][1]}
<1>1. CASE failing = {}
  BY <1>1 DEF FirstFailing
<1>2. CASE failing # {}
  <2>1. failing \in SUBSET Nat
    OBVIOUS
  <2>2. Min(failing) \in failing
    BY <1>2, <2>1, MinOfNats
  <2>3. FirstFailing(checks) = checks[Min(failing)][2]
    BY <1>2 DEF FirstFailing
  <2> QED  BY <2>2, <2>3
<1> QED  BY <1>1, <1>2

\* What _compute_validation_code answers: nothing exactly when no check fails.
Passes(row, rows, roster) ==
    /\ row.first # None /\ row.last # None /\ row.email # None
    /\ row.email \notin Malformed /\ row.email \notin DuplicateEmails(rows)
    /\ row.tee # None /\ row.error # "handicap_invalid" /\ row.phone \notin LongPhones
    /\ row.optIn \/ \A g \in MatchOf(row.email, roster) : ~ProtectedFieldChanged(row, roster[g])

LEMMA CodeOfRow ==
    ASSUME NEW row, NEW rows, NEW roster, row.optIn \in BOOLEAN
    PROVE  /\ ValidationCode(row, rows, roster) \in Codes \cup {None}
           /\ ValidationCode(row, rows, roster) = None <=> Passes(row, rows, roster)
           /\ ValidationCode(row, rows, roster) = "email_duplicate_in_batch"
                 => row.email \in DuplicateEmails(rows)
<1> DEFINE noName == row.first = None \/ row.last = None
           noEmail == row.email = None
           malformed == row.email \in Malformed
           twice == row.email \in DuplicateEmails(rows)
           unknown == row.tee = None /\ row.error = "status_unknown"
           noTee == row.tee = None
           badHandicap == row.error = "handicap_invalid"
           badPhone == row.phone \in LongPhones
           changed == ~row.optIn /\ \E g \in MatchOf(row.email, roster) :
                                        ProtectedFieldChanged(row, roster[g])
           checks == << <<noName, "name_unparseable">>, <<noEmail, "email_missing">>,
                        <<malformed, "email_malformed">>, <<twice, "email_duplicate_in_batch">>,
                        <<unknown, "status_unknown">>, <<noTee, "status_blank">>,
                        <<badHandicap, "handicap_invalid">>, <<badPhone, "phone_invalid">>,
                        <<changed, "protected_field_changed">> >>
           code == ValidationCode(row, rows, roster)
<1>1. code = FirstFailing(checks)
  BY DEF ValidationCode
<1>2. Passes(row, rows, roster) <=>
         /\ ~noName /\ ~noEmail /\ ~malformed /\ ~twice /\ ~noTee /\ ~badHandicap /\ ~badPhone
         /\ ~changed
  BY DEF Passes
<1>3. unknown => noTee
  OBVIOUS
<1>4. twice <=> row.email \in DuplicateEmails(rows)
  OBVIOUS
<1> HIDE DEF noName, noEmail, malformed, twice, unknown, noTee, badHandicap, badPhone, changed, code
<1>5. /\ DOMAIN checks = 1..9
      /\ checks[1] = <<noName, "name_unparseable">> /\ checks[2] = <<noEmail, "email_missing">>
      /\ checks[3] = <<malformed, "email_malformed">>
      /\ checks[4] = <<twice, "email_duplicate_in_batch">>
      /\ checks[5] = <<unknown, "status_unknown">> /\ checks[6] = <<noTee, "status_blank">>
      /\ checks[7] = <<badHandicap, "handicap_invalid">>
      /\ checks[8] = <<badPhone, "phone_invalid">>
      /\ checks[9] = <<changed, "protected_field_changed">>
  OBVIOUS
<1> HIDE DEF checks
<1>6. \/ code = None /\ \A i \in 1..9 : ~checks[i][1]
      \/ \E i \in 1..9 : checks[i][1] /\ code = checks[i][2]
  BY <1>1, <1>5, FirstFailingFails
<1>7. CASE code = None /\ \A i \in 1..9 : ~checks[i][1]
  <2>1. ~checks[1][1] /\ ~checks[2][1] /\ ~checks[3][1] /\ ~checks[4][1] /\ ~checks[6][1]
        /\ ~checks[7][1] /\ ~checks[8][1] /\ ~checks[9][1]
    BY <1>7
  <2>2. /\ ~noName /\ ~noEmail /\ ~malformed /\ ~twice /\ ~noTee /\ ~badHandicap /\ ~badPhone
        /\ ~changed
    BY <2>1, <1>5
  <2>3. code \in Codes \cup {None} /\ code # "email_duplicate_in_batch" /\ Passes(row, rows, roster)
    BY <1>7, <2>2, <1>2 DEF None, Codes
  <2> QED  BY <1>7, <2>3 DEF code
<1>8. ASSUME NEW i \in 1..9, checks[i][1], code = checks[i][2]
      PROVE  /\ code \in Codes \cup {None} /\ code # None /\ ~Passes(row, rows, roster)
             /\ code = "email_duplicate_in_batch" => twice
  <2>1. i \in {1, 2, 3, 4, 5, 6, 7, 8, 9}
    OBVIOUS
  <2>2. \/ noName /\ code = "name_unparseable"
        \/ noEmail /\ code = "email_missing"
        \/ malformed /\ code = "email_malformed"
        \/ twice /\ code = "email_duplicate_in_batch"
        \/ unknown /\ code = "status_unknown"
        \/ noTee /\ code = "status_blank"
        \/ badHandicap /\ code = "handicap_invalid"
        \/ badPhone /\ code = "phone_invalid"
        \/ changed /\ code = "protected_field_changed"
    BY <1>5, <1>8, <2>1
  <2>3. /\ code \in Codes \cup {None} /\ code # None
        /\ code = "email_duplicate_in_batch" => twice
    BY <2>2 DEF None, Codes
  <2> QED  BY <2>2, <2>3, <1>2, <1>3
<1> QED  BY <1>4, <1>6, <1>7, <1>8 DEF code

\* Rows as they are kept: of their kind, addresses as they are stored.
RowsOK(rows) == rows \in Seq(Row) /\ \A i \in DOMAIN rows : rows[i].email \notin DOMAIN LowerCase

\* SharedAddressesCaught of the rows of one batch.
Caught(rows) ==
    \A i \in DOMAIN rows :
        LET shares == \E j \in DOMAIN rows \ {i} :
                          rows[j].email # None /\ rows[j].email = rows[i].email
        IN  /\ shares => rows[i].error # None
            /\ rows[i].error = "email_duplicate_in_batch" => shares

LEMMA RowTyped ==
    ASSUME NEW row \in Row
    PROVE  /\ row.version \in Nat \ {0} /\ row.first \in Texts /\ row.last \in Texts
           /\ row.email \in Texts /\ row.phone \in Texts /\ row.tee \in Tees \cup {None}
           /\ row.handicap \in Numbers \cup {None} /\ row.cell \in Texts
           /\ row.included \in BOOLEAN /\ row.optIn \in BOOLEAN
           /\ row.error \in Codes \cup {None}
BY DEF Row

\* The same row with another verdict.
SameButError(new, row) ==
    /\ new.version = row.version /\ new.first = row.first /\ new.last = row.last
    /\ new.email = row.email /\ new.phone = row.phone /\ new.tee = row.tee
    /\ new.handicap = row.handicap /\ new.cell = row.cell /\ new.included = row.included
    /\ new.optIn = row.optIn

LEMMA ErrorSet ==
    ASSUME NEW row \in Row, NEW code \in Codes \cup {None}
    PROVE  /\ [row EXCEPT !.error = code] \in Row /\ [row EXCEPT !.error = code].error = code
           /\ SameButError([row EXCEPT !.error = code], row)
           /\ Reviewed([row EXCEPT !.error = code]) = Reviewed(row)
BY DEF Row, SameButError, Reviewed

LEMMA RevalidatedRows ==
    ASSUME NEW rows, NEW roster, rows \in Seq(Row)
    PROVE  /\ Revalidated(rows, roster) \in Seq(Row)
           /\ DOMAIN Revalidated(rows, roster) = DOMAIN rows
           /\ Len(Revalidated(rows, roster)) = Len(rows)
           /\ \A i \in DOMAIN rows :
                 /\ SameButError(Revalidated(rows, roster)[i], rows[i])
                 /\ Reviewed(Revalidated(rows, roster)[i]) = Reviewed(rows[i])
                 /\ Revalidated(rows, roster)[i].error = ValidationCode(rows[i], rows, roster)
<1> DEFINE new == Revalidated(rows, roster)
<1>1. new = [i \in DOMAIN rows |-> [rows[i] EXCEPT !.error = ValidationCode(rows[i], rows, roster)]]
  BY DEF Revalidated
<1>2. DOMAIN rows = 1..Len(rows) /\ Len(rows) \in Nat /\ \A i \in DOMAIN rows : rows[i] \in Row
  OBVIOUS
<1> HIDE DEF new
<1>3. ASSUME NEW i \in DOMAIN rows
      PROVE  /\ new[i] \in Row /\ SameButError(new[i], rows[i])
             /\ Reviewed(new[i]) = Reviewed(rows[i])
             /\ new[i].error = ValidationCode(rows[i], rows, roster)
  <2>1. rows[i] \in Row /\ rows[i].optIn \in BOOLEAN
    BY <1>2, RowTyped
  <2>2. ValidationCode(rows[i], rows, roster) \in Codes \cup {None}
    BY <2>1, CodeOfRow
  <2>3. new[i] = [rows[i] EXCEPT !.error = ValidationCode(rows[i], rows, roster)]
    BY <1>1
  <2> QED  BY <2>1, <2>2, <2>3, ErrorSet
<1>4. new \in Seq(Row) /\ DOMAIN new = DOMAIN rows /\ Len(new) = Len(rows)
  <2>1. DOMAIN new = 1..Len(rows) /\ \A i \in 1..Len(rows) : new[i] \in Row
    BY <1>1, <1>2, <1>3
  <2>2. new = [i \in 1..Len(rows) |-> new[i]]
    BY <1>1, <1>2
  <2>3. new \in [1..Len(rows) -> Row]
    BY <2>1, <2>2
  <2> QED  BY <1>2, <2>1, <2>3
<1> QED  BY <1>3, <1>4 DEF new

LEMMA RevalidatedHolds ==
    ASSUME NEW rows, NEW roster, RowsOK(rows)
    PROVE  RowsOK(Revalidated(rows, roster)) /\ Caught(Revalidated(rows, roster))
<1> DEFINE new == Revalidated(rows, roster)
<1>1. /\ rows \in Seq(Row) /\ new \in Seq(Row) /\ DOMAIN new = DOMAIN rows
      /\ \A i \in DOMAIN rows :
            /\ SameButError(new[i], rows[i])
            /\ new[i].error = ValidationCode(rows[i], rows, roster)
  BY RevalidatedRows DEF RowsOK
<1> HIDE DEF new
<1>2. \A i \in DOMAIN rows : new[i].email = rows[i].email /\ rows[i].optIn \in BOOLEAN
  <2>1. \A i \in DOMAIN rows : rows[i] \in Row
    BY <1>1
  <2> QED  BY <1>1, <2>1, RowTyped DEF SameButError
<1>3. RowsOK(new)
  BY <1>1, <1>2 DEF RowsOK
<1>4. Caught(new)
  <2> SUFFICES ASSUME NEW i \in DOMAIN new
      PROVE  /\ (\E j \in DOMAIN new \ {i} : new[j].email # None /\ new[j].email = new[i].email)
                   => new[i].error # None
             /\ new[i].error = "email_duplicate_in_batch" =>
                   \E j \in DOMAIN new \ {i} : new[j].email # None /\ new[j].email = new[i].email
    BY DEF Caught
  <2>1. i \in DOMAIN rows
    BY <1>1
  <2>2. rows[i].email \in DuplicateEmails(rows) <=>
           \E j \in DOMAIN new \ {i} : new[j].email # None /\ new[j].email = new[i].email
    BY <1>1, <1>2, <2>1 DEF DuplicateEmails
  <2>3. /\ ValidationCode(rows[i], rows, roster) = None => Passes(rows[i], rows, roster)
        /\ ValidationCode(rows[i], rows, roster) = "email_duplicate_in_batch"
              => rows[i].email \in DuplicateEmails(rows)
    BY <1>2, <2>1, CodeOfRow
  <2>4. new[i].error = ValidationCode(rows[i], rows, roster)
    BY <1>1, <2>1
  <2> QED  BY <2>2, <2>3, <2>4 DEF Passes
<1> QED  BY <1>3, <1>4 DEF new

-----------------------------------------------------------------------------
(* Rows that are staged and saved.                                          *)

LEMMA NormalizedStored ==
    ASSUME NEW email \in Texts
    PROVE  Normalized(email) \in Texts /\ Normalized(email) \notin DOMAIN LowerCase
BY InputsAssumption DEF InputsAssumption, Normalized

LEMMA StaticErrorCode ==
    ASSUME NEW c
    PROVE  StaticError(c) \in Codes \cup {None}
<1> DEFINE a == c.first = None \/ c.last = None
           b == c.email = None
           d == Normalized(c.email) \in Malformed
           e == c.tee = None
           f == c.tee \notin Tees
           g == ~ValidHandicap(c.handicap)
           h == c.phone \in LongPhones
           checks == << <<a, "name_unparseable">>, <<b, "email_missing">>, <<d, "email_malformed">>,
                        <<e, "status_blank">>, <<f, "status_unknown">>, <<g, "handicap_invalid">>,
                        <<h, "phone_invalid">> >>
<1>1. StaticError(c) = FirstFailing(checks)
  BY DEF StaticError
<1> HIDE DEF a, b, d, e, f, g, h
<1>2. /\ DOMAIN checks = 1..7
      /\ checks[1][2] = "name_unparseable" /\ checks[2][2] = "email_missing"
      /\ checks[3][2] = "email_malformed" /\ checks[4][2] = "status_blank"
      /\ checks[5][2] = "status_unknown" /\ checks[6][2] = "handicap_invalid"
      /\ checks[7][2] = "phone_invalid"
  OBVIOUS
<1> HIDE DEF checks
<1>3. \/ StaticError(c) = None
      \/ \E i \in 1..7 : StaticError(c) = checks[i][2]
  BY <1>1, <1>2, FirstFailingFails
<1>4. \A i \in 1..7 : i \in {1, 2, 3, 4, 5, 6, 7}
  OBVIOUS
<1>5. \A i \in 1..7 : checks[i][2] \in Codes
  BY <1>2, <1>4 DEF Codes
<1> QED  BY <1>3, <1>5

LEMMA BuiltRowTyped ==
    ASSUME NEW c \in Cells
    PROVE  BuiltRow(c) \in Row /\ BuiltRow(c).email \notin DOMAIN LowerCase
<1>1. /\ c.first \in Texts /\ c.last \in Texts /\ c.email \in Texts /\ c.phone \in Texts
      /\ c.handicap \in Texts
  BY DEF Cells
<1>2. Normalized(c.email) \in Texts /\ Normalized(c.email) \notin DOMAIN LowerCase
  BY <1>1, NormalizedStored
<1>3. Tee(c.tee) \in Tees \cup {None} /\ Handicap(c.handicap) \in Numbers \cup {None}
  BY DEF Tee, Handicap
<1>4. StaticError(c) \in Codes \cup {None}
  BY StaticErrorCode
<1>5. BuiltRow(c) \in Row
  BY <1>1, <1>2, <1>3, <1>4 DEF BuiltRow, Row
<1>6. BuiltRow(c).email = Normalized(c.email)
  BY DEF BuiltRow
<1> QED  BY <1>2, <1>5, <1>6

\* A saved row is of its kind, whatever was typed.
LEMMA SavedRowTyped ==
    ASSUME NEW row \in Row, NEW values, NEW clears \in BOOLEAN,
           values.first \in Texts, values.last \in Texts, values.email \in Texts,
           values.phone \in Texts, values.tee \in Tees \cup {None},
           values.handicap \in Numbers \cup {None},
           values.included \in BOOLEAN, values.optIn \in BOOLEAN
    PROVE  Saved(row, values, clears) \in Row
           /\ Saved(row, values, clears).email \notin DOMAIN LowerCase
<1> DEFINE error == IF clears THEN None ELSE row.error
           version == row.version + 1
           email == Normalized(values.email)
           new == Saved(row, values, clears)
<1>1. error \in Codes \cup {None} /\ version \in Nat \ {0}
  BY RowTyped
<1>2. email \in Texts /\ email \notin DOMAIN LowerCase
  BY NormalizedStored
<1>3. new = [version |-> version, first |-> values.first, last |-> values.last, email |-> email,
             phone |-> values.phone, tee |-> values.tee, handicap |-> values.handicap,
             cell |-> row.cell, included |-> values.included, optIn |-> values.optIn,
             error |-> error]
  BY DEF Saved
<1>4. row.cell \in Texts
  BY RowTyped
<1> HIDE DEF error, version, email, new
<1>5. new \in Row /\ new.email = email
  BY <1>1, <1>2, <1>3, <1>4 DEF Row
<1> QED  BY <1>2, <1>5 DEF new

-----------------------------------------------------------------------------
(* Applying rows, one after the other.                                      *)

Rosters == {r \in UNION {[D -> Golfer] : D \in SUBSET (Nat \ {0})} : IsFiniteSet(DOMAIN r)}

\* What apply_batch's loop can hold on its way.
Reached(before) ==
    {acc \in [roster : Rosters, counts : Counts] : DOMAIN before \subseteq DOMAIN acc.roster}

\* Rows of which the included ones have a tee.
Usable(rows) == rows \in Seq(Row) /\ \A i \in DOMAIN rows : rows[i].included => rows[i].tee # None

LEMMA RosterIs ==
    ASSUME NEW r
    PROVE  r \in Rosters <=> /\ r \in [DOMAIN r -> Golfer]
                             /\ DOMAIN r \subseteq Nat \ {0} /\ IsFiniteSet(DOMAIN r)
BY DEF Rosters

LEMMA GolferTyped ==
    ASSUME NEW golfer \in Golfer
    PROVE  /\ golfer.first \in Texts /\ golfer.last \in Texts /\ golfer.email \in Texts
           /\ golfer.phone \in Texts /\ golfer.set \in Tees \cup {None} /\ golfer.label \in Tees
           /\ golfer.handicap \in Numbers \cup {None}
BY DEF Golfer

LEMMA ImportedTyped ==
    ASSUME NEW golfer \in Golfer, NEW row \in Row
    PROVE  Imported(golfer, row) \in Golfer
<1>1. /\ golfer.email \in Texts /\ golfer.phone \in Texts /\ golfer.label \in Tees
      /\ golfer.handicap \in Numbers \cup {None}
  BY GolferTyped
<1>2. /\ row.first \in Texts /\ row.last \in Texts /\ row.phone \in Texts
      /\ row.tee \in Tees \cup {None} /\ row.handicap \in Numbers \cup {None}
  BY RowTyped
<1> DEFINE phone == IF row.phone # None /\ ~PhonesEqual(row.phone, golfer.phone)
                    THEN row.phone ELSE golfer.phone
           label == IF row.tee # None THEN row.tee ELSE golfer.label
           handicap == IF row.handicap # None THEN row.handicap ELSE golfer.handicap
<1>3. phone \in Texts /\ label \in Tees /\ handicap \in Numbers \cup {None}
  BY <1>1, <1>2
<1>4. Imported(golfer, row) =
         [first |-> row.first, last |-> row.last, email |-> golfer.email, phone |-> phone,
          set |-> None, label |-> label, handicap |-> handicap]
  BY DEF Imported
<1> HIDE DEF phone, label, handicap
<1> QED  BY <1>1, <1>2, <1>3, <1>4 DEF Golfer

LEMMA NewGolferTyped ==
    ASSUME NEW row \in Row, row.tee # None
    PROVE  NewGolfer(row) \in Golfer
<1>1. /\ row.first \in Texts /\ row.last \in Texts /\ row.phone \in Texts /\ row.email \in Texts
      /\ row.tee \in Tees /\ row.handicap \in Numbers \cup {None}
  BY RowTyped
<1> QED  BY <1>1 DEF NewGolfer, Golfer

LEMMA AddedGolfer ==
    ASSUME NEW r \in Rosters, NEW golfer \in Golfer
    PROVE  /\ Added(r, golfer) \in Rosters
           /\ NextId(r) \notin DOMAIN r /\ NextId(r) \in Nat \ {0}
           /\ DOMAIN Added(r, golfer) = DOMAIN r \cup {NextId(r)}
           /\ Added(r, golfer)[NextId(r)] = golfer
           /\ \A g \in DOMAIN r : Added(r, golfer)[g] = r[g]
<1>1. r \in [DOMAIN r -> Golfer] /\ DOMAIN r \subseteq Nat \ {0} /\ IsFiniteSet(DOMAIN r)
  BY RosterIs
<1>2. NextId(r) \in Nat \ {0} /\ NextId(r) \notin DOMAIN r
  BY <1>1, NextIdIsNew
<1> DEFINE new == Added(r, golfer)
<1>3. new = [id \in DOMAIN r \cup {NextId(r)} |-> IF id \in DOMAIN r THEN r[id] ELSE golfer]
  BY DEF Added
<1>4. IsFiniteSet(DOMAIN r \cup {NextId(r)})
  BY <1>1, FS_AddElement
<1> HIDE DEF new
<1>5. /\ DOMAIN new = DOMAIN r \cup {NextId(r)} /\ new[NextId(r)] = golfer
      /\ \A g \in DOMAIN r : new[g] = r[g]
  BY <1>2, <1>3
<1>6. new \in [DOMAIN new -> Golfer]
  BY <1>1, <1>3, <1>5
<1>7. new \in Rosters
  BY <1>1, <1>2, <1>4, <1>5, <1>6, RosterIs
<1> QED  BY <1>2, <1>5, <1>7 DEF new

LEMMA ChangedGolfer ==
    ASSUME NEW r \in Rosters, NEW g \in DOMAIN r, NEW golfer \in Golfer
    PROVE  /\ [r EXCEPT ![g] = golfer] \in Rosters
           /\ DOMAIN [r EXCEPT ![g] = golfer] = DOMAIN r
           /\ [r EXCEPT ![g] = golfer][g] = golfer
           /\ \A h \in DOMAIN r : h # g => [r EXCEPT ![g] = golfer][h] = r[h]
<1>1. r \in [DOMAIN r -> Golfer] /\ DOMAIN r \subseteq Nat \ {0} /\ IsFiniteSet(DOMAIN r)
  BY RosterIs
<1> DEFINE new == [r EXCEPT ![g] = golfer]
<1>2. /\ new \in [DOMAIN r -> Golfer] /\ DOMAIN new = DOMAIN r /\ new[g] = golfer
      /\ \A h \in DOMAIN r : h # g => new[h] = r[h]
  BY <1>1
<1> HIDE DEF new
<1>3. new \in Rosters
  BY <1>1, <1>2, RosterIs
<1> QED  BY <1>2, <1>3 DEF new

LEMMA CountedUp ==
    ASSUME NEW counts \in Counts, NEW what \in {"created", "updated", "unchanged", "skipped"}
    PROVE  /\ [counts EXCEPT ![what] = @ + 1] \in Counts
           /\ counts.created \in Nat /\ counts.updated \in Nat
           /\ counts.unchanged \in Nat /\ counts.skipped \in Nat
BY DEF Counts

\* The four things that happen to a row.
Counts1(acc, new, what) == new.counts = [acc.counts EXCEPT ![what] = @ + 1]
Skips(acc, row, new) ==
    ~row.included /\ new.roster = acc.roster /\ Counts1(acc, new, "skipped")
Creates(before, acc, row, new) ==
    /\ row.included /\ MatchOf(row.email, before) = {}
    /\ new.roster = Added(acc.roster, NewGolfer(row)) /\ Counts1(acc, new, "created")
Leaves(before, acc, row, new) ==
    /\ row.included /\ new.roster = acc.roster /\ Counts1(acc, new, "unchanged")
    /\ \E g \in MatchOf(row.email, before) : Imported(acc.roster[g], row) = acc.roster[g]
Updates(before, acc, row, new) ==
    /\ row.included /\ Counts1(acc, new, "updated")
    /\ \E g \in MatchOf(row.email, before) :
          /\ Imported(acc.roster[g], row) # acc.roster[g]
          /\ new.roster = [acc.roster EXCEPT ![g] = Imported(acc.roster[g], row)]

LEMMA CountedRow ==
    ASSUME NEW acc, NEW new, NEW what \in {"created", "updated", "unchanged", "skipped"},
           acc.counts \in Counts, Counts1(acc, new, what)
    PROVE  /\ acc.counts.created \in Nat /\ acc.counts.updated \in Nat
           /\ acc.counts.unchanged \in Nat /\ acc.counts.skipped \in Nat
           /\ new.counts.created =
                 IF what = "created" THEN acc.counts.created + 1 ELSE acc.counts.created
           /\ new.counts.updated =
                 IF what = "updated" THEN acc.counts.updated + 1 ELSE acc.counts.updated
           /\ new.counts.unchanged =
                 IF what = "unchanged" THEN acc.counts.unchanged + 1 ELSE acc.counts.unchanged
           /\ new.counts.skipped =
                 IF what = "skipped" THEN acc.counts.skipped + 1 ELSE acc.counts.skipped
<1> DEFINE c == acc.counts
           d == new.counts
<1>1. d = [c EXCEPT ![what] = c[what] + 1] /\ c \in Counts
  BY DEF Counts1
<1> HIDE DEF c, d
<1>2. /\ c.created \in Nat /\ c.updated \in Nat /\ c.unchanged \in Nat /\ c.skipped \in Nat
      /\ d.created = IF what = "created" THEN c.created + 1 ELSE c.created
      /\ d.updated = IF what = "updated" THEN c.updated + 1 ELSE c.updated
      /\ d.unchanged = IF what = "unchanged" THEN c.unchanged + 1 ELSE c.unchanged
      /\ d.skipped = IF what = "skipped" THEN c.skipped + 1 ELSE c.skipped
  BY <1>1 DEF Counts
<1> QED  BY <1>2 DEF c, d

LEMMA ReachedIs ==
    ASSUME NEW before, NEW acc
    PROVE  /\ acc \in Reached(before) => acc.roster \in Rosters /\ acc.counts \in Counts
                                         /\ DOMAIN before \subseteq DOMAIN acc.roster
           /\ \A r \in Rosters, c \in Counts : DOMAIN before \subseteq DOMAIN r =>
                 [roster |-> r, counts |-> c] \in Reached(before)
BY DEF Reached

LEMMA RowApplied ==
    ASSUME NEW before \in Rosters, NEW acc \in Reached(before), NEW row \in Row,
           row.included => row.tee # None
    PROVE  /\ ApplyRow(before, acc, row) \in Reached(before)
           /\ \/ Skips(acc, row, ApplyRow(before, acc, row))
              \/ Creates(before, acc, row, ApplyRow(before, acc, row))
              \/ Leaves(before, acc, row, ApplyRow(before, acc, row))
              \/ Updates(before, acc, row, ApplyRow(before, acc, row))
<1> DEFINE found == MatchOf(row.email, before)
           Counted(roster, what) == [roster |-> roster, counts |-> [acc.counts EXCEPT ![what] = @ + 1]]
           new == ApplyRow(before, acc, row)
<1>1. /\ acc.roster \in Rosters /\ acc.counts \in Counts
      /\ DOMAIN before \subseteq DOMAIN acc.roster
  BY ReachedIs
<1>2. \A r \in Rosters, what \in {"created", "updated", "unchanged", "skipped"} :
         DOMAIN before \subseteq DOMAIN r =>
            /\ Counted(r, what) \in Reached(before)
            /\ Counted(r, what).roster = r /\ Counts1(acc, Counted(r, what), what)
  <2> SUFFICES ASSUME NEW r \in Rosters, DOMAIN before \subseteq DOMAIN r,
                      NEW what \in {"created", "updated", "unchanged", "skipped"}
      PROVE  /\ Counted(r, what) \in Reached(before)
             /\ Counted(r, what).roster = r /\ Counts1(acc, Counted(r, what), what)
    OBVIOUS
  <2>1. [acc.counts EXCEPT ![what] = @ + 1] \in Counts
    BY <1>1, CountedUp
  <2> QED  BY <2>1, ReachedIs DEF Counts1
<1>3. found \subseteq DOMAIN before
  BY DEF MatchOf
<1>4. CASE ~row.included
  <2>1. new = Counted(acc.roster, "skipped")
    BY <1>4 DEF ApplyRow
  <2> QED  BY <1>1, <1>2, <1>4, <2>1 DEF Skips
<1>5. CASE row.included /\ found = {}
  <2>1. new = Counted(Added(acc.roster, NewGolfer(row)), "created")
    BY <1>5 DEF ApplyRow
  <2>2. NewGolfer(row) \in Golfer
    BY <1>5, NewGolferTyped
  <2>3. Added(acc.roster, NewGolfer(row)) \in Rosters
        /\ DOMAIN before \subseteq DOMAIN Added(acc.roster, NewGolfer(row))
    <3>1. /\ Added(acc.roster, NewGolfer(row)) \in Rosters
          /\ DOMAIN Added(acc.roster, NewGolfer(row)) = DOMAIN acc.roster \cup {NextId(acc.roster)}
      BY <1>1, <2>2, AddedGolfer
    <3> QED  BY <1>1, <3>1
  <2> QED  BY <1>2, <1>5, <2>1, <2>3 DEF Creates
<1>6. CASE row.included /\ found # {}
  <2> DEFINE g == CHOOSE x \in found : TRUE
             after == Imported(acc.roster[g], row)
  <2>1. g \in found
    BY <1>6
  <2>2. new = IF after = acc.roster[g] THEN Counted(acc.roster, "unchanged")
              ELSE Counted([acc.roster EXCEPT ![g] = after], "updated")
    BY <1>6 DEF ApplyRow
  <2> HIDE DEF g
  <2>3. g \in DOMAIN acc.roster
    BY <1>1, <1>3, <2>1
  <2>4. acc.roster[g] \in Golfer
    BY <1>1, <2>3, RosterIs
  <2>5. after \in Golfer
    BY <2>4, ImportedTyped
  <2>6. CASE after = acc.roster[g]
    <3>1. new = Counted(acc.roster, "unchanged")
      BY <2>2, <2>6
    <3> QED  BY <1>1, <1>2, <1>6, <2>1, <2>6, <3>1 DEF Leaves
  <2>7. CASE after # acc.roster[g]
    <3>1. new = Counted([acc.roster EXCEPT ![g] = after], "updated")
      BY <2>2, <2>7
    <3>2. [acc.roster EXCEPT ![g] = after] \in Rosters
          /\ DOMAIN before \subseteq DOMAIN [acc.roster EXCEPT ![g] = after]
      BY <1>1, <2>3, <2>5, ChangedGolfer
    <3>3. /\ new \in Reached(before) /\ new.roster = [acc.roster EXCEPT ![g] = after]
          /\ Counts1(acc, new, "updated")
      BY <1>2, <3>1, <3>2
    <3> QED  BY <1>6, <2>1, <2>7, <3>3 DEF Updates
  <2> QED  BY <2>6, <2>7
<1> QED  BY <1>4, <1>5, <1>6

\* The loop's recursion has a value at every row, which the prover does not take for
\* granted: by induction there is one up to each row.
LEMMA LoopIs ==
    ASSUME NEW before \in Rosters, NEW rows, Usable(rows)
    PROVE  \E after \in [0..Len(rows) -> Reached(before)] :
              /\ after[0] = [roster |-> before, counts |-> NoCounts]
              /\ \A n \in 1..Len(rows) : after[n] = ApplyRow(before, after[n - 1], rows[n])
              /\ Applied(rows, before) = after[Len(rows)]
<1> DEFINE start == [roster |-> before, counts |-> NoCounts]
           Loop(f, n) == /\ f \in [0..n -> Reached(before)]
                         /\ f[0] = start
                         /\ \A k \in 1..n : f[k] = ApplyRow(before, f[k - 1], rows[k])
           L == Len(rows)
           Done == {n \in Nat : n <= L => \E f : Loop(f, n)}
<1>1. /\ L \in Nat /\ DOMAIN rows = 1..L
      /\ \A i \in 1..L : rows[i] \in Row
      /\ \A i \in 1..L : rows[i].included => rows[i].tee # None
  BY DEF Usable
<1>2. start \in Reached(before)
  <2>1. NoCounts \in Counts
    BY DEF NoCounts, Counts
  <2> QED  BY <2>1, ReachedIs
<1> HIDE DEF start, L
<1>3. 0 \in Done
  <2> DEFINE f == [k \in 0..0 |-> start]
  <2>1. Loop(f, 0)
    BY <1>2
  <2> QED  BY <2>1
<1>4. ASSUME NEW n \in Done PROVE n + 1 \in Done
  <2> SUFFICES ASSUME n + 1 <= L PROVE \E f : Loop(f, n + 1)
    OBVIOUS
  <2>1. n \in Nat /\ n <= L /\ n + 1 \in 1..L
    BY <1>1
  <2>2. PICK f : Loop(f, n)
    BY <2>1
  <2> DEFINE last == ApplyRow(before, f[n], rows[n + 1])
             h == [k \in 0..(n + 1) |-> IF k = n + 1 THEN last ELSE f[k]]
  <2>3. f[n] \in Reached(before) /\ n \in 0..n
    BY <2>1, <2>2
  <2>4. last \in Reached(before)
    BY <1>1, <2>1, <2>3, RowApplied
  <2> HIDE DEF last
  <2>5. h \in [0..(n + 1) -> Reached(before)]
    <3>1. ASSUME NEW k \in 0..(n + 1) PROVE h[k] \in Reached(before)
      <4>1. CASE k = n + 1
        BY <2>4, <4>1
      <4>2. CASE k # n + 1
        <5>1. k \in 0..n
          BY <2>1, <4>2
        <5> QED  BY <2>2, <4>2, <5>1
      <4> QED  BY <4>1, <4>2
    <3> QED  BY <3>1
  <2>6. h[0] = start
    BY <2>1, <2>2
  <2>7. ASSUME NEW k \in 1..(n + 1) PROVE h[k] = ApplyRow(before, h[k - 1], rows[k])
    <3>1. k - 1 \in 0..n /\ h[k - 1] = f[k - 1]
      BY <2>1
    <3>2. CASE k = n + 1
      <4>1. h[k] = last /\ k - 1 = n
        BY <2>1, <3>2
      <4> QED  BY <3>1, <3>2, <4>1 DEF last
    <3>3. CASE k # n + 1
      <4>1. k \in 1..n /\ h[k] = f[k]
        BY <2>1, <3>3
      <4> QED  BY <2>2, <3>1, <4>1
    <3> QED  BY <3>2, <3>3
  <2>8. Loop(h, n + 1)
    BY <2>5, <2>6, <2>7
  <2> QED  BY <2>8
<1>5. L \in Done
  <2>1. Done \in SUBSET Nat
    OBVIOUS
  <2> HIDE DEF Done
  <2>2. Done = Nat
    BY <1>3, <1>4, <2>1, SetInduction
  <2> QED  BY <1>1, <2>2
<1>6. PICK f : Loop(f, L)
  BY <1>1, <1>5
<1> DEFINE Fits(g) == g = [n \in 0..L |-> IF n = 0 THEN start
                                          ELSE ApplyRow(before, g[n - 1], rows[n])]
           after == CHOOSE g : Fits(g)
<1>7. Fits(f)
  <2>1. f \in [0..L -> Reached(before)]
    BY <1>6
  <2>2. ASSUME NEW n \in 0..L
        PROVE  f[n] = IF n = 0 THEN start ELSE ApplyRow(before, f[n - 1], rows[n])
    <3>1. n = 0 \/ n \in 1..L
      BY <1>1
    <3> QED  BY <1>6, <3>1
  <2> HIDE DEF Loop
  <2> QED  BY <2>1, <2>2
<1>8. Fits(after)
  BY <1>7
<1>9. Applied(rows, before) = after[L]
  BY DEF Applied, start, L
<1> HIDE DEF after
<1>10. /\ DOMAIN after = 0..L /\ after[0] = start
       /\ \A n \in 1..L : after[n] = ApplyRow(before, after[n - 1], rows[n])
  <2>1. /\ DOMAIN after = 0..L
        /\ \A n \in 0..L : after[n] = IF n = 0 THEN start
                                       ELSE ApplyRow(before, after[n - 1], rows[n])
    BY <1>8
  <2>2. 0 \in 0..L /\ \A n \in 1..L : n \in 0..L /\ n # 0
    BY <1>1
  <2> QED  BY <2>1, <2>2
<1> DEFINE InReach == {n \in Nat : n <= L => after[n] \in Reached(before)}
<1>11. InReach = Nat
  <2>1. 0 \in InReach
    BY <1>2, <1>10
  <2>2. ASSUME NEW n \in InReach PROVE n + 1 \in InReach
    <3> SUFFICES ASSUME n + 1 <= L PROVE after[n + 1] \in Reached(before)
      OBVIOUS
    <3>1. n \in Nat /\ after[n] \in Reached(before) /\ n + 1 \in 1..L /\ (n + 1) - 1 = n
      BY <1>1
    <3>2. after[n + 1] = ApplyRow(before, after[n], rows[n + 1])
      BY <1>10, <3>1
    <3>3. rows[n + 1] \in Row /\ (rows[n + 1].included => rows[n + 1].tee # None)
      BY <1>1, <3>1
    <3> QED  BY <3>1, <3>2, <3>3, RowApplied
  <2>3. InReach \in SUBSET Nat
    OBVIOUS
  <2> HIDE DEF InReach
  <2> QED  BY <2>1, <2>2, <2>3, SetInduction
<1>12. after \in [0..L -> Reached(before)]
  <2>1. \A n \in 0..L : after[n] \in Reached(before)
    BY <1>1, <1>11
  <2>2. after = [n \in 0..L |-> after[n]]
    BY <1>8
  <2> QED  BY <2>1, <2>2
<1> QED  BY <1>9, <1>10, <1>12 DEF start, L

-----------------------------------------------------------------------------
(* What the loop has done after n rows.                                     *)

\* Addresses of included rows differ, as those of the roster do.
Separate(before, rows) ==
    /\ before \in Rosters /\ EmailsUnique(before) /\ Usable(rows)
    /\ \A i, j \in DOMAIN rows : rows[i].included /\ rows[j].included /\ i # j =>
          rows[i].email # rows[j].email

Hits(before, row, g) == row.included /\ g \in MatchOf(row.email, before)

\* A golfer there was is as a row of theirs says, or as before.
KnownAre(before, rows, n, r) ==
    \A g \in DOMAIN before :
        \/ \E i \in 1..n : Hits(before, rows[i], g) /\ r[g] = Imported(before[g], rows[i])
        \/ r[g] = before[g] /\ \A i \in 1..n : ~Hits(before, rows[i], g)
\* A new golfer is as a row nobody matched says.
NewAre(before, rows, n, r) ==
    \A g \in DOMAIN r \ DOMAIN before : \E i \in 1..n :
        rows[i].included /\ MatchOf(rows[i].email, before) = {} /\ r[g] = NewGolfer(rows[i])
\* Every included row is in the roster.
RowsAreIn(before, rows, n, r) ==
    \A i \in 1..n : rows[i].included => \E g \in DOMAIN r :
        \/ g \in MatchOf(rows[i].email, before) /\ r[g] = Imported(before[g], rows[i])
        \/ /\ g \notin DOMAIN before /\ MatchOf(rows[i].email, before) = {}
           /\ r[g] = NewGolfer(rows[i])

Included(rows, n) == {i \in 1..n : rows[i].included}
Changed(before, r) == {g \in DOMAIN before : r[g] # before[g]}
Tallied(before, rows, n, acc) ==
    /\ acc.counts.created = Cardinality(DOMAIN acc.roster \ DOMAIN before)
    /\ acc.counts.updated = Cardinality(Changed(before, acc.roster))
    /\ acc.counts.created + acc.counts.updated + acc.counts.unchanged
          = Cardinality(Included(rows, n))
    /\ Cardinality(Included(rows, n)) + acc.counts.skipped = n

LoopInv(before, rows, n, acc) ==
    /\ acc \in Reached(before)
    /\ KnownAre(before, rows, n, acc.roster) /\ NewAre(before, rows, n, acc.roster)
    /\ RowsAreIn(before, rows, n, acc.roster)
    /\ Tallied(before, rows, n, acc)

\* One more row among the included ones, or not.
LEMMA OneMoreRow ==
    ASSUME NEW rows, NEW n \in Nat
    PROVE  /\ Cardinality(Included(rows, n)) \in Nat
           /\ rows[n + 1].included =>
                 Cardinality(Included(rows, n + 1)) = Cardinality(Included(rows, n)) + 1
           /\ ~rows[n + 1].included => Included(rows, n + 1) = Included(rows, n)
<1>1. IsFiniteSet(1..n) /\ n + 1 \notin 1..n /\ 1..(n + 1) = (1..n) \cup {n + 1}
  BY FS_Interval
<1>2. Included(rows, n) \subseteq 1..n
  BY DEF Included
<1>3. IsFiniteSet(Included(rows, n)) /\ n + 1 \notin Included(rows, n)
  BY <1>1, <1>2, FS_Subset
<1>4. rows[n + 1].included => Included(rows, n + 1) = Included(rows, n) \cup {n + 1}
  BY <1>1 DEF Included
<1>5. ~rows[n + 1].included => Included(rows, n + 1) = Included(rows, n)
  BY <1>1 DEF Included
<1>6. Cardinality(Included(rows, n)) \in Nat
  BY <1>3, FS_CardinalityType
<1>7. Cardinality(Included(rows, n) \cup {n + 1}) = Cardinality(Included(rows, n)) + 1
  BY <1>3, FS_AddElement
<1> QED  BY <1>4, <1>5, <1>6, <1>7

\* Nobody but its golfer is matched by a row, and no row before.
LEMMA OneMatch ==
    ASSUME NEW before, NEW rows, Separate(before, rows), NEW i \in DOMAIN rows,
           NEW g \in MatchOf(rows[i].email, before)
    PROVE  /\ g \in DOMAIN before
           /\ \A h \in MatchOf(rows[i].email, before) : h = g
           /\ \A j \in DOMAIN rows : rows[i].included /\ j # i => ~Hits(before, rows[j], g)
BY DEF Separate, MatchOf, EmailsUnique, Hits

LEMMA UpToNext ==
    ASSUME NEW n \in Nat
    PROVE  1..(n + 1) = (1..n) \cup {n + 1} /\ n + 1 \notin 1..n
OBVIOUS

\* What holds of the rows before holds with one more that hits no golfer there was.
LEMMA KnownStay ==
    ASSUME NEW before, NEW rows, NEW n \in Nat, NEW r, NEW s, KnownAre(before, rows, n, r),
           NEW G, \A g \in DOMAIN before \ G : s[g] = r[g] /\ ~Hits(before, rows[n + 1], g),
           \A g \in DOMAIN before \cap G :
               Hits(before, rows[n + 1], g) /\ s[g] = Imported(before[g], rows[n + 1])
    PROVE  KnownAre(before, rows, n + 1, s)
<1>1. 1..(n + 1) = (1..n) \cup {n + 1}
  BY UpToNext
<1> SUFFICES ASSUME NEW g \in DOMAIN before
    PROVE  \/ \E i \in 1..(n + 1) : Hits(before, rows[i], g) /\ s[g] = Imported(before[g], rows[i])
           \/ s[g] = before[g] /\ \A i \in 1..(n + 1) : ~Hits(before, rows[i], g)
  BY DEF KnownAre
<1>2. CASE g \in G
  <2>1. n + 1 \in 1..(n + 1)
    BY <1>1
  <2> QED  BY <1>2, <2>1
<1>3. CASE g \notin G
  <2>1. s[g] = r[g] /\ ~Hits(before, rows[n + 1], g)
    BY <1>3
  <2> QED  BY <1>1, <2>1 DEF KnownAre
<1> QED  BY <1>2, <1>3

LEMMA SkipKeeps ==
    ASSUME NEW before, NEW rows, NEW n \in Nat, NEW acc, NEW new,
           LoopInv(before, rows, n, acc), new \in Reached(before), Skips(acc, rows[n + 1], new)
    PROVE  LoopInv(before, rows, n + 1, new)
<1>1. 1..(n + 1) = (1..n) \cup {n + 1} /\ n + 1 \notin 1..n
  BY UpToNext
<1>2. ~rows[n + 1].included /\ new.roster = acc.roster /\ Counts1(acc, new, "skipped")
  BY DEF Skips
<1>3. KnownAre(before, rows, n + 1, new.roster)
  <2>1. \A g \in DOMAIN before \ {} : ~Hits(before, rows[n + 1], g)
    BY <1>2 DEF Hits
  <2>2. KnownAre(before, rows, n, acc.roster)
    BY DEF LoopInv
  <2> QED  BY <1>1, <1>2, <2>1, <2>2 DEF KnownAre
<1>4. NewAre(before, rows, n + 1, new.roster)
  BY <1>1, <1>2 DEF LoopInv, NewAre
<1>5. RowsAreIn(before, rows, n + 1, new.roster)
  BY <1>1, <1>2 DEF LoopInv, RowsAreIn
<1>6. Tallied(before, rows, n + 1, new)
  <2>1. acc.counts \in Counts
    BY ReachedIs DEF LoopInv
  <2>2. /\ new.counts.created = acc.counts.created /\ new.counts.updated = acc.counts.updated
        /\ new.counts.unchanged = acc.counts.unchanged
        /\ new.counts.skipped = acc.counts.skipped + 1 /\ acc.counts.skipped \in Nat
    BY <1>2, <2>1, CountedRow
  <2>3. Included(rows, n + 1) = Included(rows, n) /\ Cardinality(Included(rows, n)) \in Nat
    BY <1>2, OneMoreRow
  <2> QED  BY <1>2, <2>2, <2>3 DEF LoopInv, Tallied
<1> QED  BY <1>3, <1>4, <1>5, <1>6 DEF LoopInv

LEMMA CreateKeeps ==
    ASSUME NEW before, NEW rows, NEW n \in Nat, NEW acc, NEW new,
           rows[n + 1] \in Row, rows[n + 1].tee # None,
           LoopInv(before, rows, n, acc), new \in Reached(before),
           Creates(before, acc, rows[n + 1], new)
    PROVE  LoopInv(before, rows, n + 1, new)
<1> DEFINE r == acc.roster
           id == NextId(r)
           made == NewGolfer(rows[n + 1])
           s == new.roster
<1>1. 1..(n + 1) = (1..n) \cup {n + 1} /\ n + 1 \notin 1..n
  BY UpToNext
<1>2. /\ rows[n + 1].included /\ MatchOf(rows[n + 1].email, before) = {}
      /\ s = Added(r, made) /\ Counts1(acc, new, "created")
  BY DEF Creates
<1>3. acc \in Reached(before) /\ r \in Rosters /\ acc.counts \in Counts
      /\ DOMAIN before \subseteq DOMAIN r
  BY ReachedIs DEF LoopInv
<1>6. /\ r = acc.roster /\ made = NewGolfer(rows[n + 1]) /\ s = new.roster
      /\ id = NextId(r)
  OBVIOUS
<1> HIDE DEF r, id, made, s
<1>4. /\ id \notin DOMAIN r /\ DOMAIN s = DOMAIN r \cup {id} /\ s[id] = made
      /\ \A g \in DOMAIN r : s[g] = r[g]
  <2>1. made \in Golfer
    BY <1>6, NewGolferTyped
  <2>2. /\ NextId(r) \notin DOMAIN r /\ DOMAIN Added(r, made) = DOMAIN r \cup {NextId(r)}
        /\ Added(r, made)[NextId(r)] = made /\ \A g \in DOMAIN r : Added(r, made)[g] = r[g]
    BY <1>3, <2>1, AddedGolfer
  <2> QED  BY <1>2, <1>6, <2>2
<1>5. /\ KnownAre(before, rows, n, r) /\ NewAre(before, rows, n, r)
      /\ RowsAreIn(before, rows, n, r) /\ Tallied(before, rows, n, acc)
  BY <1>6 DEF LoopInv
<1>7. KnownAre(before, rows, n + 1, s)
  <2>1. \A g \in DOMAIN before : s[g] = r[g] /\ ~Hits(before, rows[n + 1], g)
    BY <1>2, <1>3, <1>4 DEF Hits
  <2> QED  BY <1>1, <1>5, <2>1 DEF KnownAre
<1>8. NewAre(before, rows, n + 1, s)
  <2> SUFFICES ASSUME NEW g \in DOMAIN s \ DOMAIN before
      PROVE  \E i \in 1..(n + 1) :
                rows[i].included /\ MatchOf(rows[i].email, before) = {} /\ s[g] = NewGolfer(rows[i])
    BY DEF NewAre
  <2>1. CASE g = id
    BY <1>1, <1>2, <1>4, <1>6, <2>1
  <2>2. CASE g # id
    BY <1>1, <1>4, <1>5, <2>2 DEF NewAre
  <2> QED  BY <2>1, <2>2
<1>9. RowsAreIn(before, rows, n + 1, s)
  <2> SUFFICES ASSUME NEW i \in 1..(n + 1), rows[i].included
      PROVE  \E g \in DOMAIN s :
                \/ g \in MatchOf(rows[i].email, before) /\ s[g] = Imported(before[g], rows[i])
                \/ /\ g \notin DOMAIN before /\ MatchOf(rows[i].email, before) = {}
                   /\ s[g] = NewGolfer(rows[i])
    BY DEF RowsAreIn
  <2>1. CASE i = n + 1
    BY <1>2, <1>3, <1>4, <1>6, <2>1
  <2>2. CASE i # n + 1
    BY <1>1, <1>4, <1>5, <2>2 DEF RowsAreIn
  <2> QED  BY <2>1, <2>2
<1>10. Tallied(before, rows, n + 1, new)
  <2>1. /\ new.counts.created = acc.counts.created + 1 /\ new.counts.updated = acc.counts.updated
        /\ new.counts.unchanged = acc.counts.unchanged /\ new.counts.skipped = acc.counts.skipped
        /\ acc.counts.created \in Nat /\ acc.counts.updated \in Nat
        /\ acc.counts.unchanged \in Nat /\ acc.counts.skipped \in Nat
    BY <1>2, <1>3, CountedRow
  <2>2. Cardinality(Included(rows, n + 1)) = Cardinality(Included(rows, n)) + 1
        /\ Cardinality(Included(rows, n)) \in Nat
    BY <1>2, OneMoreRow
  <2>3. Changed(before, s) = Changed(before, r)
    BY <1>3, <1>4 DEF Changed
  <2>4. Cardinality(DOMAIN s \ DOMAIN before) = Cardinality(DOMAIN r \ DOMAIN before) + 1
    <3>1. IsFiniteSet(DOMAIN r \ DOMAIN before)
      BY <1>3, RosterIs, FS_Subset
    <3>2. DOMAIN s \ DOMAIN before = (DOMAIN r \ DOMAIN before) \cup {id}
          /\ id \notin DOMAIN r \ DOMAIN before
      BY <1>3, <1>4
    <3> QED  BY <3>1, <3>2, FS_AddElement
  <2>5. /\ acc.counts.created = Cardinality(DOMAIN r \ DOMAIN before)
        /\ acc.counts.updated = Cardinality(Changed(before, r))
        /\ acc.counts.created + acc.counts.updated + acc.counts.unchanged
              = Cardinality(Included(rows, n))
        /\ Cardinality(Included(rows, n)) + acc.counts.skipped = n
    BY <1>5, <1>6 DEF Tallied
  <2>6. /\ new.counts.created = Cardinality(DOMAIN s \ DOMAIN before)
        /\ new.counts.updated = Cardinality(Changed(before, s))
    BY <2>1, <2>3, <2>4, <2>5
  <2>7. /\ new.counts.created + new.counts.updated + new.counts.unchanged
              = Cardinality(Included(rows, n + 1))
        /\ Cardinality(Included(rows, n + 1)) + new.counts.skipped = n + 1
    BY <2>1, <2>2, <2>5
  <2> QED  BY <1>6, <2>6, <2>7 DEF Tallied
<1> QED  BY <1>6, <1>7, <1>8, <1>9, <1>10 DEF LoopInv

\* The golfer a row hits is as before when the row comes.
LEMMA AsBefore ==
    ASSUME NEW before, NEW rows, NEW n \in Nat, n + 1 \in DOMAIN rows, Separate(before, rows),
           NEW r, KnownAre(before, rows, n, r), rows[n + 1].included,
           NEW g \in MatchOf(rows[n + 1].email, before)
    PROVE  r[g] = before[g]
<1>1. DOMAIN rows = 1..Len(rows) /\ Len(rows) \in Nat
  BY DEF Separate, Usable
<1>2. \A i \in 1..n : i \in DOMAIN rows /\ i # n + 1
  BY <1>1
<1>3. g \in DOMAIN before /\ \A j \in DOMAIN rows : rows[n + 1].included /\ j # n + 1 =>
                                 ~Hits(before, rows[j], g)
  BY OneMatch
<1>4. \A i \in 1..n : ~Hits(before, rows[i], g)
  BY <1>2, <1>3
<1> QED  BY <1>3, <1>4 DEF KnownAre

LEMMA MatchedKeeps ==
    ASSUME NEW before, NEW rows, NEW n \in Nat, n + 1 \in DOMAIN rows, Separate(before, rows),
           NEW acc, NEW new, LoopInv(before, rows, n, acc), new \in Reached(before),
           \/ Leaves(before, acc, rows[n + 1], new)
           \/ Updates(before, acc, rows[n + 1], new)
    PROVE  LoopInv(before, rows, n + 1, new)
<1> DEFINE r == acc.roster
           s == new.roster
           row == rows[n + 1]
<1>1. 1..(n + 1) = (1..n) \cup {n + 1} /\ n + 1 \notin 1..n
  BY UpToNext
<1>2. acc \in Reached(before) /\ r \in Rosters /\ acc.counts \in Counts
      /\ DOMAIN before \subseteq DOMAIN r
  BY ReachedIs DEF LoopInv
<1>3. /\ KnownAre(before, rows, n, r) /\ NewAre(before, rows, n, r)
      /\ RowsAreIn(before, rows, n, r) /\ Tallied(before, rows, n, acc)
  BY DEF LoopInv
<1>4. row.included /\ \E g \in MatchOf(row.email, before) :
         \/ Imported(r[g], row) = r[g] /\ s = r /\ Counts1(acc, new, "unchanged")
         \/ /\ Imported(r[g], row) # r[g] /\ s = [r EXCEPT ![g] = Imported(r[g], row)]
            /\ Counts1(acc, new, "updated")
  BY DEF Leaves, Updates
<1>5. r = acc.roster /\ s = new.roster /\ row = rows[n + 1]
  OBVIOUS
<1> HIDE DEF r, s, row
<1>6. PICK g \in MatchOf(row.email, before) :
         \/ Imported(r[g], row) = r[g] /\ s = r /\ Counts1(acc, new, "unchanged")
         \/ /\ Imported(r[g], row) # r[g] /\ s = [r EXCEPT ![g] = Imported(r[g], row)]
            /\ Counts1(acc, new, "updated")
  BY <1>4
<1>7. g \in DOMAIN before /\ (\A h \in MatchOf(row.email, before) : h = g) /\ r[g] = before[g]
  BY <1>3, <1>4, <1>5, OneMatch, AsBefore
<1>8. /\ g \in DOMAIN r /\ DOMAIN s = DOMAIN r /\ s[g] = Imported(before[g], row)
      /\ \A h \in DOMAIN r : h # g => s[h] = r[h]
  <2>1. g \in DOMAIN r /\ r \in [DOMAIN r -> Golfer]
    BY <1>2, <1>7, RosterIs
  <2> QED  BY <1>6, <1>7, <2>1
<1>9. KnownAre(before, rows, n + 1, s)
  <2>1. \A h \in DOMAIN before \ {g} : s[h] = r[h] /\ ~Hits(before, rows[n + 1], h)
    BY <1>2, <1>5, <1>7, <1>8 DEF Hits
  <2>2. \A h \in DOMAIN before \cap {g} :
           Hits(before, rows[n + 1], h) /\ s[h] = Imported(before[h], rows[n + 1])
    BY <1>4, <1>5, <1>6, <1>8 DEF Hits
  <2> QED  BY <1>3, <2>1, <2>2, KnownStay
<1>10. NewAre(before, rows, n + 1, s)
  <2> SUFFICES ASSUME NEW h \in DOMAIN s \ DOMAIN before
      PROVE  \E i \in 1..(n + 1) :
                rows[i].included /\ MatchOf(rows[i].email, before) = {} /\ s[h] = NewGolfer(rows[i])
    BY DEF NewAre
  <2>1. h \in DOMAIN r \ DOMAIN before /\ s[h] = r[h]
    BY <1>7, <1>8
  <2> QED  BY <1>1, <1>3, <2>1 DEF NewAre
<1>11. RowsAreIn(before, rows, n + 1, s)
  <2> SUFFICES ASSUME NEW i \in 1..(n + 1), rows[i].included
      PROVE  \E h \in DOMAIN s :
                \/ h \in MatchOf(rows[i].email, before) /\ s[h] = Imported(before[h], rows[i])
                \/ /\ h \notin DOMAIN before /\ MatchOf(rows[i].email, before) = {}
                   /\ s[h] = NewGolfer(rows[i])
    BY DEF RowsAreIn
  <2>1. CASE i = n + 1
    BY <1>5, <1>6, <1>8, <2>1
  <2>2. CASE i # n + 1
    <3>1. i \in 1..n
      BY <1>1, <2>2
    <3>2. PICK h \in DOMAIN r :
             \/ h \in MatchOf(rows[i].email, before) /\ r[h] = Imported(before[h], rows[i])
             \/ /\ h \notin DOMAIN before /\ MatchOf(rows[i].email, before) = {}
                /\ r[h] = NewGolfer(rows[i])
      BY <1>3, <3>1 DEF RowsAreIn
    <3>3. h # g
      <4>1. \A j \in DOMAIN rows : rows[n + 1].included /\ j # n + 1 => ~Hits(before, rows[j], g)
        BY <1>5, OneMatch
      <4>2. i \in DOMAIN rows
        BY <3>1 DEF Separate, Usable
      <4>3. ~Hits(before, rows[i], g)
        BY <1>4, <1>5, <2>2, <4>1, <4>2
      <4> QED  BY <1>7, <3>2, <4>3 DEF Hits
    <3> QED  BY <1>8, <3>2, <3>3
  <2> QED  BY <2>1, <2>2
<1>12. /\ acc.counts.created \in Nat /\ acc.counts.updated \in Nat
       /\ acc.counts.unchanged \in Nat /\ acc.counts.skipped \in Nat
       /\ acc.counts.created = Cardinality(DOMAIN r \ DOMAIN before)
       /\ acc.counts.updated = Cardinality(Changed(before, r))
       /\ acc.counts.created + acc.counts.updated + acc.counts.unchanged
             = Cardinality(Included(rows, n))
       /\ Cardinality(Included(rows, n)) + acc.counts.skipped = n
  <2>1. /\ acc.counts.created \in Nat /\ acc.counts.updated \in Nat
        /\ acc.counts.unchanged \in Nat /\ acc.counts.skipped \in Nat
    BY <1>2, CountedUp
  <2> QED  BY <1>3, <1>5, <2>1 DEF Tallied
<1>13. Cardinality(Included(rows, n + 1)) = Cardinality(Included(rows, n)) + 1
       /\ Cardinality(Included(rows, n)) \in Nat
  BY <1>4, <1>5, OneMoreRow
<1>14. CASE Imported(r[g], row) = r[g] /\ s = r /\ Counts1(acc, new, "unchanged")
  <2>1. /\ new.counts.created = acc.counts.created /\ new.counts.updated = acc.counts.updated
        /\ new.counts.unchanged = acc.counts.unchanged + 1
        /\ new.counts.skipped = acc.counts.skipped
    BY <1>2, <1>14, CountedRow
  <2>2. Tallied(before, rows, n + 1, new)
    <3>1. /\ new.counts.created + new.counts.updated + new.counts.unchanged
                = Cardinality(Included(rows, n + 1))
          /\ Cardinality(Included(rows, n + 1)) + new.counts.skipped = n + 1
      BY <1>12, <1>13, <2>1
    <3> QED  BY <1>5, <1>12, <1>14, <2>1, <3>1 DEF Tallied
  <2> QED  BY <1>5, <1>9, <1>10, <1>11, <2>2 DEF LoopInv
<1>15. CASE /\ Imported(r[g], row) # r[g] /\ s = [r EXCEPT ![g] = Imported(r[g], row)]
            /\ Counts1(acc, new, "updated")
  <2>1. /\ new.counts.created = acc.counts.created /\ new.counts.updated = acc.counts.updated + 1
        /\ new.counts.unchanged = acc.counts.unchanged
        /\ new.counts.skipped = acc.counts.skipped
    BY <1>2, <1>15, CountedRow
  <2>2. Changed(before, s) = Changed(before, r) \cup {g} /\ g \notin Changed(before, r)
    BY <1>2, <1>7, <1>8, <1>15 DEF Changed
  <2>3. IsFiniteSet(Changed(before, r))
    <3>1. IsFiniteSet(DOMAIN before) /\ Changed(before, r) \subseteq DOMAIN before
      BY RosterIs DEF Separate, Changed
    <3> QED  BY <3>1, FS_Subset
  <2>4. Cardinality(Changed(before, s)) = Cardinality(Changed(before, r)) + 1
    BY <2>2, <2>3, FS_AddElement
  <2>5. Tallied(before, rows, n + 1, new)
    <3>1. /\ new.counts.created + new.counts.updated + new.counts.unchanged
                = Cardinality(Included(rows, n + 1))
          /\ Cardinality(Included(rows, n + 1)) + new.counts.skipped = n + 1
      BY <1>12, <1>13, <2>1
    <3>2. /\ new.counts.created = Cardinality(DOMAIN s \ DOMAIN before)
          /\ new.counts.updated = Cardinality(Changed(before, s))
      BY <1>8, <1>12, <2>1, <2>4
    <3> QED  BY <1>5, <3>1, <3>2 DEF Tallied
  <2> QED  BY <1>5, <1>9, <1>10, <1>11, <2>5 DEF LoopInv
<1> QED  BY <1>6, <1>14, <1>15

LEMMA LoopStarts ==
    ASSUME NEW before \in Rosters, NEW rows
    PROVE  LoopInv(before, rows, 0, [roster |-> before, counts |-> NoCounts])
<1> DEFINE acc == [roster |-> before, counts |-> NoCounts]
<1>1. acc \in Reached(before) /\ acc.roster = before /\ acc.counts = NoCounts
  <2>1. NoCounts \in Counts
    BY DEF NoCounts, Counts
  <2> QED  BY <2>1, ReachedIs
<1> HIDE DEF acc
<1>2. 1..0 = {}
  OBVIOUS
<1>3. Included(rows, 0) = {} /\ Changed(before, before) = {} /\ DOMAIN before \ DOMAIN before = {}
  BY <1>2 DEF Included, Changed
<1>4. Cardinality({}) = 0
  BY FS_EmptySet
<1>5. Tallied(before, rows, 0, acc)
  <2>1. NoCounts.created = 0 /\ NoCounts.updated = 0 /\ NoCounts.unchanged = 0 /\ NoCounts.skipped = 0
    BY DEF NoCounts
  <2> QED  BY <1>1, <1>3, <1>4, <2>1 DEF Tallied
<1>6. KnownAre(before, rows, 0, before) /\ NewAre(before, rows, 0, before)
      /\ RowsAreIn(before, rows, 0, before)
  BY <1>2 DEF KnownAre, NewAre, RowsAreIn
<1> QED  BY <1>1, <1>5, <1>6 DEF LoopInv, acc

\* What apply_batch's loop has done in the end.
LEMMA LoopEnds ==
    ASSUME NEW before, NEW rows, Separate(before, rows)
    PROVE  LoopInv(before, rows, Len(rows), Applied(rows, before))
<1> DEFINE L == Len(rows)
<1>1. /\ before \in Rosters /\ Usable(rows) /\ L \in Nat /\ DOMAIN rows = 1..L
      /\ \A i \in 1..L : rows[i] \in Row /\ (rows[i].included => rows[i].tee # None)
  BY DEF Separate, Usable
<1>2. PICK after \in [0..L -> Reached(before)] :
         /\ after[0] = [roster |-> before, counts |-> NoCounts]
         /\ \A n \in 1..L : after[n] = ApplyRow(before, after[n - 1], rows[n])
         /\ Applied(rows, before) = after[L]
  BY <1>1, LoopIs
<1> HIDE DEF L
<1> DEFINE Right == {n \in Nat : n <= L => LoopInv(before, rows, n, after[n])}
<1>3. 0 \in Right
  BY <1>1, <1>2, LoopStarts
<1>4. ASSUME NEW n \in Right PROVE n + 1 \in Right
  <2> SUFFICES ASSUME n + 1 <= L PROVE LoopInv(before, rows, n + 1, after[n + 1])
    OBVIOUS
  <2>1. n \in Nat /\ n \in 0..L /\ n + 1 \in 1..L /\ n + 1 \in 0..L /\ (n + 1) - 1 = n
    BY <1>1
  <2>2. LoopInv(before, rows, n, after[n])
    BY <1>1, <2>1
  <2>3. after[n + 1] = ApplyRow(before, after[n], rows[n + 1])
    BY <1>2, <2>1
  <2>4. after[n] \in Reached(before) /\ after[n + 1] \in Reached(before)
    BY <1>2, <2>1
  <2>5. rows[n + 1] \in Row /\ (rows[n + 1].included => rows[n + 1].tee # None)
        /\ n + 1 \in DOMAIN rows
    BY <1>1, <2>1
  <2>6. \/ Skips(after[n], rows[n + 1], after[n + 1])
        \/ Creates(before, after[n], rows[n + 1], after[n + 1])
        \/ Leaves(before, after[n], rows[n + 1], after[n + 1])
        \/ Updates(before, after[n], rows[n + 1], after[n + 1])
    BY <1>1, <2>3, <2>4, <2>5, RowApplied
  <2>7. CASE Skips(after[n], rows[n + 1], after[n + 1])
    BY <2>1, <2>2, <2>4, <2>7, SkipKeeps
  <2>8. CASE Creates(before, after[n], rows[n + 1], after[n + 1])
    <3>1. rows[n + 1].tee # None
      BY <2>5, <2>8 DEF Creates
    <3> QED  BY <2>1, <2>2, <2>4, <2>5, <2>8, <3>1, CreateKeeps
  <2>9. CASE Leaves(before, after[n], rows[n + 1], after[n + 1])
             \/ Updates(before, after[n], rows[n + 1], after[n + 1])
    BY <2>1, <2>2, <2>4, <2>5, <2>9, MatchedKeeps
  <2> QED  BY <2>6, <2>7, <2>8, <2>9
<1>5. Right = Nat
  <2>1. Right \in SUBSET Nat
    OBVIOUS
  <2> HIDE DEF Right
  <2> QED  BY <1>3, <1>4, <2>1, SetInduction
<1>6. LoopInv(before, rows, L, after[L])
  BY <1>1, <1>5
<1> QED  BY <1>2, <1>6 DEF L

-----------------------------------------------------------------------------
(* What an import makes of the roster.                                      *)

\* An imported golfer is what the row says, and a second import changes nothing.
LEMMA ImportedAsRow ==
    ASSUME NEW golfer, NEW row
    PROVE  /\ ~ProtectedFieldChanged(row, Imported(golfer, row))
           /\ Imported(golfer, row).email = golfer.email
           /\ Imported(Imported(golfer, row), row) = Imported(golfer, row)
<1> DEFINE phone == IF row.phone # None /\ ~PhonesEqual(row.phone, golfer.phone)
                    THEN row.phone ELSE golfer.phone
           label == IF row.tee # None THEN row.tee ELSE golfer.label
           handicap == IF row.handicap # None THEN row.handicap ELSE golfer.handicap
           new == Imported(golfer, row)
           again == Imported(new, row)
<1>1. new = [first |-> row.first, last |-> row.last, email |-> golfer.email, phone |-> phone,
             set |-> None, label |-> label, handicap |-> handicap]
  BY DEF Imported
<1>2. row.phone # None => PhonesEqual(row.phone, phone)
  BY DEF PhonesEqual
<1>3. row.tee # None => label = row.tee
  OBVIOUS
<1>4. row.handicap # None => handicap = row.handicap
  OBVIOUS
<1> HIDE DEF phone, label, handicap, new
<1>5. /\ new.first = row.first /\ new.last = row.last /\ new.email = golfer.email
      /\ new.phone = phone /\ new.set = None /\ new.label = label /\ new.handicap = handicap
  BY <1>1
<1>6. ~ProtectedFieldChanged(row, new)
  BY <1>2, <1>3, <1>4, <1>5 DEF ProtectedFieldChanged, TeeOf
<1>7. again = [first |-> row.first, last |-> row.last, email |-> new.email,
               phone |-> IF row.phone # None /\ ~PhonesEqual(row.phone, new.phone)
                         THEN row.phone ELSE new.phone,
               set |-> None, label |-> IF row.tee # None THEN row.tee ELSE new.label,
               handicap |-> IF row.handicap # None THEN row.handicap ELSE new.handicap]
  BY DEF Imported
<1> HIDE DEF again
<1>8. again = new
  BY <1>1, <1>2, <1>3, <1>4, <1>5, <1>7
<1> QED  BY <1>5, <1>6, <1>8 DEF again, new

LEMMA NewAsRow ==
    ASSUME NEW row, row.tee # None
    PROVE  /\ ~ProtectedFieldChanged(row, NewGolfer(row))
           /\ NewGolfer(row).email = row.email
           /\ Imported(NewGolfer(row), row) = NewGolfer(row)
<1> DEFINE new == NewGolfer(row)
<1>1. new = [first |-> row.first, last |-> row.last, email |-> row.email, phone |-> row.phone,
             set |-> None, label |-> row.tee, handicap |-> row.handicap]
  BY DEF NewGolfer
<1>2. PhonesEqual(row.phone, row.phone)
  BY DEF PhonesEqual
<1> HIDE DEF new
<1>3. /\ new.first = row.first /\ new.last = row.last /\ new.email = row.email
      /\ new.phone = row.phone /\ new.set = None /\ new.label = row.tee
      /\ new.handicap = row.handicap
  BY <1>1
<1>4. ~ProtectedFieldChanged(row, new)
  BY <1>2, <1>3 DEF ProtectedFieldChanged, TeeOf
<1>5. Imported(new, row) =
              [first |-> row.first, last |-> row.last, email |-> new.email,
               phone |-> IF row.phone # None /\ ~PhonesEqual(row.phone, new.phone)
                         THEN row.phone ELSE new.phone,
               set |-> None, label |-> IF row.tee # None THEN row.tee ELSE new.label,
               handicap |-> IF row.handicap # None THEN row.handicap ELSE new.handicap]
  BY DEF Imported
<1>6. Imported(new, row) = new
  BY <1>1, <1>3, <1>5
<1> QED  BY <1>3, <1>4, <1>6 DEF new

\* A row that says nothing protected leaves what is protected.
LEMMA UnchangedByRow ==
    ASSUME NEW golfer, NEW row, ~ProtectedFieldChanged(row, golfer), row.tee # None
    PROVE  Protected(Imported(golfer, row)) = Protected(golfer)
<1> DEFINE new == Imported(golfer, row)
<1>1. /\ row.first = golfer.first /\ row.last = golfer.last
      /\ row.phone # None => PhonesEqual(row.phone, golfer.phone)
      /\ row.tee = TeeOf(golfer) /\ (row.handicap # None => row.handicap = golfer.handicap)
  BY DEF ProtectedFieldChanged
<1>2. /\ new.first = row.first /\ new.last = row.last
      /\ new.phone = IF row.phone # None /\ ~PhonesEqual(row.phone, golfer.phone)
                     THEN row.phone ELSE golfer.phone
      /\ new.set = None /\ new.label = row.tee
      /\ new.handicap = IF row.handicap # None THEN row.handicap ELSE golfer.handicap
  BY DEF Imported
<1> HIDE DEF new
<1>3. /\ new.first = golfer.first /\ new.last = golfer.last /\ new.phone = golfer.phone
      /\ TeeOf(new) = TeeOf(golfer) /\ new.handicap = golfer.handicap
  BY <1>1, <1>2 DEF TeeOf
<1>4. Protected(new) = Protected(golfer)
  BY <1>3 DEF Protected
<1> QED  BY <1>4 DEF new

\* Rows without an error, as apply_batch demands of the included ones.
Clean(before, rows) ==
    /\ before \in Rosters /\ EmailsUnique(before) /\ rows \in Seq(Row)
    /\ \A i \in DOMAIN rows : rows[i].included => Passes(rows[i], rows, before)

LEMMA CleanSeparates ==
    ASSUME NEW before, NEW rows, Clean(before, rows)
    PROVE  Separate(before, rows)
<1>1. Usable(rows)
  BY DEF Clean, Usable, Passes
<1>2. ASSUME NEW i \in DOMAIN rows, NEW j \in DOMAIN rows, rows[i].included, i # j
      PROVE  rows[i].email # rows[j].email
  <2>1. rows[i].email # None /\ rows[i].email \notin DuplicateEmails(rows)
    BY <1>2 DEF Clean, Passes
  <2>2. j \in DOMAIN rows \ {i}
    BY <1>2
  <2> QED  BY <2>1, <2>2 DEF DuplicateEmails
<1> QED  BY <1>1, <1>2 DEF Clean, Separate

\* The body of AppliedWhole.
Whole(before, rows, after, counts) ==
    LET included == {i \in DOMAIN rows : rows[i].included}
    IN  /\ \A i \in included : \E g \in MatchOf(rows[i].email, after) :
               ~ProtectedFieldChanged(rows[i], after[g])
        /\ \A g \in DOMAIN after :
               (\A i \in included : rows[i].email # after[g].email) =>
                   g \in DOMAIN before /\ after[g] = before[g]
        /\ counts.created = Cardinality(DOMAIN after \ DOMAIN before)
        /\ counts.updated = Cardinality({g \in DOMAIN before : after[g] # before[g]})
        /\ counts.unchanged = Cardinality(included) - counts.created - counts.updated
        /\ counts.skipped = Len(rows) - Cardinality(included)

LEMMA AppliedIsWhole ==
    ASSUME NEW before, NEW rows, Clean(before, rows)
    PROVE  /\ Whole(before, rows, Applied(rows, before).roster, Applied(rows, before).counts)
           /\ Applied(rows, before).roster \in Rosters /\ Applied(rows, before).counts \in Counts
           /\ \A i \in DOMAIN rows : rows[i].included =>
                 \E g \in MatchOf(rows[i].email, Applied(rows, before).roster) :
                    LET after == Applied(rows, before).roster
                    IN  /\ ~ProtectedFieldChanged(rows[i], after[g])
                        /\ Imported(after[g], rows[i]) = after[g]
<1> DEFINE acc == Applied(rows, before)
           after == acc.roster
           L == Len(rows)
           included == {i \in DOMAIN rows : rows[i].included}
<1>1. Separate(before, rows) /\ LoopInv(before, rows, L, acc)
  BY CleanSeparates, LoopEnds
<1>2. /\ acc \in Reached(before) /\ after \in Rosters /\ acc.counts \in Counts
      /\ DOMAIN before \subseteq DOMAIN after
      /\ KnownAre(before, rows, L, after) /\ NewAre(before, rows, L, after)
      /\ RowsAreIn(before, rows, L, after) /\ Tallied(before, rows, L, acc)
  BY <1>1, ReachedIs DEF LoopInv
<1>3. /\ L \in Nat /\ DOMAIN rows = 1..L /\ included = Included(rows, L)
      /\ \A i \in DOMAIN rows : rows[i] \in Row
      /\ \A i \in DOMAIN rows : rows[i].included => rows[i].email # None /\ rows[i].tee # None
  BY DEF Clean, Included, Passes
<1>4. after = acc.roster
  OBVIOUS
<1> HIDE DEF acc, after, L, included
<1>5. ASSUME NEW i \in DOMAIN rows, rows[i].included
      PROVE  \E g \in MatchOf(rows[i].email, after) :
                ~ProtectedFieldChanged(rows[i], after[g]) /\ Imported(after[g], rows[i]) = after[g]
  <2>1. PICK g \in DOMAIN after :
           \/ g \in MatchOf(rows[i].email, before) /\ after[g] = Imported(before[g], rows[i])
           \/ /\ g \notin DOMAIN before /\ MatchOf(rows[i].email, before) = {}
              /\ after[g] = NewGolfer(rows[i])
    BY <1>2, <1>3, <1>5 DEF RowsAreIn
  <2>2. /\ ~ProtectedFieldChanged(rows[i], after[g]) /\ Imported(after[g], rows[i]) = after[g]
        /\ after[g].email = rows[i].email
    BY <1>3, <1>5, <2>1, ImportedAsRow, NewAsRow DEF MatchOf
  <2>3. g \in MatchOf(rows[i].email, after)
    BY <1>3, <1>5, <2>1, <2>2 DEF MatchOf
  <2> QED  BY <2>2, <2>3
<1>6. ASSUME NEW g \in DOMAIN after, \A i \in included : rows[i].email # after[g].email
      PROVE  g \in DOMAIN before /\ after[g] = before[g]
  <2>1. ASSUME g \notin DOMAIN before PROVE FALSE
    <3>1. PICK i \in 1..L : rows[i].included /\ after[g] = NewGolfer(rows[i])
      BY <1>2, <2>1 DEF NewAre
    <3>2. i \in included /\ after[g].email = rows[i].email
      BY <1>3, <3>1, NewAsRow DEF Included
    <3> QED  BY <1>6, <3>2
  <2>2. ASSUME NEW i \in 1..L, Hits(before, rows[i], g), after[g] = Imported(before[g], rows[i])
        PROVE  FALSE
    <3>1. i \in included /\ after[g].email = before[g].email /\ before[g].email = rows[i].email
      BY <1>3, <2>2, ImportedAsRow DEF Hits, MatchOf, Included
    <3> QED  BY <1>6, <3>1
  <2> QED  BY <1>2, <2>1, <2>2 DEF KnownAre
<1>7. /\ acc.counts.created = Cardinality(DOMAIN after \ DOMAIN before)
      /\ acc.counts.updated = Cardinality({g \in DOMAIN before : after[g] # before[g]})
      /\ acc.counts.unchanged
            = Cardinality(included) - acc.counts.created - acc.counts.updated
      /\ acc.counts.skipped = L - Cardinality(included)
  <2>1. /\ acc.counts.created \in Nat /\ acc.counts.updated \in Nat
        /\ acc.counts.unchanged \in Nat /\ acc.counts.skipped \in Nat
    BY <1>2, CountedUp
  <2>2. Cardinality(included) \in Nat
    BY <1>3, OneMoreRow
  <2>3. /\ acc.counts.created = Cardinality(DOMAIN after \ DOMAIN before)
        /\ acc.counts.updated = Cardinality(Changed(before, after))
        /\ acc.counts.created + acc.counts.updated + acc.counts.unchanged
              = Cardinality(included)
        /\ Cardinality(included) + acc.counts.skipped = L
    BY <1>2, <1>3, <1>4 DEF Tallied
  <2>4. /\ acc.counts.unchanged
              = Cardinality(included) - acc.counts.created - acc.counts.updated
        /\ acc.counts.skipped = L - Cardinality(included)
    BY <1>3, <2>1, <2>2, <2>3, SMTT(30)
  <2> QED  BY <2>3, <2>4 DEF Changed
<1>8. Whole(before, rows, after, acc.counts)
  <2>1. \A i \in included : \E g \in MatchOf(rows[i].email, after) :
               ~ProtectedFieldChanged(rows[i], after[g])
    BY <1>5 DEF included
  <2> QED  BY <1>6, <1>7, <2>1 DEF Whole, included, L
<1> QED  BY <1>2, <1>5, <1>8 DEF acc, after

\* What is protected of a golfer only changes by a row that is opted in.
LEMMA AppliedProtects ==
    ASSUME NEW before, NEW rows, Clean(before, rows), NEW g \in DOMAIN before,
           Protected(Applied(rows, before).roster[g]) # Protected(before[g])
    PROVE  \E i \in DOMAIN rows :
              rows[i].included /\ rows[i].optIn /\ rows[i].email = before[g].email
<1> DEFINE acc == Applied(rows, before)
           after == acc.roster
           L == Len(rows)
<1>1. LoopInv(before, rows, L, acc)
  BY CleanSeparates, LoopEnds
<1>2. KnownAre(before, rows, L, after)
  BY <1>1 DEF LoopInv
<1>3. DOMAIN rows = 1..L /\ \A i \in DOMAIN rows : rows[i].included => Passes(rows[i], rows, before)
  BY DEF Clean
<1> HIDE DEF acc, after, L
<1>4. after[g] # before[g]
  BY DEF acc, after
<1>5. PICK i \in 1..L : Hits(before, rows[i], g) /\ after[g] = Imported(before[g], rows[i])
  BY <1>2, <1>4 DEF KnownAre
<1>6. /\ rows[i].included /\ g \in MatchOf(rows[i].email, before)
      /\ rows[i].email = before[g].email /\ Passes(rows[i], rows, before)
  BY <1>3, <1>5 DEF Hits, MatchOf
<1>7. rows[i].optIn
  <2> SUFFICES ASSUME ~rows[i].optIn PROVE FALSE
    OBVIOUS
  <2>1. ~ProtectedFieldChanged(rows[i], before[g]) /\ rows[i].tee # None
    BY <1>6 DEF Passes
  <2>2. Protected(after[g]) = Protected(before[g])
    BY <1>5, <2>1, UnchangedByRow
  <2> QED  BY <2>2 DEF acc, after
<1> QED  BY <1>3, <1>5, <1>6, <1>7

\* Importing the same rows once more: no opt-in is needed, and nothing changes.
LEMMA AppliedAgain ==
    ASSUME NEW before, NEW rows, Clean(before, rows),
           EmailsUnique(Applied(rows, before).roster)
    PROVE  /\ \A i \in DOMAIN rows : rows[i].included =>
                 ~\E g \in MatchOf(rows[i].email, Applied(rows, before).roster) :
                     ProtectedFieldChanged(rows[i], Applied(rows, before).roster[g])
           /\ Applied(rows, Applied(rows, before).roster).roster = Applied(rows, before).roster
<1> DEFINE after == Applied(rows, before).roster
           acc == Applied(rows, after)
           again == acc.roster
           L == Len(rows)
<1>1. /\ after \in Rosters
      /\ \A i \in DOMAIN rows : rows[i].included => \E g \in MatchOf(rows[i].email, after) :
            ~ProtectedFieldChanged(rows[i], after[g]) /\ Imported(after[g], rows[i]) = after[g]
  BY AppliedIsWhole
<1>2. EmailsUnique(after)
  OBVIOUS
<1>3. DOMAIN rows = 1..L /\ L \in Nat
  BY DEF Clean
<1> HIDE DEF after
<1>4. Separate(after, rows)
  BY <1>1, <1>2, CleanSeparates DEF Separate
<1>5. LoopInv(after, rows, L, acc)
  BY <1>4, LoopEnds
<1>6. /\ again \in Rosters /\ DOMAIN after \subseteq DOMAIN again
      /\ KnownAre(after, rows, L, again) /\ NewAre(after, rows, L, again)
  BY <1>5, ReachedIs DEF LoopInv
<1> HIDE DEF acc, again, L
<1>7. ASSUME NEW i \in DOMAIN rows, rows[i].included, NEW g \in MatchOf(rows[i].email, after)
      PROVE  ~ProtectedFieldChanged(rows[i], after[g]) /\ Imported(after[g], rows[i]) = after[g]
  <2>1. \A h \in MatchOf(rows[i].email, after) : h = g
    BY <1>4, OneMatch
  <2> QED  BY <1>1, <1>7, <2>1
<1>8. DOMAIN again = DOMAIN after
  <2>1. ASSUME NEW g \in DOMAIN again \ DOMAIN after PROVE FALSE
    <3>1. PICK i \in 1..L : rows[i].included /\ MatchOf(rows[i].email, after) = {}
      BY <1>6 DEF NewAre
    <3> QED  BY <1>1, <1>3, <3>1
  <2> QED  BY <1>6, <2>1
<1>9. ASSUME NEW g \in DOMAIN after PROVE again[g] = after[g]
  <2>1. CASE \E i \in 1..L : Hits(after, rows[i], g) /\ again[g] = Imported(after[g], rows[i])
    BY <1>3, <1>7, <2>1 DEF Hits
  <2>2. CASE again[g] = after[g]
    BY <2>2
  <2> QED  BY <1>6, <2>1, <2>2 DEF KnownAre
<1>10. again = after
  <2>1. again \in [DOMAIN again -> Golfer] /\ after \in [DOMAIN after -> Golfer]
    BY <1>1, <1>6, RosterIs
  <2> QED  BY <1>8, <1>9, <2>1
<1>11. \A i \in DOMAIN rows : rows[i].included =>
          ~\E g \in MatchOf(rows[i].email, after) : ProtectedFieldChanged(rows[i], after[g])
  BY <1>7
<1> QED  BY <1>10, <1>11 DEF after, acc, again

\* The body of ReimportIsClean.
LEMMA AppliedPassesAgain ==
    ASSUME NEW before, NEW rows, Clean(before, rows),
           EmailsUnique(Applied(rows, before).roster), NEW i \in DOMAIN rows, rows[i].included
    PROVE  ValidationCode([rows[i] EXCEPT !.optIn = FALSE], rows, Applied(rows, before).roster) = None
<1> DEFINE after == Applied(rows, before).roster
           row == [rows[i] EXCEPT !.optIn = FALSE]
<1>1. rows[i] \in Row /\ Passes(rows[i], rows, before)
  BY DEF Clean
<1>2. ~\E g \in MatchOf(rows[i].email, after) : ProtectedFieldChanged(rows[i], after[g])
  BY AppliedAgain
<1> HIDE DEF after
<1>3. /\ row.optIn = FALSE /\ row.first = rows[i].first /\ row.last = rows[i].last
      /\ row.email = rows[i].email /\ row.phone = rows[i].phone /\ row.tee = rows[i].tee
      /\ row.handicap = rows[i].handicap /\ row.error = rows[i].error
  BY <1>1 DEF Row
<1> HIDE DEF row
<1>4. \A g : ProtectedFieldChanged(row, after[g]) <=> ProtectedFieldChanged(rows[i], after[g])
  BY <1>3 DEF ProtectedFieldChanged
<1>5. Passes(row, rows, after)
  BY <1>1, <1>2, <1>3, <1>4 DEF Passes
<1>6. row.optIn \in BOOLEAN
  BY <1>3
<1>7. ValidationCode(row, rows, after) = None
  BY <1>5, <1>6, CodeOfRow
<1> QED  BY <1>7 DEF row, after

-----------------------------------------------------------------------------
(* The invariant.                                                           *)

RosterInv == golfers \in Rosters /\ EmailsUnique(golfers)

\* Every batch holds rows of their kind; while it is staged, addresses that are shared
\* are in error.
BatchesInv ==
    /\ batches \in [DOMAIN batches -> Batch]
    /\ DOMAIN batches \subseteq Nat \ {0} /\ IsFiniteSet(DOMAIN batches)
    /\ \A id \in DOMAIN batches :
          /\ RowsOK(batches[id].rows)
          /\ batches[id].state = "staged" => Caught(batches[id].rows)

\* A page whose batch was not purged is of a version the batch had, and of the version
\* it has only as long as it shows its rows.
PagesInv ==
    /\ tabs \in [Tabs -> Page \cup {Absent}]
    /\ \A t \in Tabs : tabs[t] # Absent /\ ~tabs[t].gone =>
          /\ tabs[t].id \in DOMAIN batches /\ tabs[t].version <= batches[tabs[t].id].version
          /\ tabs[t].version = batches[tabs[t].id].version =>
                tabs[t].rows = batches[tabs[t].id].rows

IInv == RosterInv /\ BatchesInv /\ PagesInv /\ AppliedAsReviewed /\ work \in 0..MaxWork

\* The bodies of FinalStaysFinal, ProtectedByOptIn, AppliedWhole and ReimportIsClean.
StepFinal ==
    \A id \in DOMAIN batches \cap DOMAIN batches' : batches[id].state # "staged" =>
        batches'[id] = [batches[id] EXCEPT !.expired = batches'[id].expired]
StepProtects(id) ==
    \A g \in DOMAIN golfers : Protected(golfers'[g]) # Protected(golfers[g]) =>
        \E i \in DOMAIN batches[id].rows :
            LET row == batches[id].rows[i]
            IN  row.included /\ row.optIn /\ row.email = golfers[g].email
StepWhole(id) == Whole(golfers, batches'[id].rows, golfers', batches'[id].counts)
StepClean(id) ==
    LET rows == batches'[id].rows
    IN  /\ \A i \in DOMAIN rows : rows[i].included =>
               ValidationCode([rows[i] EXCEPT !.optIn = FALSE], rows, golfers') = None
        /\ Applied(rows, golfers').roster = golfers'
StepHolds ==
    /\ StepFinal
    /\ \A id \in DOMAIN batches : Applies(id) => StepProtects(id) /\ StepWhole(id) /\ StepClean(id)

LEMMA BatchTyped ==
    ASSUME NEW b \in Batch
    PROVE  /\ b.state \in {"staged", "applied", "discarded"} /\ b.version \in Nat \ {0}
           /\ b.rows \in Seq(Row) /\ b.counts \in Counts /\ b.expired \in BOOLEAN
           /\ b.by \in Page \cup {Absent}
BY DEF Batch

LEMMA PageTyped ==
    ASSUME NEW p \in Page
    PROVE  /\ p.id \in Nat \ {0} /\ p.version \in Nat \ {0} /\ p.rows \in Seq(Row)
           /\ p.gone \in BOOLEAN
BY DEF Page

SameReview(rows, shown) ==
    /\ Len(rows) = Len(shown)
    /\ \A i \in DOMAIN rows : Reviewed(rows[i]) = Reviewed(shown[i])

LEMMA ReviewedSame ==
    AppliedAsReviewed <=> \A id \in DOMAIN batches :
        batches[id].state = "applied" /\ ~batches[id].by.gone =>
            SameReview(batches[id].rows, batches[id].by.rows)
BY DEF AppliedAsReviewed, SameReview

\* One batch changes as a later version, or keeps its rows.
LEMMA BatchChanged ==
    ASSUME IInv, NEW id \in DOMAIN batches, NEW b \in Batch, RowsOK(b.rows),
           b.state = "staged" => Caught(b.rows),
           \/ b.version = batches[id].version + 1
           \/ b.version = batches[id].version /\ b.rows = batches[id].rows,
           b.state = "applied" /\ ~b.by.gone => SameReview(b.rows, b.by.rows),
           batches' = [batches EXCEPT ![id] = b], tabs' = tabs
    PROVE  /\ BatchesInv' /\ PagesInv' /\ AppliedAsReviewed'
           /\ DOMAIN batches' = DOMAIN batches /\ batches'[id] = b
           /\ \A k \in DOMAIN batches : k # id => batches'[k] = batches[k]
<1>1. /\ batches \in [DOMAIN batches -> Batch]
      /\ DOMAIN batches \subseteq Nat \ {0} /\ IsFiniteSet(DOMAIN batches)
      /\ \A k \in DOMAIN batches :
            RowsOK(batches[k].rows) /\ (batches[k].state = "staged" => Caught(batches[k].rows))
  BY DEF IInv, BatchesInv
<1>2. /\ DOMAIN batches' = DOMAIN batches /\ batches'[id] = b
      /\ \A k \in DOMAIN batches : k # id => batches'[k] = batches[k]
      /\ batches' \in [DOMAIN batches' -> Batch]
  BY <1>1
<1>3. BatchesInv'
  <2>1. \A k \in DOMAIN batches' :
           RowsOK(batches'[k].rows) /\ (batches'[k].state = "staged" => Caught(batches'[k].rows))
    BY <1>1, <1>2
  <2>2. (\A k \in DOMAIN batches : /\ RowsOK(batches[k].rows)
                                   /\ batches[k].state = "staged" => Caught(batches[k].rows))'
    BY <2>1 DEF RowsOK, Caught
  <2> QED  BY <1>1, <1>2, <2>2 DEF BatchesInv
<1>4. PagesInv'
  <2>1. tabs' \in [Tabs -> Page \cup {Absent}]
    BY DEF IInv, PagesInv
  <2>2. ASSUME NEW t \in Tabs, tabs[t] # Absent /\ ~tabs[t].gone
        PROVE  /\ tabs[t].id \in DOMAIN batches' /\ tabs[t].version <= batches'[tabs[t].id].version
               /\ tabs[t].version = batches'[tabs[t].id].version =>
                     tabs[t].rows = batches'[tabs[t].id].rows
    <3>1. /\ tabs[t].id \in DOMAIN batches /\ tabs[t].version <= batches[tabs[t].id].version
          /\ tabs[t].version = batches[tabs[t].id].version =>
                tabs[t].rows = batches[tabs[t].id].rows
      BY <2>2 DEF IInv, PagesInv
    <3>2. tabs[t].version \in Nat /\ batches[tabs[t].id].version \in Nat
      <4>1. tabs[t] \in Page /\ batches[tabs[t].id] \in Batch
        BY <1>1, <2>2, <3>1 DEF IInv, PagesInv
      <4> QED  BY <4>1, PageTyped, BatchTyped
    <3>3. CASE tabs[t].id = id
      BY <1>2, <3>1, <3>2, <3>3
    <3>4. CASE tabs[t].id # id
      BY <1>2, <3>1, <3>4
    <3> QED  BY <3>3, <3>4
  <2> QED  BY <2>1, <2>2 DEF PagesInv
<1>5. AppliedAsReviewed'
  <2>1. \A k \in DOMAIN batches : batches[k].state = "applied" /\ ~batches[k].by.gone =>
           SameReview(batches[k].rows, batches[k].by.rows)
    BY ReviewedSame DEF IInv
  <2>2. \A k \in DOMAIN batches' : batches'[k].state = "applied" /\ ~batches'[k].by.gone =>
           SameReview(batches'[k].rows, batches'[k].by.rows)
    BY <1>2, <2>1
  <2> QED  BY <2>2 DEF AppliedAsReviewed, SameReview
<1> QED  BY <1>2, <1>3, <1>4, <1>5

\* A batch that is not staged only grows old, and nothing is applied.
LEMMA NothingApplied ==
    ASSUME IInv, \A id \in DOMAIN batches \cap DOMAIN batches' :
              \/ batches'[id] = batches[id]
              \/ batches[id].state = "staged" /\ batches'[id].state # "applied"
              \/ batches'[id] = [batches[id] EXCEPT !.expired = TRUE]
    PROVE  StepHolds
<1>1. \A id \in DOMAIN batches : batches[id] \in Batch
  BY DEF IInv, BatchesInv
<1>2. StepFinal
  <2> SUFFICES ASSUME NEW id \in DOMAIN batches \cap DOMAIN batches', batches[id].state # "staged"
      PROVE  batches'[id] = [batches[id] EXCEPT !.expired = batches'[id].expired]
    BY DEF StepFinal
  <2> DEFINE b == batches[id]
             c == batches'[id]
  <2>1. b \in Batch /\ (c = b \/ c = [b EXCEPT !.expired = TRUE])
    BY <1>1
  <2> HIDE DEF b, c
  <2>2. c = [b EXCEPT !.expired = c.expired]
    BY <2>1 DEF Batch
  <2> QED  BY <2>2 DEF b, c
<1>3. ASSUME NEW id \in DOMAIN batches, Applies(id) PROVE FALSE
  <2>1. /\ batches[id].state = "staged" /\ id \in DOMAIN batches'
        /\ batches'[id].state = "applied"
    BY <1>3 DEF Applies, Staged
  <2>2. batches'[id] = [batches[id] EXCEPT !.expired = TRUE]
    BY <2>1
  <2>3. batches'[id].state = batches[id].state
    BY <1>1, <2>2 DEF Batch
  <2> QED  BY <2>1, <2>3
<1> QED  BY <1>2, <1>3 DEF StepHolds

-----------------------------------------------------------------------------
(* The steps.                                                               *)

LEMMA BatchSaved ==
    ASSUME NEW old \in Batch, NEW rows \in Seq(Row)
    PROVE  LET b == [old EXCEPT !.version = @ + 1, !.rows = rows]
           IN  /\ b \in Batch /\ b.state = old.state /\ b.rows = rows
               /\ b.version = old.version + 1 /\ b.by = old.by
<1>1. old.version + 1 \in Nat \ {0}
  BY BatchTyped
<1> QED  BY <1>1 DEF Batch

LEMMA BatchOf ==
    ASSUME IInv, NEW id \in DOMAIN batches
    PROVE  /\ batches[id] \in Batch /\ RowsOK(batches[id].rows) /\ id \in Nat \ {0}
           /\ batches[id].state = "staged" => Caught(batches[id].rows)
           /\ batches[id].state = "applied" /\ ~batches[id].by.gone =>
                 SameReview(batches[id].rows, batches[id].by.rows)
BY ReviewedSame DEF IInv, BatchesInv

LEMMA RowReplaced ==
    ASSUME NEW rows, RowsOK(rows), NEW i \in DOMAIN rows, NEW row \in Row,
           row.email \notin DOMAIN LowerCase
    PROVE  RowsOK([rows EXCEPT ![i] = row])
<1> DEFINE new == [rows EXCEPT ![i] = row]
<1>1. rows \in Seq(Row) /\ \A j \in DOMAIN rows : rows[j].email \notin DOMAIN LowerCase
  BY DEF RowsOK
<1>2. /\ new \in Seq(Row) /\ DOMAIN new = DOMAIN rows /\ new[i] = row
      /\ \A j \in DOMAIN rows : j # i => new[j] = rows[j]
  BY <1>1
<1> HIDE DEF new
<1>3. \A j \in DOMAIN new : new[j].email \notin DOMAIN LowerCase
  BY <1>1, <1>2
<1>4. RowsOK(new)
  BY <1>2, <1>3 DEF RowsOK
<1> QED  BY <1>4 DEF new

LEMMA SaveRowKeeps ==
    ASSUME IInv, NEW t \in Tabs, NEW i, NEW values, NEW clears \in BOOLEAN,
           Shown(t, i), work < MaxWork,
           values.first \in Texts, values.last \in Texts, values.email \in Texts,
           values.phone \in Texts, values.included \in BOOLEAN, values.optIn \in BOOLEAN,
           SaveRow(t, i, values, clears)
    PROVE  IInv' /\ StepHolds
<1> DEFINE id == tabs[t].id
           batch == batches[id]
           row == batch.rows[i]
           saved == Saved(row, values, clears)
           rows == [batch.rows EXCEPT ![i] = saved]
           new == Revalidated(rows, golfers)
           b == [batch EXCEPT !.version = @ + 1, !.rows = new]
<1>1. id \in DOMAIN batches /\ batch.state = "staged" /\ i \in DOMAIN batch.rows
  BY DEF Shown, Current, Staged
<1>2. batch \in Batch /\ RowsOK(batch.rows)
  BY <1>1, BatchOf
<1>3. saved \in Row /\ saved.email \notin DOMAIN LowerCase
  <2>1. row \in Row
    BY <1>1, <1>2 DEF RowsOK
  <2>2. values.tee \in Tees \cup {None} /\ values.handicap \in Numbers \cup {None}
    BY DEF SaveRow, ValidHandicap
  <2> QED  BY <2>1, <2>2, SavedRowTyped
<1>4. batches' = [batches EXCEPT ![id] = b] /\ work' = work + 1 /\ golfers' = golfers /\ tabs' = tabs
  <2>1. work' = work + 1 /\ golfers' = golfers /\ tabs' = tabs
    BY DEF SaveRow
  <2>2. batches' = [batches EXCEPT ![id] = b]
    BY DEF SaveRow
  <2> QED  BY <2>1, <2>2
<1> HIDE DEF saved
<1>5. RowsOK(rows)
  BY <1>1, <1>2, <1>3, RowReplaced
<1> HIDE DEF rows
<1>6. RowsOK(new) /\ Caught(new) /\ new \in Seq(Row)
  BY <1>5, RevalidatedHolds DEF RowsOK
<1> HIDE DEF new
<1>7. b \in Batch /\ b.state = "staged" /\ b.rows = new /\ b.version = batch.version + 1
  BY <1>1, <1>2, <1>6, BatchSaved
<1> HIDE DEF b, batch
<1>8. /\ BatchesInv' /\ PagesInv' /\ AppliedAsReviewed'
      /\ DOMAIN batches' = DOMAIN batches /\ batches'[id] = b
      /\ \A k \in DOMAIN batches : k # id => batches'[k] = batches[k]
  <2>1. /\ b.state = "applied" /\ ~b.by.gone => SameReview(b.rows, b.by.rows)
        /\ b.version = batches[id].version + 1
        /\ RowsOK(b.rows) /\ (b.state = "staged" => Caught(b.rows))
    BY <1>6, <1>7 DEF batch
  <2> HIDE DEF id
  <2> QED  BY <1>1, <1>4, <1>7, <2>1, BatchChanged
<1>9. RosterInv' /\ work' \in 0..MaxWork
  <2>1. work \in Nat /\ MaxWork \in Nat /\ work \in 0..MaxWork
    BY ImportsAssumption DEF IInv, ImportsAssumption
  <2> QED  BY <1>4, <2>1 DEF IInv, RosterInv
<1>10. StepHolds
  <2>1. \A k \in DOMAIN batches \cap DOMAIN batches' :
           \/ batches'[k] = batches[k]
           \/ batches[k].state = "staged" /\ batches'[k].state # "applied"
    BY <1>1, <1>7, <1>8 DEF batch
  <2> QED  BY <2>1, NothingApplied
<1> QED  BY <1>8, <1>9, <1>10 DEF IInv

LEMMA ShownRows ==
    ASSUME IInv, NEW t \in Tabs, NEW i, Shown(t, i)
    PROVE  /\ tabs[t] \in Page /\ tabs[t].rows[i] \in Row
           /\ tabs[t].id \in DOMAIN batches /\ batches[tabs[t].id].rows[i] \in Row
<1>1. /\ tabs[t] # Absent /\ tabs[t].id \in DOMAIN batches
      /\ i \in DOMAIN tabs[t].rows /\ i \in DOMAIN batches[tabs[t].id].rows
  BY DEF Shown, Current, Staged
<1>2. tabs[t] \in Page
  BY <1>1 DEF IInv, PagesInv
<1>3. tabs[t].rows \in Seq(Row) /\ batches[tabs[t].id].rows \in Seq(Row)
  BY <1>1, <1>2, PageTyped, BatchOf DEF RowsOK
<1> QED  BY <1>1, <1>2, <1>3

LEMMA TypedFields ==
    ASSUME NEW row \in Row, NEW typed \in Retyped
    PROVE  LET values == Typed(typed, row)
           IN  /\ values.first \in Texts /\ values.last \in Texts /\ values.email \in Texts
               /\ values.phone \in Texts /\ values.included \in BOOLEAN
               /\ values.optIn \in BOOLEAN
<1> DEFINE fields == {"version", "first", "last", "email", "phone", "tee", "handicap", "cell",
                      "included", "optIn", "error"}
           values == Typed(typed, row)
<1>1. DOMAIN row = fields
  BY DEF Row
<1>2. \A f \in fields : values[f] = IF f \in DOMAIN typed THEN typed[f] ELSE row[f]
  BY <1>1 DEF Typed
<1>3. \A f \in DOMAIN typed :
         /\ f \in {"included", "optIn"} => typed[f] \in BOOLEAN
         /\ f \notin {"included", "optIn"} => typed[f] \in Texts
  BY InputsAssumption DEF InputsAssumption
<1>4. /\ row.first \in Texts /\ row.last \in Texts /\ row.email \in Texts /\ row.phone \in Texts
      /\ row.included \in BOOLEAN /\ row.optIn \in BOOLEAN
  BY RowTyped
<1> HIDE DEF values
<1>5. values["first"] \in Texts /\ values["last"] \in Texts
  BY <1>2, <1>3, <1>4
<1>6. values["email"] \in Texts /\ values["phone"] \in Texts
  BY <1>2, <1>3, <1>4
<1>7. values["included"] \in BOOLEAN
  BY <1>2, <1>3, <1>4
<1>8. values["optIn"] \in BOOLEAN
  BY <1>2, <1>3, <1>4
<1> QED  BY <1>5, <1>6, <1>7, <1>8 DEF values

LEMMA EditRowKeeps ==
    ASSUME IInv, NEW t \in Tabs, NEW i, NEW typed \in Retyped, EditRow(t, i, typed)
    PROVE  IInv' /\ StepHolds
<1> DEFINE values == Typed(typed, tabs[t].rows[i])
<1>1. Shown(t, i) /\ work < MaxWork /\ SaveRow(t, i, values, TRUE)
  BY DEF EditRow
<1>2. tabs[t].rows[i] \in Row
  BY <1>1, ShownRows
<1>3. /\ values.first \in Texts /\ values.last \in Texts /\ values.email \in Texts
      /\ values.phone \in Texts /\ values.included \in BOOLEAN /\ values.optIn \in BOOLEAN
  BY <1>2, TypedFields
<1> HIDE DEF values
<1> QED  BY <1>1, <1>3, SaveRowKeeps

LEMMA SwapNamesKeeps ==
    ASSUME IInv, NEW t \in Tabs, NEW i, SwapNames(t, i)
    PROVE  IInv' /\ StepHolds
<1> DEFINE row == batches[tabs[t].id].rows[i]
           values == [row EXCEPT !.first = row.last, !.last = row.first]
<1>1. Shown(t, i) /\ work < MaxWork /\ SaveRow(t, i, values, FALSE)
  BY DEF SwapNames
<1>2. row \in Row
  BY <1>1, ShownRows
<1> HIDE DEF row
<1>3. /\ values.first \in Texts /\ values.last \in Texts /\ values.email \in Texts
      /\ values.phone \in Texts /\ values.included \in BOOLEAN /\ values.optIn \in BOOLEAN
  BY <1>2 DEF Row
<1> HIDE DEF values
<1> QED  BY <1>1, <1>3, SaveRowKeeps

LEMMA AcceptKeeps ==
    ASSUME IInv, NEW t \in Tabs, NEW i, AcceptDomainSuggestion(t, i)
    PROVE  IInv' /\ StepHolds
<1> DEFINE row == batches[tabs[t].id].rows[i]
           values == [row EXCEPT !.email = NearMiss[row.email]]
<1>1. /\ Shown(t, i) /\ work < MaxWork /\ row.email \in DOMAIN NearMiss
      /\ SaveRow(t, i, values, FALSE)
  BY DEF AcceptDomainSuggestion
<1>2. row \in Row
  BY <1>1, ShownRows
<1>3. NearMiss[row.email] \in Texts
  BY <1>1, InputsAssumption DEF InputsAssumption
<1> HIDE DEF row
<1>4. /\ values.first \in Texts /\ values.last \in Texts /\ values.email \in Texts
      /\ values.phone \in Texts /\ values.included \in BOOLEAN /\ values.optIn \in BOOLEAN
  BY <1>2, <1>3 DEF Row
<1> HIDE DEF values
<1> QED  BY <1>1, <1>4, SaveRowKeeps

LEMMA SameRoster ==
    ASSUME IInv, golfers' = golfers, work' = work
    PROVE  RosterInv' /\ work' \in 0..MaxWork
BY DEF IInv, RosterInv

LEMMA DiscardKeeps ==
    ASSUME IInv, NEW t \in Tabs, Discard(t)
    PROVE  IInv' /\ StepHolds
<1> DEFINE id == tabs[t].id
           batch == batches[id]
           b == [batch EXCEPT !.state = "discarded", !.version = @ + 1]
<1>1. /\ id \in DOMAIN batches /\ batch.state = "staged" /\ batches' = [batches EXCEPT ![id] = b]
      /\ golfers' = golfers /\ tabs' = tabs /\ work' = work
  BY DEF Discard, Current, Staged
<1>2. batch \in Batch /\ RowsOK(batch.rows)
  BY <1>1, BatchOf
<1>3. batch.version + 1 \in Nat \ {0}
  BY <1>2, BatchTyped
<1>4. batch = batches[id]
  OBVIOUS
<1> HIDE DEF batch
<1>5. /\ b \in Batch /\ b.state = "discarded" /\ b.rows = batch.rows
      /\ b.version = batch.version + 1
  BY <1>2, <1>3 DEF Batch
<1> HIDE DEF b
<1>6. /\ RowsOK(b.rows) /\ (b.state = "staged" => Caught(b.rows))
      /\ b.version = batches[id].version + 1
      /\ b.state = "applied" /\ ~b.by.gone => SameReview(b.rows, b.by.rows)
  BY <1>2, <1>4, <1>5
<1> HIDE DEF id
<1>7. /\ BatchesInv' /\ PagesInv' /\ AppliedAsReviewed'
      /\ DOMAIN batches' = DOMAIN batches /\ batches'[id] = b
      /\ \A k \in DOMAIN batches : k # id => batches'[k] = batches[k]
  BY <1>1, <1>5, <1>6, BatchChanged
<1>8. \A k \in DOMAIN batches \cap DOMAIN batches' :
         \/ batches'[k] = batches[k]
         \/ batches[k].state = "staged" /\ batches'[k].state # "applied"
  BY <1>1, <1>4, <1>5, <1>7
<1>9. StepHolds
  BY <1>8, NothingApplied
<1>10. RosterInv' /\ work' \in 0..MaxWork
  BY <1>1, SameRoster
<1> QED  BY <1>7, <1>9, <1>10 DEF IInv

LEMMA OpenKeeps ==
    ASSUME IInv, NEW t \in Tabs, NEW id \in DOMAIN batches, Open(t, id)
    PROVE  IInv' /\ StepHolds
<1> DEFINE page == [id |-> id, version |-> batches[id].version, rows |-> batches[id].rows,
                    gone |-> FALSE]
<1>1. tabs' = [tabs EXCEPT ![t] = page] /\ UNCHANGED <<golfers, batches, work>>
  BY DEF Open
<1>2. id \in Nat \ {0} /\ batches[id].version \in Nat \ {0} /\ batches[id].rows \in Seq(Row)
  BY BatchOf, BatchTyped
<1>3. /\ page \in Page /\ page.id = id /\ page.version = batches[id].version
      /\ page.rows = batches[id].rows
  BY <1>2 DEF Page
<1> HIDE DEF page
<1>4. PagesInv'
  <2>1. tabs \in [Tabs -> Page \cup {Absent}]
    BY DEF IInv, PagesInv
  <2>2. tabs' \in [Tabs -> Page \cup {Absent}] /\ tabs'[t] = page
        /\ \A u \in Tabs : u # t => tabs'[u] = tabs[u]
    BY <1>1, <1>3, <2>1
  <2>3. ASSUME NEW u \in Tabs, tabs'[u] # Absent /\ ~tabs'[u].gone
        PROVE  /\ tabs'[u].id \in DOMAIN batches /\ tabs'[u].version <= batches[tabs'[u].id].version
               /\ tabs'[u].version = batches[tabs'[u].id].version =>
                     tabs'[u].rows = batches[tabs'[u].id].rows
    <3>1. CASE u = t
      BY <1>2, <1>3, <2>2, <3>1
    <3>2. CASE u # t
      BY <2>2, <2>3, <3>2 DEF IInv, PagesInv
    <3> QED  BY <3>1, <3>2
  <2> QED  BY <1>1, <2>2, <2>3 DEF PagesInv
<1>5. BatchesInv' /\ AppliedAsReviewed' /\ RosterInv' /\ work' \in 0..MaxWork
  BY <1>1 DEF IInv, BatchesInv, RowsOK, Caught, AppliedAsReviewed, RosterInv
<1>6. StepHolds
  BY <1>1, NothingApplied
<1> QED  BY <1>4, <1>5, <1>6 DEF IInv

LEMMA GrowOldKeeps ==
    ASSUME IInv, NEW id \in DOMAIN batches, GrowOld(id)
    PROVE  IInv' /\ StepHolds
<1> DEFINE b == [batches[id] EXCEPT !.expired = TRUE]
<1>1. /\ batches' = [batches EXCEPT ![id].expired = TRUE]
      /\ golfers' = golfers /\ tabs' = tabs /\ work' = work
  BY DEF GrowOld
<1>2. batches' = [batches EXCEPT ![id] = b]
  BY <1>1
<1>3. batches[id] \in Batch
  BY BatchOf
<1>4. /\ b \in Batch /\ b.state = batches[id].state /\ b.version = batches[id].version
      /\ b.rows = batches[id].rows /\ b.by = batches[id].by
  BY <1>3 DEF Batch
<1>5. b = [batches[id] EXCEPT !.expired = TRUE]
  OBVIOUS
<1> HIDE DEF b
<1>6. /\ RowsOK(b.rows) /\ (b.state = "staged" => Caught(b.rows))
      /\ b.state = "applied" /\ ~b.by.gone => SameReview(b.rows, b.by.rows)
  BY <1>4, BatchOf
<1>7. /\ BatchesInv' /\ PagesInv' /\ AppliedAsReviewed'
      /\ DOMAIN batches' = DOMAIN batches /\ batches'[id] = b
      /\ \A k \in DOMAIN batches : k # id => batches'[k] = batches[k]
  BY <1>1, <1>2, <1>4, <1>6, BatchChanged
<1>8. \A k \in DOMAIN batches \cap DOMAIN batches' :
         \/ batches'[k] = batches[k]
         \/ batches'[k] = [batches[k] EXCEPT !.expired = TRUE]
  BY <1>5, <1>7
<1>9. StepHolds
  BY <1>8, NothingApplied
<1>10. RosterInv' /\ work' \in 0..MaxWork
  BY <1>1, SameRoster
<1> QED  BY <1>7, <1>9, <1>10 DEF IInv

LEMMA PageGone ==
    ASSUME NEW page \in Page
    PROVE  [page EXCEPT !.gone = TRUE] \in Page /\ [page EXCEPT !.gone = TRUE].gone
BY DEF Page

LEMMA PurgeKeeps ==
    ASSUME IInv, PurgeExpired
    PROVE  IInv' /\ StepHolds
<1> DEFINE expired == {id \in DOMAIN batches : batches[id].expired}
<1>1. /\ batches' = [id \in DOMAIN batches \ expired |-> batches[id]]
      /\ tabs' = [t \in Tabs |-> IF tabs[t] # Absent /\ tabs[t].id \in expired
                                 THEN [tabs[t] EXCEPT !.gone = TRUE] ELSE tabs[t]]
      /\ golfers' = golfers /\ work' = work
  BY DEF PurgeExpired
<1> HIDE DEF expired
<1>2. /\ batches \in [DOMAIN batches -> Batch]
      /\ DOMAIN batches \subseteq Nat \ {0} /\ IsFiniteSet(DOMAIN batches)
  BY DEF IInv, BatchesInv
<1>3. /\ DOMAIN batches' = DOMAIN batches \ expired
      /\ \A id \in DOMAIN batches' : id \in DOMAIN batches /\ batches'[id] = batches[id]
  BY <1>1
<1>4. BatchesInv'
  <2>1. IsFiniteSet(DOMAIN batches') /\ DOMAIN batches' \subseteq Nat \ {0}
    BY <1>2, <1>3, FS_Subset
  <2>2. batches' \in [DOMAIN batches' -> Batch]
    BY <1>1, <1>2, <1>3
  <2>3. \A id \in DOMAIN batches' :
           RowsOK(batches'[id].rows) /\ (batches'[id].state = "staged" => Caught(batches'[id].rows))
    BY <1>3, BatchOf
  <2> QED  BY <2>1, <2>2, <2>3 DEF BatchesInv, RowsOK, Caught
<1>5. PagesInv'
  <2>1. tabs \in [Tabs -> Page \cup {Absent}]
    BY DEF IInv, PagesInv
  <2>2. ASSUME NEW t \in Tabs
        PROVE  /\ tabs'[t] \in Page \cup {Absent}
               /\ tabs'[t] # Absent /\ ~tabs'[t].gone =>
                     tabs'[t] = tabs[t] /\ tabs[t].id \notin expired
    <3>1. CASE tabs[t] # Absent /\ tabs[t].id \in expired
      <4>1. tabs[t] \in Page
        BY <2>1, <3>1
      <4>2. tabs'[t] = [tabs[t] EXCEPT !.gone = TRUE]
        BY <1>1, <3>1
      <4> QED  BY <4>1, <4>2, PageGone
    <3>2. CASE ~(tabs[t] # Absent /\ tabs[t].id \in expired)
      BY <1>1, <2>1, <3>2
    <3> QED  BY <3>1, <3>2
  <2>3. tabs' \in [Tabs -> Page \cup {Absent}]
    BY <1>1, <2>2
  <2>4. ASSUME NEW t \in Tabs, tabs'[t] # Absent /\ ~tabs'[t].gone
        PROVE  /\ tabs'[t].id \in DOMAIN batches' /\ tabs'[t].version <= batches'[tabs'[t].id].version
               /\ tabs'[t].version = batches'[tabs'[t].id].version =>
                     tabs'[t].rows = batches'[tabs'[t].id].rows
    <3>1. tabs'[t] = tabs[t] /\ tabs[t].id \notin expired
      BY <2>2, <2>4
    <3>2. /\ tabs[t].id \in DOMAIN batches /\ tabs[t].version <= batches[tabs[t].id].version
          /\ tabs[t].version = batches[tabs[t].id].version =>
                tabs[t].rows = batches[tabs[t].id].rows
      BY <2>4, <3>1 DEF IInv, PagesInv
    <3> QED  BY <1>3, <3>1, <3>2
  <2> QED  BY <2>3, <2>4 DEF PagesInv
<1>6. AppliedAsReviewed'
  <2>1. \A id \in DOMAIN batches' : batches'[id].state = "applied" /\ ~batches'[id].by.gone =>
           SameReview(batches'[id].rows, batches'[id].by.rows)
    BY <1>3, BatchOf
  <2> QED  BY <2>1 DEF AppliedAsReviewed, SameReview
<1>7. StepHolds
  BY <1>3, NothingApplied
<1>8. RosterInv' /\ work' \in 0..MaxWork
  BY <1>1, SameRoster
<1> QED  BY <1>4, <1>5, <1>6, <1>7, <1>8 DEF IInv

LEMMA MoreWork ==
    ASSUME IInv, work < MaxWork, work' = work + 1
    PROVE  work' \in 0..MaxWork
BY ImportsAssumption DEF IInv, ImportsAssumption

LEMMA GolfersOnly ==
    ASSUME IInv, RosterInv', UNCHANGED <<batches, tabs>>, work < MaxWork, work' = work + 1
    PROVE  IInv' /\ StepHolds
<1>1. BatchesInv' /\ PagesInv' /\ AppliedAsReviewed'
  BY DEF IInv, BatchesInv, RowsOK, Caught, PagesInv, AppliedAsReviewed
<1>2. StepHolds
  BY NothingApplied
<1> QED  BY <1>1, <1>2, MoreWork DEF IInv

LEMMA CreateGolferKeeps ==
    ASSUME IInv, NEW form \in GolferForms, CreateGolfer(form)
    PROVE  IInv' /\ StepHolds
<1>1. /\ golfers' = Added(golfers, form) /\ EmailsUnique(golfers')
      /\ work < MaxWork /\ work' = work + 1 /\ UNCHANGED <<batches, tabs>>
  BY DEF CreateGolfer
<1>2. form \in Golfer
  BY InputsAssumption DEF InputsAssumption
<1>3. golfers' \in Rosters
  BY <1>1, <1>2, AddedGolfer DEF IInv, RosterInv
<1>4. RosterInv'
  BY <1>1, <1>3 DEF RosterInv, Rosters, EmailsUnique
<1> QED  BY <1>1, <1>4, GolfersOnly

LEMMA UpdateGolferKeeps ==
    ASSUME IInv, NEW g \in DOMAIN golfers, NEW form \in GolferForms, UpdateGolfer(g, form)
    PROVE  IInv' /\ StepHolds
<1>1. /\ golfers' = [golfers EXCEPT ![g] = form] /\ EmailsUnique(golfers')
      /\ work < MaxWork /\ work' = work + 1 /\ UNCHANGED <<batches, tabs>>
  BY DEF UpdateGolfer
<1>2. form \in Golfer
  BY InputsAssumption DEF InputsAssumption
<1>3. golfers' \in Rosters
  BY <1>1, <1>2, ChangedGolfer DEF IInv, RosterInv
<1>4. RosterInv'
  BY <1>1, <1>3 DEF RosterInv, Rosters, EmailsUnique
<1> QED  BY <1>1, <1>4, GolfersOnly

LEMMA DeleteGolferKeeps ==
    ASSUME IInv, NEW g \in DOMAIN golfers, DeleteGolfer(g)
    PROVE  IInv' /\ StepHolds
<1>1. /\ golfers' = [h \in DOMAIN golfers \ {g} |-> golfers[h]]
      /\ work < MaxWork /\ work' = work + 1 /\ UNCHANGED <<batches, tabs>>
  BY DEF DeleteGolfer
<1>2. /\ golfers \in [DOMAIN golfers -> Golfer] /\ DOMAIN golfers \subseteq Nat \ {0}
      /\ IsFiniteSet(DOMAIN golfers) /\ EmailsUnique(golfers)
  BY RosterIs DEF IInv, RosterInv
<1>3. /\ DOMAIN golfers' = DOMAIN golfers \ {g} /\ golfers' \in [DOMAIN golfers' -> Golfer]
      /\ \A h \in DOMAIN golfers' : golfers'[h] = golfers[h]
  BY <1>1, <1>2
<1>4. IsFiniteSet(DOMAIN golfers') /\ DOMAIN golfers' \subseteq Nat \ {0}
  BY <1>2, <1>3, FS_Subset
<1>5. EmailsUnique(golfers')
  BY <1>2, <1>3 DEF EmailsUnique
<1>6. golfers' \in Rosters
  BY <1>3, <1>4, RosterIs
<1>7. RosterInv'
  BY <1>5, <1>6 DEF RosterInv, Rosters, EmailsUnique
<1> QED  BY <1>1, <1>7, GolfersOnly

LEMMA BuiltRows ==
    ASSUME NEW lines \in Seq(Cells)
    PROVE  RowsOK([i \in DOMAIN lines |-> BuiltRow(lines[i])])
<1> DEFINE built == [i \in DOMAIN lines |-> BuiltRow(lines[i])]
<1>1. DOMAIN lines = 1..Len(lines) /\ Len(lines) \in Nat /\ \A i \in DOMAIN lines : lines[i] \in Cells
  OBVIOUS
<1>2. \A i \in DOMAIN lines : BuiltRow(lines[i]) \in Row /\ BuiltRow(lines[i]).email \notin DOMAIN LowerCase
  BY <1>1, BuiltRowTyped
<1>3. built = [i \in 1..Len(lines) |-> BuiltRow(lines[i])]
  BY <1>1
<1>4. built \in [1..Len(lines) -> Row] /\ \A i \in DOMAIN built : built[i].email \notin DOMAIN LowerCase
  BY <1>1, <1>2, <1>3
<1> HIDE DEF built
<1>5. built \in Seq(Row)
  BY <1>1, <1>4
<1>6. RowsOK(built)
  BY <1>4, <1>5 DEF RowsOK
<1> QED  BY <1>6 DEF built

\* A new batch gets an id that no batch has, and so none of the pages of a batch there is.
LEMMA StageKeeps ==
    ASSUME IInv, NEW files \in Uploads, Stage(files)
    PROVE  IInv' /\ StepHolds
<1> DEFINE lines == DataRows(files)
           built == [i \in DOMAIN lines |-> BuiltRow(lines[i])]
           rows == Revalidated(built, golfers)
           b == [state |-> "staged", version |-> 1, rows |-> rows,
                 counts |-> NoCounts, expired |-> FALSE, by |-> Absent]
           new == NextId(batches)
<1>1. /\ batches' = Added(batches, b) /\ work < MaxWork /\ work' = work + 1
      /\ golfers' = golfers /\ tabs' = tabs
  BY DEF Stage
<1>2. lines \in Seq(Cells)
  BY InputsAssumption DEF InputsAssumption
<1> HIDE DEF lines
<1>3. RowsOK(built)
  BY <1>2, BuiltRows
<1> HIDE DEF built
<1>4. RowsOK(rows) /\ Caught(rows) /\ rows \in Seq(Row)
  BY <1>3, RevalidatedHolds DEF RowsOK
<1> HIDE DEF rows
<1>5. NoCounts \in Counts
  BY DEF NoCounts, Counts
<1>6. b \in Batch /\ b.state = "staged" /\ b.rows = rows
  BY <1>4, <1>5 DEF Batch
<1> HIDE DEF b
<1>7. /\ batches \in [DOMAIN batches -> Batch]
      /\ DOMAIN batches \subseteq Nat \ {0} /\ IsFiniteSet(DOMAIN batches)
  BY DEF IInv, BatchesInv
<1>8. new \in Nat \ {0} /\ new \notin DOMAIN batches
  BY <1>7, NextIdIsNew
<1>9. batches' = [id \in DOMAIN batches \cup {new} |-> IF id \in DOMAIN batches THEN batches[id] ELSE b]
  BY <1>1 DEF Added
<1> HIDE DEF new
<1>10. /\ DOMAIN batches' = DOMAIN batches \cup {new} /\ batches'[new] = b
       /\ \A id \in DOMAIN batches : batches'[id] = batches[id]
  BY <1>8, <1>9
<1>11. BatchesInv'
  <2>1. IsFiniteSet(DOMAIN batches') /\ DOMAIN batches' \subseteq Nat \ {0}
    BY <1>7, <1>8, <1>10, FS_AddElement
  <2>2. batches' \in [DOMAIN batches' -> Batch]
    BY <1>6, <1>7, <1>9, <1>10
  <2>3. ASSUME NEW id \in DOMAIN batches'
        PROVE  /\ RowsOK(batches'[id].rows)
               /\ batches'[id].state = "staged" => Caught(batches'[id].rows)
    <3>1. CASE id = new
      BY <1>4, <1>6, <1>10, <3>1
    <3>2. CASE id \in DOMAIN batches
      BY <1>10, <3>2, BatchOf
    <3> QED  BY <1>10, <3>1, <3>2
  <2> QED  BY <2>1, <2>2, <2>3 DEF BatchesInv, RowsOK, Caught
<1>12. PagesInv'
  <2>1. \A t \in Tabs : tabs[t] # Absent /\ ~tabs[t].gone =>
           tabs[t].id \in DOMAIN batches' /\ batches'[tabs[t].id] = batches[tabs[t].id]
    BY <1>10 DEF IInv, PagesInv
  <2> QED  BY <1>1, <2>1 DEF IInv, PagesInv
<1>13. AppliedAsReviewed'
  <2>1. ASSUME NEW id \in DOMAIN batches', batches'[id].state = "applied" /\ ~batches'[id].by.gone
        PROVE  SameReview(batches'[id].rows, batches'[id].by.rows)
    <3>1. CASE id = new
      BY <1>6, <1>10, <2>1, <3>1
    <3>2. CASE id \in DOMAIN batches
      BY <1>10, <2>1, <3>2, BatchOf
    <3> QED  BY <1>10, <3>1, <3>2
  <2> QED  BY <2>1 DEF AppliedAsReviewed, SameReview
<1>14. StepHolds
  BY <1>10, NothingApplied
<1>15. RosterInv'
  BY <1>1 DEF IInv, RosterInv
<1> QED  BY <1>1, <1>11, <1>12, <1>13, <1>14, <1>15, MoreWork DEF IInv

\* What a row passes it still passes with the verdict that says so.
LEMMA RevalidatedClean ==
    ASSUME NEW rows \in Seq(Row), NEW roster \in Rosters, EmailsUnique(roster),
           \A i \in DOMAIN Revalidated(rows, roster) :
              Revalidated(rows, roster)[i].included => Revalidated(rows, roster)[i].error = None
    PROVE  Clean(roster, Revalidated(rows, roster))
<1> DEFINE new == Revalidated(rows, roster)
<1>1. /\ new \in Seq(Row) /\ DOMAIN new = DOMAIN rows
      /\ \A i \in DOMAIN rows :
            /\ SameButError(new[i], rows[i])
            /\ new[i].error = ValidationCode(rows[i], rows, roster)
  BY RevalidatedRows
<1>2. \A i \in DOMAIN new : new[i].included => new[i].error = None
  OBVIOUS
<1> HIDE DEF new
<1>3. DuplicateEmails(new) = DuplicateEmails(rows)
  <2>1. \A i \in DOMAIN rows : new[i].email = rows[i].email
    BY <1>1 DEF SameButError
  <2>2. \A e : e \in DuplicateEmails(new) <=>
           e # None /\ \E i \in DOMAIN new : e = new[i].email /\
              \E j \in DOMAIN new \ {i} : new[j].email = new[i].email
    BY DEF DuplicateEmails
  <2>3. \A e : e \in DuplicateEmails(rows) <=>
           e # None /\ \E i \in DOMAIN rows : e = rows[i].email /\
              \E j \in DOMAIN rows \ {i} : rows[j].email = rows[i].email
    BY DEF DuplicateEmails
  <2>4. \A e : e \in DuplicateEmails(new) <=> e \in DuplicateEmails(rows)
    BY <1>1, <2>1, <2>2, <2>3
  <2> QED  BY <2>4
<1>4. ASSUME NEW i \in DOMAIN new, new[i].included
      PROVE  Passes(new[i], new, roster)
  <2>1. i \in DOMAIN rows /\ rows[i] \in Row
    BY <1>1
  <2>2. new[i].error = None /\ ValidationCode(rows[i], rows, roster) = None
    BY <1>1, <1>2, <1>4, <2>1
  <2>3. Passes(rows[i], rows, roster)
    BY <2>1, <2>2, CodeOfRow, RowTyped
  <2>4. SameButError(new[i], rows[i])
    BY <1>1, <2>1
  <2>5. \A g : ProtectedFieldChanged(new[i], roster[g]) <=> ProtectedFieldChanged(rows[i], roster[g])
    BY <2>4 DEF SameButError, ProtectedFieldChanged
  <2>6. MatchOf(new[i].email, roster) = MatchOf(rows[i].email, roster)
    BY <2>4 DEF SameButError
  <2>7. None # "handicap_invalid"
    BY DEF None
  <2> QED  BY <1>3, <2>2, <2>3, <2>4, <2>5, <2>6, <2>7 DEF Passes, SameButError
<1>5. Clean(roster, new)
  BY <1>1, <1>4 DEF Clean
<1> QED  BY <1>5 DEF new

FromPage(old, rows, counts, page) ==
    [old EXCEPT !.state = "applied", !.version = @ + 1, !.rows = rows, !.counts = counts,
                !.by = page]

LEMMA BatchApplied ==
    ASSUME NEW old \in Batch, NEW rows \in Seq(Row), NEW counts \in Counts, NEW page \in Page
    PROVE  LET b == FromPage(old, rows, counts, page)
           IN  /\ b \in Batch /\ b.state = "applied" /\ b.rows = rows /\ b.counts = counts
               /\ b.version = old.version + 1 /\ b.by = page
<1>1. old.version + 1 \in Nat \ {0}
  BY BatchTyped
<1> QED  BY <1>1 DEF Batch, FromPage

\* The versions say that the rows are those of the page; the roster they are written to
\* is the one they were judged against.
LEMMA ApplyKeeps ==
    ASSUME IInv, NEW t \in Tabs, Apply(t)
    PROVE  IInv' /\ StepHolds
<1> DEFINE id == tabs[t].id
           batch == batches[id]
           rows == Revalidated(batch.rows, golfers)
           after == Applied(rows, golfers).roster
           counts == Applied(rows, golfers).counts
           b == FromPage(batch, rows, counts, tabs[t])
<1>1. /\ tabs[t] # Absent /\ id \in DOMAIN batches /\ batch.state = "staged"
      /\ batch.version = tabs[t].version
      /\ \A i \in DOMAIN rows : rows[i].included => rows[i].error = None
      /\ EmailsUnique(after) /\ golfers' = after
      /\ batches' = [batches EXCEPT ![id] = b] /\ tabs' = tabs /\ work' = work
  BY DEF Apply, Current, Staged, FromPage
<1>2. batch \in Batch /\ RowsOK(batch.rows) /\ batch.rows \in Seq(Row)
  BY <1>1, BatchOf DEF RowsOK
<1>3. golfers \in Rosters /\ EmailsUnique(golfers)
  BY DEF IInv, RosterInv
<1>4. tabs[t] \in Page /\ (~tabs[t].gone => tabs[t].rows = batch.rows)
  BY <1>1 DEF IInv, PagesInv
<1>5. Clean(golfers, rows)
  BY <1>1, <1>2, <1>3, RevalidatedClean
<1>6. RowsOK(rows) /\ rows \in Seq(Row)
  BY <1>2, RevalidatedHolds DEF RowsOK
<1>7. SameReview(rows, batch.rows)
  BY <1>2, RevalidatedRows DEF SameReview
<1>8. batch = batches[id]
  OBVIOUS
<1> HIDE DEF rows, batch
<1>9. after \in Rosters /\ counts \in Counts /\ Whole(golfers, rows, after, counts)
  BY <1>5, AppliedIsWhole
<1>10. \A g \in DOMAIN golfers : Protected(after[g]) # Protected(golfers[g]) =>
          \E i \in DOMAIN rows : rows[i].included /\ rows[i].optIn /\ rows[i].email = golfers[g].email
  BY <1>5, AppliedProtects
<1>11. /\ Applied(rows, after).roster = after
       /\ \A i \in DOMAIN rows : rows[i].included =>
             ValidationCode([rows[i] EXCEPT !.optIn = FALSE], rows, after) = None
  BY <1>1, <1>5, AppliedAgain, AppliedPassesAgain
<1> HIDE DEF after, counts
<1>12. /\ b \in Batch /\ b.state = "applied" /\ b.rows = rows /\ b.counts = counts
       /\ b.version = batch.version + 1 /\ b.by = tabs[t]
  BY <1>2, <1>4, <1>6, <1>9, BatchApplied
<1> HIDE DEF b
<1>13. /\ RowsOK(b.rows) /\ (b.state = "staged" => Caught(b.rows))
       /\ b.version = batches[id].version + 1
       /\ b.state = "applied" /\ ~b.by.gone => SameReview(b.rows, b.by.rows)
  BY <1>4, <1>6, <1>7, <1>8, <1>12
<1> HIDE DEF id
<1>14. /\ BatchesInv' /\ PagesInv' /\ AppliedAsReviewed'
       /\ DOMAIN batches' = DOMAIN batches /\ batches'[id] = b
       /\ \A k \in DOMAIN batches : k # id => batches'[k] = batches[k]
  BY <1>1, <1>12, <1>13, BatchChanged
<1>15. RosterInv'
  BY <1>1, <1>9 DEF RosterInv, Rosters, EmailsUnique
<1>16. StepFinal
  <2> SUFFICES ASSUME NEW k \in DOMAIN batches \cap DOMAIN batches', batches[k].state # "staged"
      PROVE  batches'[k] = [batches[k] EXCEPT !.expired = batches'[k].expired]
    BY DEF StepFinal
  <2>1. batches'[k] = batches[k] /\ batches[k] \in Batch
    BY <1>1, <1>8, <1>14, BatchOf
  <2> QED  BY <2>1 DEF Batch
<1>17. ASSUME NEW k \in DOMAIN batches, Applies(k)
       PROVE  StepProtects(k) /\ StepWhole(k) /\ StepClean(k)
  <2>1. batches[k].state = "staged" /\ batches'[k].state = "applied"
    BY <1>17 DEF Applies, Staged
  <2>2. k = id
    BY <1>14, <2>1
  <2>3. batches'[k].rows = rows /\ batches'[k].counts = counts /\ golfers' = after
        /\ batches[k].rows = batch.rows
    BY <1>1, <1>8, <1>12, <1>14, <2>2
  <2>4. StepProtects(k)
    <3> SUFFICES ASSUME NEW g \in DOMAIN golfers, Protected(golfers'[g]) # Protected(golfers[g])
        PROVE  \E i \in DOMAIN batches[k].rows :
                  /\ batches[k].rows[i].included /\ batches[k].rows[i].optIn
                  /\ batches[k].rows[i].email = golfers[g].email
      BY DEF StepProtects
    <3>1. PICK i \in DOMAIN rows :
             rows[i].included /\ rows[i].optIn /\ rows[i].email = golfers[g].email
      BY <1>10, <2>3
    <3>2. i \in DOMAIN batch.rows /\ SameButError(rows[i], batch.rows[i])
      BY <1>2, <3>1, RevalidatedRows DEF rows
    <3> QED  BY <2>3, <3>1, <3>2 DEF SameButError
  <2>5. StepWhole(k)
    BY <1>9, <2>3 DEF StepWhole
  <2>6. StepClean(k)
    BY <1>11, <2>3 DEF StepClean
  <2> QED  BY <2>4, <2>5, <2>6
<1>18. StepHolds
  BY <1>16, <1>17 DEF StepHolds
<1>19. work' \in 0..MaxWork
  BY <1>1 DEF IInv
<1> QED  BY <1>14, <1>15, <1>18, <1>19 DEF IInv

LEMMA InitHolds ==
    ASSUME Init
    PROVE  IInv
<1>1. golfers = FirstGolfers /\ batches = <<>> /\ tabs = [t \in Tabs |-> Absent] /\ work = 0
  BY DEF Init
<1>2. RosterInv
  <2>1. FirstGolfers \in Rosters /\ EmailsUnique(FirstGolfers)
    BY InputsAssumption, RosterIs DEF InputsAssumption
  <2> QED  BY <1>1, <2>1 DEF RosterInv
<1>3. DOMAIN batches = {}
  BY <1>1
<1>4. BatchesInv
  <2>1. batches \in [DOMAIN batches -> Batch]
    <3>1. batches = [id \in {} |-> batches[id]]
      BY <1>1
    <3> QED  BY <1>3, <3>1
  <2> QED  BY <1>3, <2>1, FS_EmptySet DEF BatchesInv
<1>5. PagesInv
  BY <1>1 DEF PagesInv
<1>6. AppliedAsReviewed
  BY <1>3 DEF AppliedAsReviewed
<1>7. work \in 0..MaxWork
  BY <1>1, ImportsAssumption DEF ImportsAssumption
<1> QED  BY <1>2, <1>4, <1>5, <1>6, <1>7 DEF IInv

LEMMA StutterKeeps ==
    ASSUME IInv, UNCHANGED vars
    PROVE  IInv' /\ StepHolds
<1>1. UNCHANGED <<golfers, batches, tabs, work>>
  BY DEF vars
<1>2. IInv'
  BY <1>1 DEF IInv, RosterInv, BatchesInv, RowsOK, Caught, PagesInv, AppliedAsReviewed
<1>3. StepHolds
  BY <1>1, NothingApplied
<1> QED  BY <1>2, <1>3

LEMMA StepKeeps ==
    ASSUME IInv, [Next]_vars
    PROVE  IInv' /\ StepHolds
<1>1. ASSUME NEW files \in Uploads, Stage(files) PROVE IInv' /\ StepHolds
  BY <1>1, StageKeeps
<1>2. ASSUME NEW t \in Tabs, NEW id \in DOMAIN batches, Open(t, id) PROVE IInv' /\ StepHolds
  BY <1>2, OpenKeeps
<1>3. ASSUME NEW t \in Tabs, NEW i \in 1..MaxDataRows, NEW typed \in Retyped, EditRow(t, i, typed)
      PROVE  IInv' /\ StepHolds
  BY <1>3, EditRowKeeps
<1>4. ASSUME NEW t \in Tabs, NEW i \in 1..MaxDataRows, SwapNames(t, i) PROVE IInv' /\ StepHolds
  BY <1>4, SwapNamesKeeps
<1>5. ASSUME NEW t \in Tabs, NEW i \in 1..MaxDataRows, AcceptDomainSuggestion(t, i)
      PROVE  IInv' /\ StepHolds
  BY <1>5, AcceptKeeps
<1>6. ASSUME NEW t \in Tabs, Discard(t) PROVE IInv' /\ StepHolds
  BY <1>6, DiscardKeeps
<1>7. ASSUME NEW t \in Tabs, Apply(t) PROVE IInv' /\ StepHolds
  BY <1>7, ApplyKeeps
<1>8. ASSUME PurgeExpired PROVE IInv' /\ StepHolds
  BY <1>8, PurgeKeeps
<1>9. ASSUME NEW id \in DOMAIN batches, GrowOld(id) PROVE IInv' /\ StepHolds
  BY <1>9, GrowOldKeeps
<1>10. ASSUME NEW form \in GolferForms, CreateGolfer(form) PROVE IInv' /\ StepHolds
  BY <1>10, CreateGolferKeeps
<1>11. ASSUME NEW g \in DOMAIN golfers, NEW form \in GolferForms, UpdateGolfer(g, form)
       PROVE  IInv' /\ StepHolds
  BY <1>11, UpdateGolferKeeps
<1>12. ASSUME NEW g \in DOMAIN golfers, DeleteGolfer(g) PROVE IInv' /\ StepHolds
  BY <1>12, DeleteGolferKeeps
<1>13. ASSUME UNCHANGED vars PROVE IInv' /\ StepHolds
  BY <1>13, StutterKeeps
<1> QED  BY <1>1, <1>2, <1>3, <1>4, <1>5, <1>6, <1>7, <1>8, <1>9, <1>10, <1>11, <1>12, <1>13
         DEF Next, ReviewNext, GolferNext

THEOREM Invariance == Spec => []IInv
<1>1. Init => IInv
  BY InitHolds
<1>2. IInv /\ [Next]_vars => IInv'
  BY StepKeeps
<1> QED  BY <1>1, <1>2, PTL DEF Spec

-----------------------------------------------------------------------------
(* The theorems.                                                            *)

\* Every golfer, batch, row and page is of its kind at all times, no two golfers share
\* an address, and no row keeps one as it was written (Golfer and RosterImportRow of
\* models.py, _normalize_email of the import).
THEOREM ImportsTypeCorrect == Spec => []TypeOK
<1>1. IInv => TypeOK
  <2> SUFFICES ASSUME IInv PROVE TypeOK
    OBVIOUS
  <2>1. \A g \in DOMAIN golfers : golfers[g] \in Golfer
    BY RosterIs DEF IInv, RosterInv
  <2>2. \A id \in DOMAIN batches : batches[id] \in Batch
    BY BatchOf
  <2>3. \A id \in DOMAIN batches, i \in 1..MaxDataRows : i \in DOMAIN batches[id].rows =>
           batches[id].rows[i].email \notin DOMAIN LowerCase
    BY BatchOf DEF RowsOK
  <2>4. \A t \in Tabs : tabs[t] \in Page \cup {Absent}
    BY DEF IInv, PagesInv
  <2>5. EmailsUnique(golfers) /\ work \in 0..MaxWork
    BY DEF IInv, RosterInv
  <2> QED  BY <2>1, <2>2, <2>3, <2>4, <2>5 DEF TypeOK
<1> QED  BY <1>1, Invariance, PTL

\* A batch is applied with the rows and decisions the page showed whose button was
\* pressed: the version that apply_batch claims stands for the rows, for any number of
\* tabs, uploads and corrections between.
THEOREM AppliedAsShown == Spec => []AppliedAsReviewed
<1>1. IInv => AppliedAsReviewed
  BY DEF IInv
<1> QED  BY <1>1, Invariance, PTL

\* The rows of a staged batch that share an address are in error, and only they are
\* called duplicates: revalidate_batch judges every row after each change of one.
THEOREM SharedAddresses == Spec => []SharedAddressesCaught
<1>1. IInv => SharedAddressesCaught
  <2> SUFFICES ASSUME IInv PROVE SharedAddressesCaught
    OBVIOUS
  <2>1. \A id \in DOMAIN batches : batches[id].state = "staged" => Caught(batches[id].rows)
    BY BatchOf
  <2> QED  BY <2>1 DEF SharedAddressesCaught, Caught
<1> QED  BY <1>1, Invariance, PTL

\* apply_batch changes a protected field of a golfer only where the row that matches
\* was opted in, whatever the golfers' own forms did since the review.
THEOREM ProtectedUnlessOptedIn == Spec => ProtectedByOptIn
<1>1. IInv /\ [Next]_vars =>
         \A id \in DOMAIN batches : Applies(id) =>
            \A g \in DOMAIN golfers : Protected(golfers'[g]) # Protected(golfers[g]) =>
                \E i \in DOMAIN batches[id].rows :
                    LET row == batches[id].rows[i]
                    IN  row.included /\ row.optIn /\ row.email = golfers[g].email
  BY StepKeeps DEF StepHolds, StepProtects
<1> QED  BY <1>1, Invariance, PTL DEF Spec, ProtectedByOptIn

\* A batch that was applied or discarded stays as it is; it is applied whole, with
\* counters that say what happened; and the same rows would find nothing left to do
\* (apply_batch, _existing_golfer_changes and _protected_field_changed).
THEOREM ImportsOnceAndWhole == Spec => AppliedOnceAndWhole
<1>1. IInv /\ [Next]_vars => StepHolds
  BY StepKeeps
<1>2. Spec => FinalStaysFinal
  <2>1. IInv /\ [Next]_vars =>
           \A id \in DOMAIN batches \cap DOMAIN batches' : batches[id].state # "staged" =>
              batches'[id] = [batches[id] EXCEPT !.expired = batches'[id].expired]
    BY <1>1 DEF StepHolds, StepFinal
  <2> QED  BY <2>1, Invariance, PTL DEF Spec, FinalStaysFinal
<1>3. Spec => AppliedWhole
  <2>1. IInv /\ [Next]_vars => \A id \in DOMAIN batches : Applies(id) => StepWhole(id)
    BY <1>1 DEF StepHolds
  <2> QED  BY <2>1, Invariance, PTL DEF Spec, AppliedWhole, StepWhole, Whole
<1>4. Spec => ReimportIsClean
  <2>1. IInv /\ [Next]_vars => \A id \in DOMAIN batches : Applies(id) => StepClean(id)
    BY <1>1 DEF StepHolds
  <2> QED  BY <2>1, Invariance, PTL DEF Spec, ReimportIsClean, StepClean
<1> QED  BY <1>2, <1>3, <1>4 DEF AppliedOnceAndWhole
=============================================================================
