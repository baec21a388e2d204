--------------------------- MODULE MCRosterImports ---------------------------
(* Instances of RosterImports for TLC. *)
EXTENDS RosterImports

CONSTANTS t1, t2

AllTexts == STRING
Lowered == "A@" :> "a@"
Suggested == "c@gmial" :> "c@"
PhoneDigits == "" :> "" @@ "1-1" :> "11" @@ "11" :> "11"
OtherTab == Permutations({t1, t2})

Line(first, last, tee, handicap, email, phone) ==
    [first |-> first, last |-> last, tee |-> tee, handicap |-> handicap, email |-> email,
     phone |-> phone]
RosterFile(lines) == [empty |-> FALSE, bytes |-> 1, text |-> TRUE, header |-> TRUE, lines |-> lines]
NoFile == [RosterFile(<<>>) EXCEPT !.empty = TRUE, !.bytes = 0]

\* Ann is listed with another handicap and her address written otherwise; a line beside
\* hers has the same address and a handicap that is no number.
Twice == <<RosterFile(<<Line("Ann", "Lee", "White", "9", "A@", "11"),
                        Line("", "", "", "", "", ""),
                        Line("Cal", "Fox", "White", "x", "a@", "")>>), NoFile>>
\* Bob's names are swapped and he has no handicap; somebody's address is misspelled.
Wrong == <<RosterFile(<<Line("Ray", "Bob", "White", "", "b@", "")>>),
           RosterFile(<<Line("Cal", "Fox", "Gold", "7", "c@gmial", "")>>)>>
TwoUploads == {Twice, Wrong, <<NoFile>>, <<[RosterFile(<<>>) EXCEPT !.header = FALSE]>>}

Corrections == {[optIn |-> TRUE], [included |-> FALSE], [email |-> "c@"],
                [email |-> "b@", handicap |-> "7"]}

Ann == [first |-> "Ann", last |-> "Lee", email |-> "a@", phone |-> "1-1", set |-> "White",
        label |-> "White", handicap |-> "9"]
Bob == [first |-> "Bob", last |-> "Ray", email |-> "b@", phone |-> "", set |-> "",
        label |-> "White", handicap |-> "7"]
Two == <<Ann, Bob>>
Forms == {[Ann EXCEPT !.handicap = "7"], [Ann EXCEPT !.email = "c@", !.set = "Gold", !.label = "Gold"],
          [Bob EXCEPT !.email = "c@", !.label = "Gold"]}
==============================================================================
