------------------------------ MODULE MCInvites ------------------------------
(* Instances of Invites for TLC. *)
EXTENDS Invites, TLC

CONSTANTS ann, bob, cal, p, q, i, j

TwoPasswords == {p, q}
TwoAddresses == {i, j}
Alike == Permutations(TwoPasswords) \cup Permutations(TwoAddresses)

AllListed == ann :> "ann@" @@ bob :> "bob@" @@ cal :> "cal@"
OneInvite == <<[label |-> "spring", created |-> 0, expires |-> 2, revoked |-> FALSE, form |-> 0,
                shown |-> 1, sent |-> 0, failed |-> 0, suppressed |-> 0]>>
Limits == [t \in Tiers |-> IF t = "ip" THEN 1 ELSE 2]
Spans == [t \in Tiers |-> IF t = "email" THEN 1 ELSE 2]

\* Links of both kinds, registration and changed addresses.
Links == [asks |-> {<<page, "ann@">> : page \in {"register", "reset", "login", "join"}}
                      \cup {<<"join", "new@">>},
          edits |-> {<<ann, "new@", TRUE>>, <<ann, "ann@", TRUE>>},
          passwords |-> {p, q}, userLinks |-> 2, sends |-> 2, forms |-> 0, invites |-> 1,
          suppressed |-> 0, ticks |-> 0, stops |-> 1]
\* Joining while time passes, under invitations that end.
Joins == [asks |-> {<<"join", "ann@">>}, edits |-> {}, passwords |-> {p}, userLinks |-> 0,
          sends |-> 3, forms |-> 0, invites |-> 2, suppressed |-> 0, ticks |-> 2, stops |-> 0]
\* Create forms, double clicks, twins, receipts and restarts.
Forms == [asks |-> {<<"reset", "admin@">>}, edits |-> {}, passwords |-> {p}, userLinks |-> 1,
          sends |-> 0, forms |-> 2, invites |-> 3, suppressed |-> 0, ticks |-> 2, stops |-> 1]
\* Two golfers join for the last account while a third one registers.
Last == [asks |-> {<<"register", "ann@">>, <<"join", "bob@">>, <<"join", "cal@">>}, edits |-> {},
         passwords |-> {p}, userLinks |-> 1, sends |-> 2, forms |-> 0, invites |-> 1,
         suppressed |-> 1, ticks |-> 0, stops |-> 0]
AllBounds == {Links, Joins, Forms, Last}
==============================================================================
