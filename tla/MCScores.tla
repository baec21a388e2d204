------------------------------ MODULE MCScores ------------------------------
(* Instances of Scores for TLC. *)
EXTENDS Scores

CONSTANTS m1, m2, m3, ann, bob, cal, dee, eve, fay, sub, uAnn, uCal, admin

PlayerPages(users) == [user : users, admin : {FALSE}, kind : {"match"}]
AdminPages(kinds) == [user : {admin}, admin : {TRUE}, kind : kinds]

TwoGolfers == {ann, bob}
ThreeGolfers == {ann, bob, sub}
OneMatchSides == [m \in {m1} |-> [a |-> ann, b |-> bob]]
AnnOnly == [u \in {uAnn} |-> ann]

FourGolfers == {ann, bob, cal, dee}
AnnAndCal == [u \in {uAnn, uCal} |-> IF u = uAnn THEN ann ELSE cal]
SheetPages == AdminPages({"sheet", "post"}) \cup PlayerPages({uAnn})

SixGolfers == FourGolfers \cup {eve, fay}
ThreeMatchSides == [m \in {m1, m2, m3} |-> CASE m = m1 -> [a |-> ann, b |-> bob]
                                             [] m = m2 -> [a |-> cal, b |-> dee]
                                             [] OTHER -> [a |-> eve, b |-> fay]]
KeeperPages == PlayerPages({uAnn, uCal})

OpenAll == [p \in Pages |-> Matches]
OpenSecond == [p \in Pages |-> IF p.admin THEN Matches ELSE {m2}]
=============================================================================
