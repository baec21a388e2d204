------------------------------ MODULE MCResults ------------------------------
(* Instances of Results for TLC. *)
EXTENDS Results

CONSTANTS ann, bob, cal, dee, m1, m2, m3, reds, whites, NoneYet

\* Two matches of a team match, and a week later one that a team plays against itself.
PlayerSides == m1 :> [a |-> ann, b |-> bob] @@ m2 :> [a |-> cal, b |-> dee]
                   @@ m3 :> [a |-> ann, b |-> cal]
Pairings == [m \in {m1, m2} |-> [id |-> 1, week |-> 1, home |-> reds, away |-> whites]]
                @@ m3 :> [id |-> 2, week |-> 2, home |-> reds, away |-> reds]

FirstHoles == <<1, 2, 3>>
\* The ids of a course that was not the first one.
LaterHoles == 19 :> 1 @@ 20 :> 2 @@ 21 :> 3
SecondIsHardest == <<2, 1, 3>>
SecondOfLaterIsHardest == 19 :> 2 @@ 20 :> 1 @@ 21 :> 3

\* Handicaps below zero, more strokes than there are holes, and none at all.
Seeded == {<<ann :> 0 @@ bob :> 5 @@ cal :> -1 @@ dee :> NoneYet,
             ann :> 1 @@ bob :> NoneYet @@ cal :> NoneYet @@ dee :> NoneYet>>}
Again == <<ann :> {3} @@ bob :> {} @@ cal :> {} @@ dee :> {-2},
           ann :> {} @@ bob :> {} @@ cal :> {1} @@ dee :> {}>>

\* Better on the first hole, on the second and third, and on the third alone.
Card(strokes) == [h \in Holes |-> strokes[Number[h]]]
Few == [m \in {m1, m2} |-> {Card(<<4, 5, 5>>), Card(<<5, 4, 4>>), Card(<<5, 5, 4>>)}]
           @@ m3 :> {Card(<<4, 5, 5>>)}
==============================================================================
