-------------------------- MODULE MCScorecardDrafts --------------------------
(* An instance of ScorecardDrafts for TLC. *)
EXTENDS ScorecardDrafts

CONSTANTS p1, p2, boss, u1, u2, u3, u4

Uploaders == [u \in {u1, u2, u3, u4} |-> CASE u = u3 -> p2 [] u = u4 -> boss [] OTHER -> p1]

\* Two players' uploads overlap and their pages meet failing commits; or a
\* player's and an admin's photo are read across two stops, with every fault.
Overlapping == [uploads |-> {u1, u2, u3}, stops |-> 0, faults |-> {"commit"}]
Interrupting == [uploads |-> {u1, u4}, stops |-> 2,
                 faults |-> {"commit", "unlink", "store", "cleanup"}]
BothScopes == {Overlapping, Interrupting}
=============================================================================
