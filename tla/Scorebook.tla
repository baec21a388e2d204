------------------------------ MODULE Scorebook ------------------------------
(***************************************************************************)
(* What the score service promises, with no revisions and no two-step      *)
(* reads: readers look at a match, and a change of a match is accepted     *)
(* only from a reader whose view of it is still good, or when it only      *)
(* fills lines that are blank.  A locked match accepts nothing.            *)
(***************************************************************************)
CONSTANTS Matches, Golfers, Holes, Readers, Contents, NoView

VARIABLES book, locked, view

bookVars == <<book, locked, view>>

BlankLine == [h \in Holes |-> 0]

Init ==
    /\ book = [m \in Matches |-> [g \in Golfers |-> BlankLine]]
    /\ locked = {}
    /\ view = [r \in Readers |-> [m \in Matches |-> NoView]]

\* Every view of the matches in M is void from now on.
Void(M) ==
    view' = [r \in Readers |-> [m \in Matches |->
                IF m \in M THEN NoView ELSE view[r][m]]]

Look(r, m) ==
    /\ view' = [view EXCEPT ![r][m] = book[m]]
    /\ UNCHANGED <<book, locked>>

\* A page is opened anew; until it is read it gives no view.
Forget(r, m) ==
    /\ view' = [view EXCEPT ![r][m] = NoView]
    /\ UNCHANGED <<book, locked>>

\* The matches in M change, all of them open and seen by the reader as they
\* are; the reader may drop views of its own.
Write(r, M) ==
    /\ M \cap locked = {}
    /\ \A m \in M : view[r][m] = book[m]
    /\ \A m \in Matches \ M : book'[m] = book[m]
    /\ \A m \in M : book'[m] \in Contents /\ book'[m] # book[m]
    /\ \A s \in Readers, m \in Matches :
          view'[s][m] \in IF m \in M THEN {NoView} ELSE {view[s][m], NoView}
    /\ UNCHANGED locked

\* Blank lines of open matches are filled; nothing that was there changes.
Add(M) ==
    /\ M \cap locked = {}
    /\ \A m \in Matches \ M : book'[m] = book[m]
    /\ \A m \in M : /\ book'[m] \in Contents /\ book'[m] # book[m]
                    /\ \A g \in Golfers : book[m][g] \in {BlankLine, book'[m][g]}
    /\ Void(M)
    /\ UNCHANGED locked

Lock(r, M) ==
    /\ M \cap locked = {}
    /\ \A m \in M : view[r][m] = book[m]
    /\ locked' = locked \cup M
    /\ Void(M)
    /\ UNCHANGED book

Unlock(m) ==
    /\ m \in locked
    /\ locked' = locked \ {m}
    /\ Void({m})
    /\ UNCHANGED book

Next ==
    \/ \E r \in Readers, m \in Matches : Look(r, m) \/ Forget(r, m)
    \/ \E r \in Readers, M \in SUBSET Matches : Write(r, M) \/ Lock(r, M)
    \/ \E M \in SUBSET Matches : Add(M)
    \/ \E m \in Matches : Unlock(m)

Spec == Init /\ [][Next]_bookVars
=============================================================================
