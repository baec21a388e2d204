---------------------------- MODULE Invites_proofs ----------------------------
(***************************************************************************)
(* What is proved of Invites and Accounts for any roster, addresses,       *)
(* lifetimes, quotas, caps and bounds: the links that can still complete,  *)
(* the sessions, the accounts and the invitations behind them stay in      *)
(* step, whatever order mails, clicks, edits, revocations and restarts     *)
(* come in; and the four rate windows of a request count the links that    *)
(* were issued (QuotasHold, the sections from "A log of times" on).        *)
(*                                                                         *)
(* The argument about the windows is about a log of times: the links of    *)
(* one key and when each was issued.  A set S of them are those the        *)
(* windows began at.  A request joins the running window or begins one;    *)
(* both keep S in order.                                                   *)
(***************************************************************************)
EXTENDS Invites, TLAPS, SequenceTheorems, FiniteSetTheorems, Induction

-----------------------------------------------------------------------------
(* Tables: sequences of rows.                                               *)

LEMMA Rows ==
    ASSUME NEW S, NEW s \in Seq(S)
    PROVE  /\ Len(s) \in Nat /\ DOMAIN s = 1..Len(s)
           /\ \A i \in DOMAIN s : s[i] \in S
BY LenProperties, ElementOfSeq

LEMMA RowAdded ==
    ASSUME NEW S, NEW s \in Seq(S), NEW x \in S
    PROVE  /\ Append(s, x) \in Seq(S)
           /\ Len(Append(s, x)) = Len(s) + 1
           /\ DOMAIN Append(s, x) = DOMAIN s \cup {Len(s) + 1}
           /\ Len(s) + 1 \notin DOMAIN s
           /\ Append(s, x)[Len(s) + 1] = x
           /\ \A i \in DOMAIN s : Append(s, x)[i] = s[i]
<1>1. Len(s) \in Nat /\ DOMAIN s = 1..Len(s)
  BY Rows
<1>2. /\ Append(s, x) \in Seq(S) /\ Len(Append(s, x)) = Len(s) + 1
      /\ \A i \in 1..Len(s) : Append(s, x)[i] = s[i]
      /\ Append(s, x)[Len(s) + 1] = x
  BY AppendProperties
<1>3. DOMAIN Append(s, x) = 1..(Len(s) + 1)
  BY <1>2, Rows
<1>4. 1..(Len(s) + 1) = 1..Len(s) \cup {Len(s) + 1} /\ Len(s) + 1 \notin 1..Len(s)
  BY <1>1
<1> QED  BY <1>1, <1>2, <1>3, <1>4

LEMMA RowChanged ==
    ASSUME NEW S, NEW s \in Seq(S), NEW i \in DOMAIN s, NEW x \in S
    PROVE  /\ [s EXCEPT ![i] = x] \in Seq(S)
           /\ Len([s EXCEPT ![i] = x]) = Len(s)
           /\ DOMAIN [s EXCEPT ![i] = x] = DOMAIN s
           /\ \A j \in DOMAIN s : [s EXCEPT ![i] = x][j] = IF j = i THEN x ELSE s[j]
<1>1. Len(s) \in Nat /\ DOMAIN s = 1..Len(s)
  BY Rows
<1> QED  BY <1>1, ExceptSeq, Rows

\* Rows rewritten one by one make a table of the same length.
LEMMA RowsRewritten ==
    ASSUME NEW S, NEW s \in Seq(S), NEW t, DOMAIN t = DOMAIN s, t = [i \in DOMAIN s |-> t[i]],
           \A i \in DOMAIN s : t[i] \in S
    PROVE  t \in Seq(S) /\ Len(t) = Len(s)
<1>1. Len(s) \in Nat /\ DOMAIN s = 1..Len(s)
  BY Rows
<1>2. t \in [1..Len(s) -> S]
  BY <1>1
<1>3. t \in Seq(S)
  BY <1>1, <1>2, SeqDef
<1> QED  BY <1>1, <1>3, Rows

\* update(...).values(revoked_at=now) leaves the rows, and closes those it names.
LEMMA RowsRevoked ==
    ASSUME NEW S \in {UserLink, SetLink}, NEW links \in Seq(S), NEW which
    PROVE  /\ Revoked(links, which) \in Seq(S)
           /\ Len(Revoked(links, which)) = Len(links)
           /\ DOMAIN Revoked(links, which) = DOMAIN links
           /\ \A i \in DOMAIN links :
                 /\ Revoked(links, which)[i] \in {links[i], [links[i] EXCEPT !.revoked = TRUE]}
                 /\ Open(Revoked(links, which)[i]) <=> Open(links[i]) /\ i \notin which
<1> DEFINE t == Revoked(links, which)
<1>1. /\ DOMAIN t = DOMAIN links /\ t = [i \in DOMAIN links |-> t[i]]
      /\ \A i \in DOMAIN links : t[i] = IF i \in which /\ Open(links[i])
                                        THEN [links[i] EXCEPT !.revoked = TRUE] ELSE links[i]
  BY DEF Revoked
<1> HIDE DEF t
<1>2. \A i \in DOMAIN links : links[i] \in S
  BY Rows
<1>3. \A i \in DOMAIN links : [links[i] EXCEPT !.revoked = TRUE] \in S
                              /\ [links[i] EXCEPT !.revoked = TRUE].revoked = TRUE
  <2> SUFFICES ASSUME NEW i \in DOMAIN links
      PROVE  [links[i] EXCEPT !.revoked = TRUE] \in S /\ [links[i] EXCEPT !.revoked = TRUE].revoked = TRUE
    OBVIOUS
  <2>1. CASE S = UserLink
    BY <2>1, <1>2 DEF UserLink
  <2>2. CASE S = SetLink
    BY <2>2, <1>2 DEF SetLink
  <2> QED  BY <2>1, <2>2
<1>4. \A i \in DOMAIN links : t[i] \in S
  BY <1>1, <1>2, <1>3
<1>5. t \in Seq(S) /\ Len(t) = Len(links)
  BY <1>1, <1>4, RowsRewritten
<1>6. \A i \in DOMAIN links : /\ t[i] \in {links[i], [links[i] EXCEPT !.revoked = TRUE]}
                              /\ Open(t[i]) <=> Open(links[i]) /\ i \notin which
  BY <1>1, <1>3 DEF Open
<1> QED  BY <1>1, <1>5, <1>6 DEF t


-----------------------------------------------------------------------------
(* The users table.                                                         *)

UsersInv ==
    /\ users \in Seq(User)
    /\ Len(users) >= 1
    /\ AccountsCapped
    /\ AccountsApart

\* What every step keeps: accounts stay, with their address and golfer; a password
\* changes only with the version.
UsersEvolve ==
    /\ users' \in Seq(User)
    /\ DOMAIN users \subseteq DOMAIN users'
    /\ \A u \in DOMAIN users :
          /\ users'[u].email = users[u].email /\ users'[u].golfer = users[u].golfer
          /\ users[u].verified => users'[u].verified
          /\ users'[u].version >= users[u].version
          /\ users'[u].version = users[u].version => users'[u].password = users[u].password

VersionsStay == \A u \in DOMAIN users : users'[u].version = users[u].version

LEMMA UsersSame ==
    ASSUME UsersInv, users' = users
    PROVE  UsersInv' /\ UsersEvolve /\ VersionsStay
<1>1. \A u \in DOMAIN users : users[u] \in User
  BY Rows DEF UsersInv
<1>2. \A u \in DOMAIN users : users[u].version >= users[u].version
  BY <1>1 DEF User
<1> QED  BY <1>2 DEF UsersInv, UsersEvolve, VersionsStay, AccountsCapped, AccountsApart

\* An account is added where nobody has its golfer or address, below a cap.
LEMMA UserAdded ==
    ASSUME UsersInv, NEW e \in Emails, NEW g \in Golfers, NEW p \in Passwords, NEW verified \in BOOLEAN,
           users' = Append(users, NewUser(e, g, p, verified)),
           UserOf(e) = {}, AccountsOf(g) = {},
           Len(users) < MaxUsers \/ Len(users) < InviteCap
    PROVE  /\ UsersInv' /\ UsersEvolve /\ VersionsStay
           /\ DOMAIN users' = DOMAIN users \cup {Len(users) + 1}
           /\ users'[Len(users) + 1] = NewUser(e, g, p, verified)
           /\ \A u \in DOMAIN users : users'[u] = users[u]
<1> DEFINE new == NewUser(e, g, p, verified)
<1>1. new \in User /\ new.email = e /\ new.golfer = g
  BY DEF NewUser, User
<1>2. users \in Seq(User) /\ users' = Append(users, new)
  BY DEF UsersInv
<1> HIDE DEF new
<1>3. /\ users' \in Seq(User) /\ Len(users') = Len(users) + 1
      /\ DOMAIN users' = DOMAIN users \cup {Len(users) + 1}
      /\ Len(users) + 1 \notin DOMAIN users
      /\ users'[Len(users) + 1] = new
      /\ \A u \in DOMAIN users : users'[u] = users[u]
  BY <1>1, <1>2, RowAdded
<1>4. Len(users) \in Nat /\ \A u \in DOMAIN users : users[u] \in User
  BY <1>2, Rows
<1>5. Len(users') >= 1 /\ AccountsCapped'
  BY <1>3, <1>4, AccountsAssumption, InvitesAssumption
     DEF AccountsCapped, UsersInv, AccountsAssumption, InvitesAssumption
<1>6. \A u \in DOMAIN users : users[u].email # e /\ users[u].golfer # g
  BY DEF UserOf, AccountsOf
<1>7. g # NoOne
  BY AccountsAssumption DEF AccountsAssumption
<1>8. AccountsApart'
  <2> SUFFICES ASSUME NEW u \in DOMAIN users', NEW v \in DOMAIN users', u # v
      PROVE  /\ users'[u].email # users'[v].email
             /\ users'[u].golfer # NoOne => users'[u].golfer # users'[v].golfer
    BY DEF AccountsApart
  <2>1. CASE u \in DOMAIN users /\ v \in DOMAIN users
    BY <2>1, <1>3 DEF UsersInv, AccountsApart
  <2>2. CASE u = Len(users) + 1 /\ v \in DOMAIN users
    BY <2>2, <1>1, <1>3, <1>6
  <2>3. CASE v = Len(users) + 1 /\ u \in DOMAIN users
    BY <2>3, <1>1, <1>3, <1>6
  <2> QED  BY <2>1, <2>2, <2>3, <1>3
<1>9. \A u \in DOMAIN users : users[u].version >= users[u].version
  BY <1>4 DEF User
<1> QED  BY <1>3, <1>5, <1>8, <1>9 DEF UsersInv, UsersEvolve, VersionsStay, new

\* One account is rewritten with the same address and golfer.
LEMMA UserChanged ==
    ASSUME UsersInv, NEW u \in DOMAIN users, NEW row \in User,
           users' = [users EXCEPT ![u] = row],
           row.email = users[u].email, row.golfer = users[u].golfer,
           users[u].verified => row.verified,
           \/ row.version = users[u].version /\ row.password = users[u].password
           \/ row.version = users[u].version + 1
    PROVE  /\ UsersInv' /\ UsersEvolve
           /\ DOMAIN users' = DOMAIN users
           /\ users'[u] = row /\ \A v \in DOMAIN users : v # u => users'[v] = users[v]
<1>1. /\ users' \in Seq(User) /\ Len(users') = Len(users) /\ DOMAIN users' = DOMAIN users
      /\ \A v \in DOMAIN users : users'[v] = IF v = u THEN row ELSE users[v]
  BY RowChanged DEF UsersInv
<1>2. \A v \in DOMAIN users : users[v] \in User
  BY Rows DEF UsersInv
<1>3. \A v \in DOMAIN users : users'[v].email = users[v].email /\ users'[v].golfer = users[v].golfer
  BY <1>1
<1>4. UsersInv'
  BY <1>1, <1>3 DEF UsersInv, AccountsCapped, AccountsApart
<1>5. \A v \in DOMAIN users : users[v].version \in Nat
  BY <1>2 DEF User
<1>6. ASSUME NEW v \in DOMAIN users
      PROVE  /\ users[v].verified => users'[v].verified
             /\ users'[v].version >= users[v].version
             /\ users'[v].version = users[v].version => users'[v].password = users[v].password
  BY <1>1, <1>5
<1>7. UsersEvolve
  BY <1>1, <1>3, <1>6 DEF UsersEvolve
<1> QED  BY <1>1, <1>4, <1>7

-----------------------------------------------------------------------------
(* The links of accounts.                                                   *)

UserLinksInv ==
    /\ userLinks \in Seq(UserLink)
    /\ \A i \in DOMAIN userLinks : userLinks[i].user \in DOMAIN users
    /\ \A i, j \in DOMAIN userLinks :
          /\ Open(userLinks[i]) /\ Open(userLinks[j])
          /\ userLinks[i].user = userLinks[j].user
          /\ userLinks[i].purpose = userLinks[j].purpose
          => i = j
    /\ \A i \in DOMAIN userLinks :
          Open(userLinks[i]) => userLinks[i].version = users[userLinks[i].user].version

\* Rows stay what they were made for, and a completed one stays completed.
UserLinkFrom(new, old) ==
    /\ new.user = old.user /\ new.purpose = old.purpose /\ new.version = old.version
    /\ old.consumed => new.consumed
    /\ Open(new) => Open(old)

UserLinksStay ==
    /\ DOMAIN userLinks \subseteq DOMAIN userLinks'
    /\ \A i \in DOMAIN userLinks : UserLinkFrom(userLinks'[i], userLinks[i])

LEMMA UserRowsRevoked ==
    ASSUME NEW links \in Seq(UserLink), NEW which, NEW new, new = Revoked(links, which)
    PROVE  /\ new \in Seq(UserLink) /\ Len(new) = Len(links) /\ DOMAIN new = DOMAIN links
           /\ \A i \in DOMAIN links : /\ UserLinkFrom(new[i], links[i])
                                      /\ Open(new[i]) => i \notin which
<1> DEFINE S == UserLink
<1>1. S \in {UserLink, SetLink} /\ links \in Seq(S)
  OBVIOUS
<1> HIDE DEF S
<1>2. /\ Revoked(links, which) \in Seq(S)
      /\ Len(Revoked(links, which)) = Len(links)
      /\ DOMAIN Revoked(links, which) = DOMAIN links
      /\ \A i \in DOMAIN links :
            /\ Revoked(links, which)[i] \in {links[i], [links[i] EXCEPT !.revoked = TRUE]}
            /\ Open(Revoked(links, which)[i]) <=> Open(links[i]) /\ i \notin which
  BY <1>1, RowsRevoked
<1>3. \A i \in DOMAIN links : links[i] \in UserLink
  BY Rows
<1>4. \A i \in DOMAIN links : UserLinkFrom(new[i], links[i])
  <2> SUFFICES ASSUME NEW i \in DOMAIN links PROVE UserLinkFrom(new[i], links[i])
    OBVIOUS
  <2>1. /\ new[i] \in {links[i], [links[i] EXCEPT !.revoked = TRUE]}
        /\ Open(new[i]) => Open(links[i])
    BY <1>2
  <2>2. links[i] \in UserLink
    BY <1>3
  <2> QED  BY <2>1, <2>2 DEF UserLink, UserLinkFrom
<1> QED  BY <1>2, <1>4 DEF S

LEMMA UserLinksNarrow ==
    ASSUME UserLinksInv, UsersEvolve, userLinks' \in Seq(UserLink), DOMAIN userLinks' = DOMAIN userLinks,
           \A i \in DOMAIN userLinks : UserLinkFrom(userLinks'[i], userLinks[i]),
           \A i \in DOMAIN userLinks : Open(userLinks'[i]) =>
              users'[userLinks[i].user].version = users[userLinks[i].user].version
    PROVE  UserLinksInv' /\ UserLinksStay
BY DEF UserLinksInv, UsersEvolve, UserLinksStay, UserLinkFrom

LEMMA UserLinksSame ==
    ASSUME UserLinksInv, UsersEvolve, VersionsStay, userLinks' = userLinks
    PROVE  UserLinksInv' /\ UserLinksStay
<1>1. \A i \in DOMAIN userLinks : UserLinkFrom(userLinks'[i], userLinks[i])
  BY DEF UserLinkFrom
<1> QED  BY <1>1, UserLinksNarrow DEF UserLinksInv, VersionsStay

\* issue_token
LEMMA UserLinkIssued ==
    ASSUME UserLinksInv, UsersEvolve, VersionsStay,
           NEW u \in DOMAIN users', NEW purpose \in Purposes, NEW ttl \in Nat, now \in Nat,
           userLinks' = Issued(userLinks, u, users'[u].version, purpose, ttl)
    PROVE  UserLinksInv' /\ UserLinksStay
<1> DEFINE which == {i \in DOMAIN userLinks : userLinks[i].user = u /\ userLinks[i].purpose = purpose}
           old == Revoked(userLinks, which)
           new == [user |-> u, purpose |-> purpose, expires |-> now + ttl, consumed |-> FALSE,
                   revoked |-> FALSE, version |-> users'[u].version]
<1>1. userLinks' = Append(old, new)
  BY DEF Issued
<1>5. \A i \in DOMAIN userLinks : i \in which <=> userLinks[i].user = u /\ userLinks[i].purpose = purpose
  OBVIOUS
<1> HIDE DEF which
<1>2. /\ old \in Seq(UserLink) /\ Len(old) = Len(userLinks) /\ DOMAIN old = DOMAIN userLinks
      /\ \A i \in DOMAIN userLinks : /\ UserLinkFrom(old[i], userLinks[i])
                                     /\ Open(old[i]) => i \notin which
  BY UserRowsRevoked DEF UserLinksInv
<1>3. u \in Nat \ {0} /\ users'[u].version \in Nat
  <2>1. users' \in Seq(User)
    BY DEF UsersEvolve
  <2>2. DOMAIN users' = 1..Len(users') /\ Len(users') \in Nat /\ users'[u] \in User
    BY <2>1, Rows
  <2> QED  BY <2>2 DEF User
<1>4. new \in UserLink /\ new.user = u /\ new.purpose = purpose /\ new.version = users'[u].version
  BY <1>3 DEF UserLink
<1> HIDE DEF old, new
<1> DEFINE n == Len(old) + 1
<1>6. /\ userLinks' \in Seq(UserLink) /\ DOMAIN userLinks' = DOMAIN userLinks \cup {n}
      /\ n \notin DOMAIN userLinks /\ userLinks'[n] = new
      /\ \A i \in DOMAIN userLinks : userLinks'[i] = old[i]
  BY <1>1, <1>2, <1>4, RowAdded
<1> HIDE DEF n
<1>8. ASSUME NEW i \in DOMAIN userLinks
      PROVE  /\ UserLinkFrom(userLinks'[i], userLinks[i])
             /\ Open(userLinks'[i]) => ~(userLinks[i].user = u /\ userLinks[i].purpose = purpose)
  BY <1>2, <1>5, <1>6
<1>9. UserLinksStay
  BY <1>6, <1>8 DEF UserLinksStay
<1>10. \A i \in DOMAIN userLinks' : userLinks'[i].user \in DOMAIN users'
  BY <1>4, <1>6, <1>8 DEF UserLinkFrom, UserLinksInv, UsersEvolve
<1>11. \A i, j \in DOMAIN userLinks' :
          /\ Open(userLinks'[i]) /\ Open(userLinks'[j])
          /\ userLinks'[i].user = userLinks'[j].user
          /\ userLinks'[i].purpose = userLinks'[j].purpose
          => i = j
  BY <1>4, <1>6, <1>8 DEF UserLinkFrom, UserLinksInv
<1>12. \A i \in DOMAIN userLinks' :
          Open(userLinks'[i]) => userLinks'[i].version = users'[userLinks'[i].user].version
  BY <1>4, <1>6, <1>8 DEF UserLinkFrom, UserLinksInv, VersionsStay
<1> QED  BY <1>6, <1>9, <1>10, <1>11, <1>12 DEF UserLinksInv

\* Revoking what there is for an account, after one link of it was consumed or not,
\* closes all of it.
LEMMA UserLinksClosed ==
    ASSUME UserLinksInv, NEW u, NEW links \in Seq(UserLink), DOMAIN links = DOMAIN userLinks,
           \A i \in DOMAIN userLinks : UserLinkFrom(links[i], userLinks[i])
    PROVE  /\ UserLinksRevoked(links, u) \in Seq(UserLink)
           /\ DOMAIN UserLinksRevoked(links, u) = DOMAIN userLinks
           /\ \A i \in DOMAIN userLinks :
                 /\ UserLinkFrom(UserLinksRevoked(links, u)[i], userLinks[i])
                 /\ Open(UserLinksRevoked(links, u)[i]) => userLinks[i].user # u
<1> DEFINE which == {i \in DOMAIN links : links[i].user = u}
           new == Revoked(links, which)
<1>1. \A i \in DOMAIN links : i \in which <=> links[i].user = u
  OBVIOUS
<1>2. UserLinksRevoked(links, u) = new
  BY DEF UserLinksRevoked
<1> HIDE DEF which
<1>3. /\ new \in Seq(UserLink) /\ DOMAIN new = DOMAIN links
      /\ \A i \in DOMAIN links : /\ UserLinkFrom(new[i], links[i])
                                 /\ Open(new[i]) => i \notin which
  BY UserRowsRevoked
<1> HIDE DEF new
<1>4. ASSUME NEW i \in DOMAIN userLinks
      PROVE  UserLinkFrom(new[i], userLinks[i]) /\ (Open(new[i]) => userLinks[i].user # u)
  BY <1>1, <1>3 DEF UserLinkFrom
<1> QED  BY <1>2, <1>3, <1>4

LEMMA UserLinkConsumed ==
    ASSUME UserLinksInv, NEW i \in DOMAIN userLinks, Open(userLinks[i])
    PROVE  LET new == [userLinks EXCEPT ![i].consumed = TRUE] IN
           /\ new \in Seq(UserLink) /\ DOMAIN new = DOMAIN userLinks
           /\ \A j \in DOMAIN userLinks : UserLinkFrom(new[j], userLinks[j])
           /\ new[i].consumed
<1> DEFINE row == [userLinks[i] EXCEPT !.consumed = TRUE]
           new == [userLinks EXCEPT ![i].consumed = TRUE]
<1>1. userLinks \in Seq(UserLink) /\ userLinks[i] \in UserLink
  BY Rows DEF UserLinksInv
<1>2. /\ row \in UserLink /\ row.user = userLinks[i].user /\ row.purpose = userLinks[i].purpose
      /\ row.version = userLinks[i].version /\ row.consumed = TRUE
  BY <1>1 DEF UserLink
<1>3. new = [userLinks EXCEPT ![i] = row]
  OBVIOUS
<1> HIDE DEF row, new
<1>4. /\ new \in Seq(UserLink) /\ DOMAIN new = DOMAIN userLinks
      /\ \A j \in DOMAIN userLinks : new[j] = IF j = i THEN row ELSE userLinks[j]
  BY <1>1, <1>2, <1>3, RowChanged
<1>5. \A j \in DOMAIN userLinks : UserLinkFrom(new[j], userLinks[j])
  BY <1>2, <1>4 DEF UserLinkFrom, Open
<1> QED  BY <1>2, <1>4, <1>5 DEF new


-----------------------------------------------------------------------------
(* The links of golfers.                                                    *)

\* An open link is the newest of its golfer, and names the account that has the
\* golfer and its address, as it was when the link was issued.
SetLinksInv ==
    /\ setLinks \in Seq(SetLink)
    /\ \A l \in DOMAIN setLinks : setLinks[l].user # NoUser =>
          /\ setLinks[l].user \in DOMAIN users
          /\ users[setLinks[l].user].golfer = setLinks[l].golfer
          /\ users[setLinks[l].user].email = setLinks[l].email
    /\ \A l, m \in DOMAIN setLinks :
          Open(setLinks[l]) /\ setLinks[m].golfer = setLinks[l].golfer => m <= l
    /\ \A l \in DOMAIN setLinks :
          Open(setLinks[l]) /\ setLinks[l].user # NoUser
          => setLinks[l].version = users[setLinks[l].user].version

\* Rows stay what they were issued for; one that is completed or held stays so.
SetLinkFrom(new, old) ==
    /\ new.golfer = old.golfer /\ new.invite = old.invite /\ new.email = old.email
    /\ new.user = old.user /\ new.version = old.version
    /\ old.consumed => new.consumed
    /\ old.held => new.held
    /\ Open(new) => Open(old)

SetLinksStay ==
    /\ DOMAIN setLinks \subseteq DOMAIN setLinks'
    /\ \A l \in DOMAIN setLinks : SetLinkFrom(setLinks'[l], setLinks[l])

LEMMA SetRowsRevoked ==
    ASSUME NEW links \in Seq(SetLink), NEW which, NEW new, new = Revoked(links, which)
    PROVE  /\ new \in Seq(SetLink) /\ Len(new) = Len(links) /\ DOMAIN new = DOMAIN links
           /\ \A i \in DOMAIN links :
                 /\ SetLinkFrom(new[i], links[i])
                 /\ new[i].consumed = links[i].consumed
                 /\ Open(new[i]) => i \notin which
<1> DEFINE S == SetLink
<1>1. S \in {UserLink, SetLink} /\ links \in Seq(S)
  OBVIOUS
<1> HIDE DEF S
<1>2. /\ Revoked(links, which) \in Seq(S)
      /\ Len(Revoked(links, which)) = Len(links)
      /\ DOMAIN Revoked(links, which) = DOMAIN links
      /\ \A i \in DOMAIN links :
            /\ Revoked(links, which)[i] \in {links[i], [links[i] EXCEPT !.revoked = TRUE]}
            /\ Open(Revoked(links, which)[i]) <=> Open(links[i]) /\ i \notin which
  BY <1>1, RowsRevoked
<1>3. \A i \in DOMAIN links : links[i] \in SetLink
  BY Rows
<1>4. \A i \in DOMAIN links : SetLinkFrom(new[i], links[i]) /\ new[i].consumed = links[i].consumed
  <2> SUFFICES ASSUME NEW i \in DOMAIN links
      PROVE  SetLinkFrom(new[i], links[i]) /\ new[i].consumed = links[i].consumed
    OBVIOUS
  <2>1. CASE new[i] = links[i]
    BY <2>1 DEF SetLinkFrom
  <2>2. CASE new[i] = [links[i] EXCEPT !.revoked = TRUE]
    BY <2>2, <1>3 DEF SetLink, SetLinkFrom, Open
  <2> QED  BY <2>1, <2>2, <1>2
<1> QED  BY <1>2, <1>4 DEF S

\* Links that are only closed, while no account of one that stays open changes its
\* version, stay right.
LEMMA SetLinksNarrow ==
    ASSUME SetLinksInv, UsersEvolve, setLinks' \in Seq(SetLink), DOMAIN setLinks' = DOMAIN setLinks,
           \A l \in DOMAIN setLinks : SetLinkFrom(setLinks'[l], setLinks[l]),
           \A l \in DOMAIN setLinks : Open(setLinks'[l]) /\ setLinks[l].user # NoUser =>
              users'[setLinks[l].user].version = users[setLinks[l].user].version
    PROVE  SetLinksInv' /\ SetLinksStay
<1>1. \A l \in DOMAIN setLinks : setLinks[l].user # NoUser =>
          /\ setLinks[l].user \in DOMAIN users'
          /\ users'[setLinks[l].user].golfer = setLinks[l].golfer
          /\ users'[setLinks[l].user].email = setLinks[l].email
  BY DEF SetLinksInv, UsersEvolve
<1>2. \A l, m \in DOMAIN setLinks :
          Open(setLinks'[l]) /\ setLinks'[m].golfer = setLinks'[l].golfer => m <= l
  BY DEF SetLinksInv, SetLinkFrom
<1>3. \A l \in DOMAIN setLinks :
          Open(setLinks'[l]) /\ setLinks'[l].user # NoUser
          => setLinks'[l].version = users'[setLinks'[l].user].version
  BY DEF SetLinksInv, SetLinkFrom
<1> QED  BY <1>1, <1>2, <1>3 DEF SetLinksInv, SetLinksStay, SetLinkFrom

LEMMA SetLinksSame ==
    ASSUME SetLinksInv, UsersEvolve, VersionsStay, setLinks' = setLinks
    PROVE  SetLinksInv' /\ SetLinksStay
<1>1. \A l \in DOMAIN setLinks : SetLinkFrom(setLinks'[l], setLinks[l])
  BY DEF SetLinkFrom
<1> QED  BY <1>1, SetLinksNarrow DEF SetLinksInv, VersionsStay

\* Revoking what there is for a golfer, after one link of it was consumed or not,
\* closes all of it.
LEMMA SetLinksClosed ==
    ASSUME SetLinksInv, NEW g, NEW links \in Seq(SetLink), DOMAIN links = DOMAIN setLinks,
           \A l \in DOMAIN setLinks : SetLinkFrom(links[l], setLinks[l])
    PROVE  /\ SetLinksRevoked(links, g) \in Seq(SetLink)
           /\ Len(SetLinksRevoked(links, g)) = Len(links)
           /\ DOMAIN SetLinksRevoked(links, g) = DOMAIN setLinks
           /\ \A l \in DOMAIN setLinks :
                 /\ SetLinkFrom(SetLinksRevoked(links, g)[l], setLinks[l])
                 /\ SetLinksRevoked(links, g)[l].consumed = links[l].consumed
                 /\ Open(SetLinksRevoked(links, g)[l]) => setLinks[l].golfer # g
<1> DEFINE which == {l \in DOMAIN links : links[l].golfer = g}
           new == Revoked(links, which)
<1>1. \A l \in DOMAIN links : l \in which <=> links[l].golfer = g
  OBVIOUS
<1>2. SetLinksRevoked(links, g) = new
  BY DEF SetLinksRevoked
<1> HIDE DEF which
<1>3. /\ new \in Seq(SetLink) /\ Len(new) = Len(links) /\ DOMAIN new = DOMAIN links
      /\ \A l \in DOMAIN links :
            /\ SetLinkFrom(new[l], links[l])
            /\ new[l].consumed = links[l].consumed
            /\ Open(new[l]) => l \notin which
  BY SetRowsRevoked
<1> HIDE DEF new
<1>4. ASSUME NEW l \in DOMAIN setLinks
      PROVE  SetLinkFrom(new[l], setLinks[l]) /\ (Open(new[l]) => setLinks[l].golfer # g)
  BY <1>1, <1>3 DEF SetLinkFrom
<1> QED  BY <1>2, <1>3, <1>4

\* One link is completed, handed over or revoked.
LEMMA SetLinkChanged ==
    ASSUME SetLinksInv, NEW l \in DOMAIN setLinks,
           NEW row \in {[setLinks[l] EXCEPT !.consumed = TRUE], [setLinks[l] EXCEPT !.held = TRUE],
                        [setLinks[l] EXCEPT !.revoked = TRUE]},
           NEW new, new = [setLinks EXCEPT ![l] = row]
    PROVE  /\ new \in Seq(SetLink) /\ Len(new) = Len(setLinks) /\ DOMAIN new = DOMAIN setLinks
           /\ \A m \in DOMAIN setLinks : SetLinkFrom(new[m], setLinks[m])
           /\ \A m \in DOMAIN setLinks : new[m] = IF m = l THEN row ELSE setLinks[m]
<1>1. setLinks \in Seq(SetLink) /\ setLinks[l] \in SetLink
  BY Rows DEF SetLinksInv
<1>2. row \in SetLink /\ SetLinkFrom(row, setLinks[l])
  <2>1. CASE row = [setLinks[l] EXCEPT !.consumed = TRUE]
    BY <2>1, <1>1 DEF SetLink, SetLinkFrom, Open
  <2>2. CASE row = [setLinks[l] EXCEPT !.held = TRUE]
    BY <2>2, <1>1 DEF SetLink, SetLinkFrom, Open
  <2>3. CASE row = [setLinks[l] EXCEPT !.revoked = TRUE]
    BY <2>3, <1>1 DEF SetLink, SetLinkFrom, Open
  <2> QED  BY <2>1, <2>2, <2>3
<1>3. /\ new \in Seq(SetLink) /\ Len(new) = Len(setLinks) /\ DOMAIN new = DOMAIN setLinks
      /\ \A m \in DOMAIN setLinks : new[m] = IF m = l THEN row ELSE setLinks[m]
  BY <1>1, <1>2, RowChanged
<1>4. \A m \in DOMAIN setLinks : SetLinkFrom(new[m], setLinks[m])
  BY <1>2, <1>3 DEF SetLinkFrom
<1> QED  BY <1>3, <1>4

\* admit_join_send: older links of the golfer are revoked, under any invitation.
LEMMA SetLinkIssued ==
    ASSUME SetLinksInv, UsersInv, UsersEvolve, VersionsStay, NEW g \in Golfers, NEW new \in SetLink,
           setLinks' = Append(SetLinksRevoked(setLinks, g), new),
           new.golfer = g,
           new.user # NoUser =>
              /\ new.user \in DOMAIN users /\ users[new.user].golfer = g
              /\ users[new.user].email = new.email
              /\ new.version = users[new.user].version
    PROVE  /\ SetLinksInv' /\ SetLinksStay
           /\ Len(setLinks') = Len(setLinks) + 1
           /\ DOMAIN setLinks' = DOMAIN setLinks \cup {Len(setLinks) + 1}
           /\ Len(setLinks) + 1 \notin DOMAIN setLinks
           /\ setLinks'[Len(setLinks) + 1] = new
           /\ \A l \in DOMAIN setLinks : setLinks'[l].consumed = setLinks[l].consumed
<1> DEFINE old == SetLinksRevoked(setLinks, g)
           n == Len(setLinks) + 1
<1>1. setLinks \in Seq(SetLink) /\ DOMAIN setLinks = 1..Len(setLinks) /\ Len(setLinks) \in Nat
  BY Rows DEF SetLinksInv
<1>2. \A l \in DOMAIN setLinks : SetLinkFrom(setLinks[l], setLinks[l])
  BY DEF SetLinkFrom
<1>3. /\ old \in Seq(SetLink) /\ Len(old) = Len(setLinks) /\ DOMAIN old = DOMAIN setLinks
      /\ \A l \in DOMAIN setLinks :
            /\ SetLinkFrom(old[l], setLinks[l])
            /\ old[l].consumed = setLinks[l].consumed
            /\ Open(old[l]) => setLinks[l].golfer # g
  BY <1>1, <1>2, SetLinksClosed
<1>4. setLinks' = Append(old, new)
  OBVIOUS
<1> HIDE DEF old
<1>5. /\ setLinks' \in Seq(SetLink) /\ Len(setLinks') = Len(setLinks) + 1
      /\ DOMAIN setLinks' = DOMAIN setLinks \cup {n} /\ n \notin DOMAIN setLinks
      /\ setLinks'[n] = new
      /\ \A l \in DOMAIN setLinks : setLinks'[l] = old[l]
  BY <1>3, <1>4, RowAdded
<1>6. SetLinksStay
  BY <1>3, <1>5 DEF SetLinksStay
<1>7. ASSUME NEW l \in DOMAIN setLinks', setLinks'[l].user # NoUser
      PROVE  /\ setLinks'[l].user \in DOMAIN users'
             /\ users'[setLinks'[l].user].golfer = setLinks'[l].golfer
             /\ users'[setLinks'[l].user].email = setLinks'[l].email
             /\ Open(setLinks'[l]) => setLinks'[l].version = users'[setLinks'[l].user].version
  <2>1. CASE l = n
    BY <2>1, <1>5, <1>7 DEF UsersEvolve, VersionsStay
  <2>2. CASE l \in DOMAIN setLinks
    <3>1. SetLinkFrom(setLinks'[l], setLinks[l])
      BY <2>2, <1>3, <1>5
    <3>2. setLinks[l].user # NoUser /\ setLinks'[l].user = setLinks[l].user
      BY <3>1, <1>7 DEF SetLinkFrom
    <3>3. setLinks[l].user \in DOMAIN users
      BY <3>2, <2>2 DEF SetLinksInv
    <3>4. /\ users[setLinks[l].user].golfer = setLinks[l].golfer
          /\ users[setLinks[l].user].email = setLinks[l].email
          /\ Open(setLinks[l]) => setLinks[l].version = users[setLinks[l].user].version
      BY <3>2, <2>2 DEF SetLinksInv
    <3> QED  BY <3>1, <3>2, <3>3, <3>4 DEF UsersEvolve, VersionsStay, SetLinkFrom
  <2> QED  BY <2>1, <2>2, <1>5
<1>8. ASSUME NEW l \in DOMAIN setLinks', NEW m \in DOMAIN setLinks',
             Open(setLinks'[l]), setLinks'[m].golfer = setLinks'[l].golfer
      PROVE  m <= l
  <2>1. CASE l = n
    BY <2>1, <1>1, <1>5
  <2>2. CASE l \in DOMAIN setLinks /\ m = n
    BY <2>2, <1>3, <1>5, <1>8 DEF SetLinkFrom
  <2>3. CASE l \in DOMAIN setLinks /\ m \in DOMAIN setLinks
    BY <2>3, <1>3, <1>5, <1>8 DEF SetLinkFrom, SetLinksInv
  <2> QED  BY <2>1, <2>2, <2>3, <1>5
<1>9. SetLinksInv'
  BY <1>5, <1>7, <1>8 DEF SetLinksInv
<1> QED  BY <1>3, <1>5, <1>6, <1>9

-----------------------------------------------------------------------------
(* What holds across the tables.                                            *)

\* A cookie in a browser is of an account there is, never ahead of it, and of its
\* password while it is of its version.
CookiesInv ==
    /\ cookies \in [Browsers -> Cookie \cup {NoCookie}]
    /\ \A b \in Browsers : cookies[b] # NoCookie =>
          /\ cookies[b].user \in DOMAIN users
          /\ cookies[b].version <= users[cookies[b].user].version
          /\ cookies[b].version = users[cookies[b].user].version
             => cookies[b].password = users[cookies[b].user].password

LEMMA CookiesFollow ==
    ASSUME UsersInv, UsersEvolve, CookiesInv, NEW c \in Cookie \cup {NoCookie}, NEW b \in Anywhere,
           cookies' = cookies \/ cookies' = WithCookie(b, c),
           c # NoCookie => c.user \in DOMAIN users' /\ c.version = users'[c.user].version
                           /\ c.password = users'[c.user].password
    PROVE  CookiesInv'
<1> DEFINE Fits(d) == d # NoCookie =>
              /\ d.user \in DOMAIN users'
              /\ d.version <= users'[d.user].version
              /\ d.version = users'[d.user].version => d.password = users'[d.user].password
<1>1. \A u \in DOMAIN users : users[u] \in User
  BY Rows DEF UsersInv
<1>2. \A u \in DOMAIN users' : users'[u].version \in Nat
  <2>1. users' \in Seq(User)
    BY DEF UsersEvolve
  <2>2. \A u \in DOMAIN users' : users'[u] \in User
    BY <2>1, Rows
  <2> QED  BY <2>2 DEF User
<1>3. ASSUME NEW d \in Browsers PROVE Fits(cookies[d])
  <2>1. SUFFICES ASSUME cookies[d] # NoCookie PROVE Fits(cookies[d])
    OBVIOUS
  <2>2. /\ cookies[d].user \in DOMAIN users /\ cookies[d].version \in Nat
        /\ cookies[d].version <= users[cookies[d].user].version
        /\ cookies[d].version = users[cookies[d].user].version
             => cookies[d].password = users[cookies[d].user].password
    BY <2>1 DEF CookiesInv, Cookie
  <2>3. users[cookies[d].user].version \in Nat
    BY <2>2, <1>1 DEF User
  <2> QED  BY <2>2, <2>3, <1>2 DEF UsersEvolve
<1>4. Fits(c)
  BY <1>2
<1>5. cookies' \in [Browsers -> Cookie \cup {NoCookie}]
      /\ \A d \in Browsers : cookies'[d] \in {cookies[d], c}
  BY DEF WithCookie, CookiesInv
<1>6. \A d \in Browsers : Fits(cookies'[d])
  BY <1>3, <1>4, <1>5
<1> QED  BY <1>5, <1>6 DEF CookiesInv

\* Links of a revoked invitation are closed.
RowsLive ==
    /\ \A l \in DOMAIN setLinks : setLinks[l].invite \in DOMAIN invites
    /\ RevokedInvitesHaveNoLinks

LEMMA LinksStayLive ==
    ASSUME RowsLive, DOMAIN setLinks' = DOMAIN setLinks, SetLinksStay,
           DOMAIN invites \subseteq DOMAIN invites',
           \A l \in DOMAIN setLinks :
              Open(setLinks'[l]) /\ invites'[setLinks[l].invite].revoked => invites[setLinks[l].invite].revoked
    PROVE  RowsLive'
BY DEF RowsLive, RevokedInvitesHaveNoLinks, SetLinksStay, SetLinkFrom

\* Whoever is verified stays so by the same completed link.
LEMMA VerifiedStays ==
    ASSUME VerifiedByItsMail, UsersEvolve, UserLinksStay, SetLinksStay,
           VerificationRequired =>
              \A u \in DOMAIN users' \ {Admin} :
                 users'[u].verified /\ (u \in DOMAIN users => ~users[u].verified) =>
                    \/ \E i \in DOMAIN userLinks' : /\ userLinks'[i].user = u
                                                    /\ userLinks'[i].purpose = "verify_email"
                                                    /\ userLinks'[i].consumed
                    \/ \E l \in DOMAIN setLinks' : /\ setLinks'[l].golfer = users'[u].golfer
                                                   /\ setLinks'[l].email = users'[u].email
                                                   /\ setLinks'[l].consumed /\ setLinks'[l].held
    PROVE  VerifiedByItsMail'
<1> SUFFICES ASSUME VerificationRequired, NEW u \in DOMAIN users' \ {Admin}, users'[u].verified
    PROVE  \/ \E i \in DOMAIN userLinks' : /\ userLinks'[i].user = u
                                           /\ userLinks'[i].purpose = "verify_email"
                                           /\ userLinks'[i].consumed
           \/ \E l \in DOMAIN setLinks' : /\ setLinks'[l].golfer = users'[u].golfer
                                          /\ setLinks'[l].email = users'[u].email
                                          /\ setLinks'[l].consumed /\ setLinks'[l].held
  BY DEF VerifiedByItsMail
<1>1. CASE u \in DOMAIN users /\ users[u].verified
  <2>1. CASE \E i \in DOMAIN userLinks : /\ userLinks[i].user = u
                                         /\ userLinks[i].purpose = "verify_email"
                                         /\ userLinks[i].consumed
    BY <2>1 DEF UserLinksStay, UserLinkFrom
  <2>2. CASE \E l \in DOMAIN setLinks : /\ setLinks[l].golfer = users[u].golfer
                                        /\ setLinks[l].email = users[u].email
                                        /\ setLinks[l].consumed /\ setLinks[l].held
    BY <2>2, <1>1 DEF SetLinksStay, SetLinkFrom, UsersEvolve
  <2> QED  BY <2>1, <2>2, <1>1 DEF VerifiedByItsMail
<1> QED  BY <1>1


-----------------------------------------------------------------------------
(* The steps of Accounts.                                                   *)

BaseTyped ==
    /\ bound \in Bounds
    /\ now \in 0..bound.ticks
    /\ golfers \in [Golfers -> [email : Emails \cup {NoOne}, active : BOOLEAN]]

AccountsInv ==
    /\ BaseTyped
    /\ UsersInv
    /\ UserLinksInv
    /\ SetLinksInv
    /\ CookiesInv
    /\ VerifiedByItsMail
    /\ RowsLive

LEMMA BoundTyped ==
    ASSUME BaseTyped
    PROVE  /\ bound.passwords \subseteq Passwords
           /\ bound.edits \subseteq Golfers \X (Emails \cup {NoOne}) \X BOOLEAN
           /\ bound.ticks \in Nat /\ bound.stops \in Nat /\ now \in Nat
<1>1. bound \in Bound
  BY AccountsAssumption DEF BaseTyped, AccountsAssumption
<1> QED  BY <1>1 DEF Bound, BaseTyped

\* What no step of the accounts touches in the golfers' links.
NothingCompleted ==
    /\ SetLinksStay /\ DOMAIN setLinks' = DOMAIN setLinks
    /\ \A l \in DOMAIN setLinks : setLinks'[l].consumed = setLinks[l].consumed

LEMMA NothingHappensToSetLinks ==
    ASSUME setLinks' = setLinks
    PROVE  NothingCompleted
BY DEF NothingCompleted, SetLinksStay, SetLinkFrom

LEMMA AccountsTogether ==
    ASSUME AccountsInv, invites' = invites, BaseTyped',
           UsersInv', UsersEvolve, UserLinksInv', UserLinksStay, SetLinksInv', NothingCompleted,
           CookiesInv',
           VerificationRequired =>
              \A u \in DOMAIN users' \ {Admin} :
                 users'[u].verified /\ (u \in DOMAIN users => ~users[u].verified) =>
                    \E i \in DOMAIN userLinks' : /\ userLinks'[i].user = u
                                                 /\ userLinks'[i].purpose = "verify_email"
                                                 /\ userLinks'[i].consumed
    PROVE  AccountsInv'
<1>1. SetLinksStay /\ DOMAIN setLinks' = DOMAIN setLinks
  BY DEF NothingCompleted
<1>2. VerifiedByItsMail'
  BY <1>1, VerifiedStays DEF AccountsInv
<1>3. RowsLive'
  BY <1>1, LinksStayLive DEF AccountsInv
<1> QED  BY <1>2, <1>3 DEF AccountsInv

\* An account that nobody verified needs no evidence.
LEMMA NoneVerified ==
    ASSUME DOMAIN users' = DOMAIN users, \A u \in DOMAIN users : users'[u].verified = users[u].verified
    PROVE  \A u \in DOMAIN users' \ {Admin} :
              ~(users'[u].verified /\ (u \in DOMAIN users => ~users[u].verified))
OBVIOUS

LEMMA RegisterNewKeeps ==
    ASSUME AccountsInv, invites' = invites, NEW e \in Emails, NEW p \in Passwords, RegisterNew(e, p)
    PROVE  AccountsInv' /\ NothingCompleted
<1>1. /\ UsersInv /\ UserLinksInv /\ SetLinksInv /\ CookiesInv /\ BaseTyped
      /\ UNCHANGED <<bound, now, golfers, setLinks, cookies>>
  BY DEF AccountsInv, RegisterNew
<1>2. PICK g \in RosterGolfers(e) :
          /\ AccountsOf(g) = {}
          /\ Len(users) < MaxUsers
          /\ users' = Append(users, NewUser(e, g, p, ~VerificationRequired))
          /\ userLinks' = IF VerificationRequired
                          THEN Issued(userLinks, Len(users) + 1, 1, "verify_email", VerifyTTL)
                          ELSE userLinks
  BY DEF RegisterNew
<1>3. g \in Golfers /\ UserOf(e) = {} /\ (~VerificationRequired) \in BOOLEAN
  BY AccountsAssumption DEF RosterGolfers, RegisterNew, AccountsAssumption
<1>4. /\ UsersInv' /\ UsersEvolve /\ VersionsStay
      /\ DOMAIN users' = DOMAIN users \cup {Len(users) + 1}
      /\ users'[Len(users) + 1] = NewUser(e, g, p, ~VerificationRequired)
      /\ \A u \in DOMAIN users : users'[u] = users[u]
  BY <1>1, <1>2, <1>3, UserAdded
<1>5. users'[Len(users) + 1].version = 1 /\ users'[Len(users) + 1].verified = ~VerificationRequired
  BY <1>4 DEF NewUser
<1>6. UserLinksInv' /\ UserLinksStay
  <2>1. CASE VerificationRequired
    <3>1. userLinks' = Issued(userLinks, Len(users) + 1, users'[Len(users) + 1].version,
                              "verify_email", VerifyTTL)
      BY <2>1, <1>2, <1>5
    <3>2. Len(users) + 1 \in DOMAIN users' /\ "verify_email" \in Purposes /\ VerifyTTL \in Nat
          /\ now \in Nat
      BY <1>1, <1>4, AccountsAssumption, BoundTyped DEF Purposes, AccountsAssumption
    <3> QED  BY <3>1, <3>2, <1>1, <1>4, UserLinkIssued
  <2>2. CASE ~VerificationRequired
    BY <2>2, <1>1, <1>2, <1>4, UserLinksSame
  <2> QED  BY <2>1, <2>2
<1>7. SetLinksInv' /\ NothingCompleted
  BY <1>1, <1>4, SetLinksSame, NothingHappensToSetLinks
<1>8. CookiesInv'
  BY <1>1, <1>4, CookiesFollow DEF Anywhere
<1>9. BaseTyped'
  BY <1>1 DEF BaseTyped
<1>10. VerificationRequired =>
          \A u \in DOMAIN users' \ {Admin} :
             ~(users'[u].verified /\ (u \in DOMAIN users => ~users[u].verified))
  BY <1>4, <1>5
<1> QED  BY <1>1, <1>4, <1>6, <1>7, <1>8, <1>9, <1>10, AccountsTogether

LEMMA RegisterAgainKeeps ==
    ASSUME AccountsInv, invites' = invites, NEW e \in Emails, RegisterAgain(e)
    PROVE  AccountsInv' /\ NothingCompleted
<1>1. /\ UsersInv /\ UserLinksInv /\ SetLinksInv /\ CookiesInv /\ BaseTyped
      /\ UNCHANGED <<bound, now, golfers, setLinks, cookies>>
  BY DEF AccountsInv, RegisterAgain
<1>2. PICK u \in UserOf(e) :
          IF VerificationRequired
          THEN /\ userLinks' = Issued(userLinks, u, users[u].version, "verify_email", VerifyTTL)
               /\ UNCHANGED users
          ELSE /\ users' = [users EXCEPT ![u].verified = TRUE]
               /\ UNCHANGED userLinks
  BY DEF RegisterAgain
<1>3. u \in DOMAIN users
  BY DEF UserOf
<1>4. BaseTyped'
  BY <1>1 DEF BaseTyped
<1>5. CASE VerificationRequired
  <2>1. UsersInv' /\ UsersEvolve /\ VersionsStay /\ users' = users
    BY <1>1, <1>2, <1>5, UsersSame
  <2>2. /\ userLinks' = Issued(userLinks, u, users'[u].version, "verify_email", VerifyTTL)
        /\ u \in DOMAIN users' /\ "verify_email" \in Purposes /\ VerifyTTL \in Nat /\ now \in Nat
    BY <1>1, <1>2, <1>3, <1>5, <2>1, AccountsAssumption, BoundTyped DEF Purposes, AccountsAssumption
  <2>3. UserLinksInv' /\ UserLinksStay
    BY <2>1, <2>2, <1>1, UserLinkIssued
  <2>4. SetLinksInv' /\ NothingCompleted
    BY <1>1, <2>1, SetLinksSame, NothingHappensToSetLinks
  <2>5. CookiesInv'
    BY <1>1, <2>1, CookiesFollow DEF Anywhere
  <2> QED  BY <2>1, <2>3, <2>4, <2>5, <1>1, <1>4, AccountsTogether, NoneVerified
<1>6. CASE ~VerificationRequired
  <2> DEFINE row == [users[u] EXCEPT !.verified = TRUE]
  <2>1. users[u] \in User /\ users' = [users EXCEPT ![u] = row]
    BY <1>1, <1>2, <1>3, <1>6, Rows DEF UsersInv
  <2>2. row \in User /\ row.email = users[u].email /\ row.golfer = users[u].golfer
        /\ row.verified = TRUE /\ row.version = users[u].version /\ row.password = users[u].password
    BY <2>1 DEF User
  <2> HIDE DEF row
  <2>3. /\ UsersInv' /\ UsersEvolve /\ DOMAIN users' = DOMAIN users
        /\ users'[u] = row /\ \A v \in DOMAIN users : v # u => users'[v] = users[v]
    BY <1>1, <1>3, <2>1, <2>2, UserChanged
  <2>4. VersionsStay
    BY <2>2, <2>3 DEF VersionsStay
  <2>5. UserLinksInv' /\ UserLinksStay
    BY <1>1, <1>2, <1>6, <2>3, <2>4, UserLinksSame
  <2>6. SetLinksInv' /\ NothingCompleted
    BY <1>1, <2>3, <2>4, SetLinksSame, NothingHappensToSetLinks
  <2>7. CookiesInv'
    BY <1>1, <2>3, CookiesFollow DEF Anywhere
  <2> QED  BY <2>3, <2>5, <2>6, <2>7, <1>1, <1>4, <1>6, AccountsTogether
<1> QED  BY <1>5, <1>6

\* A verification, cut short between its two commits or not.
LEMMA FollowVerifyKeeps ==
    ASSUME AccountsInv, invites' = invites, NEW i \in DOMAIN userLinks, NEW marked \in BOOLEAN,
           FollowVerify(i, marked)
    PROVE  AccountsInv' /\ NothingCompleted
<1> DEFINE u == userLinks[i].user
           row == [users[u] EXCEPT !.verified = TRUE]
<1>1. /\ UsersInv /\ UserLinksInv /\ SetLinksInv /\ CookiesInv /\ BaseTyped
      /\ UNCHANGED <<bound, now, golfers, setLinks, cookies>>
      /\ userLinks' = [userLinks EXCEPT ![i].consumed = TRUE]
      /\ users' = IF marked THEN [users EXCEPT ![u].verified = TRUE] ELSE users
      /\ userLinks[i].purpose = "verify_email" /\ Open(userLinks[i])
  BY DEF AccountsInv, FollowVerify, Usable
<1>2. u \in DOMAIN users
  BY <1>1 DEF UserLinksInv
<1>3. /\ userLinks' \in Seq(UserLink) /\ DOMAIN userLinks' = DOMAIN userLinks
      /\ \A j \in DOMAIN userLinks : UserLinkFrom(userLinks'[j], userLinks[j])
      /\ userLinks'[i].consumed
  BY <1>1, UserLinkConsumed
<1>4. /\ UsersInv' /\ UsersEvolve /\ VersionsStay /\ DOMAIN users' = DOMAIN users
      /\ \A v \in DOMAIN users : v # u => users'[v] = users[v]
  <2>1. CASE ~marked
    BY <2>1, <1>1, UsersSame
  <2>2. CASE marked
    <3>1. users[u] \in User /\ users' = [users EXCEPT ![u] = row]
      BY <1>1, <1>2, <2>2, Rows DEF UsersInv
    <3>2. row \in User /\ row.email = users[u].email /\ row.golfer = users[u].golfer
          /\ row.verified = TRUE /\ row.version = users[u].version /\ row.password = users[u].password
      BY <3>1 DEF User
    <3> HIDE DEF row
    <3>3. /\ UsersInv' /\ UsersEvolve /\ DOMAIN users' = DOMAIN users
          /\ users'[u] = row /\ \A v \in DOMAIN users : v # u => users'[v] = users[v]
      BY <1>1, <1>2, <3>1, <3>2, UserChanged
    <3>4. VersionsStay
      BY <3>2, <3>3 DEF VersionsStay
    <3> QED  BY <3>3, <3>4
  <2> QED  BY <2>1, <2>2
<1>5. UserLinksInv' /\ UserLinksStay
  BY <1>1, <1>3, <1>4, UserLinksNarrow DEF UserLinksInv, VersionsStay
<1>6. SetLinksInv' /\ NothingCompleted
  BY <1>1, <1>4, SetLinksSame, NothingHappensToSetLinks
<1>7. CookiesInv'
  BY <1>1, <1>4, CookiesFollow DEF Anywhere
<1>8. BaseTyped'
  BY <1>1 DEF BaseTyped
<1>9. \A v \in DOMAIN users' \ {Admin} :
         users'[v].verified /\ (v \in DOMAIN users => ~users[v].verified) =>
            \E j \in DOMAIN userLinks' : /\ userLinks'[j].user = v
                                         /\ userLinks'[j].purpose = "verify_email"
                                         /\ userLinks'[j].consumed
  <2>1. userLinks'[i].user = u /\ userLinks'[i].purpose = "verify_email"
    BY <1>1, <1>3 DEF UserLinkFrom
  <2> QED  BY <2>1, <1>3, <1>4
<1> QED  BY <1>1, <1>4, <1>5, <1>6, <1>7, <1>8, <1>9, AccountsTogether

LEMMA RequestResetKeeps ==
    ASSUME AccountsInv, invites' = invites, NEW e \in Emails, RequestReset(e)
    PROVE  AccountsInv' /\ NothingCompleted
<1>1. /\ UsersInv /\ UserLinksInv /\ SetLinksInv /\ CookiesInv /\ BaseTyped
      /\ UNCHANGED <<bound, now, golfers, users, setLinks, cookies>>
  BY DEF AccountsInv, RequestReset
<1>2. PICK u \in UserOf(e) :
          userLinks' = Issued(userLinks, u, users[u].version, "reset_password", ResetTTL)
  BY DEF RequestReset
<1>3. UsersInv' /\ UsersEvolve /\ VersionsStay /\ users' = users
  BY <1>1, UsersSame
<1>4. /\ userLinks' = Issued(userLinks, u, users'[u].version, "reset_password", ResetTTL)
      /\ u \in DOMAIN users' /\ "reset_password" \in Purposes /\ ResetTTL \in Nat /\ now \in Nat
  BY <1>1, <1>2, <1>3, AccountsAssumption, BoundTyped DEF Purposes, AccountsAssumption, UserOf
<1>5. UserLinksInv' /\ UserLinksStay
  BY <1>1, <1>3, <1>4, UserLinkIssued
<1>6. SetLinksInv' /\ NothingCompleted
  BY <1>1, <1>3, SetLinksSame, NothingHappensToSetLinks
<1>7. CookiesInv'
  BY <1>1, <1>3, CookiesFollow DEF Anywhere
<1>8. BaseTyped'
  BY <1>1 DEF BaseTyped
<1> QED  BY <1>1, <1>3, <1>5, <1>6, <1>7, <1>8, AccountsTogether, NoneVerified

\* A new password moves the account's version on.
LEMMA PasswordSet ==
    ASSUME UsersInv, NEW u \in DOMAIN users, NEW p \in Passwords,
           \/ users' = [users EXCEPT ![u].password = p, ![u].version = @ + 1]
           \/ users' = [users EXCEPT ![u].password = p, ![u].verified = TRUE, ![u].version = @ + 1]
    PROVE  /\ UsersInv' /\ UsersEvolve /\ DOMAIN users' = DOMAIN users
           /\ \A v \in DOMAIN users : v # u => users'[v] = users[v]
           /\ users' = [users EXCEPT ![u].password = p, ![u].version = @ + 1] =>
                 users'[u].verified = users[u].verified
<1> DEFINE r0 == [users[u] EXCEPT !.password = p]
           r1 == [r0 EXCEPT !.verified = TRUE]
           r2 == [r0 EXCEPT !.version = users[u].version + 1]
           r3 == [r1 EXCEPT !.version = users[u].version + 1]
<1>1. users[u] \in User /\ users \in Seq(User)
  BY Rows DEF UsersInv
<1>2. users[u].version + 1 \in Nat \ {0} /\ users[u].version + 1 # users[u].version
  BY <1>1 DEF User
<1>3. /\ r0 \in User /\ r0.email = users[u].email /\ r0.golfer = users[u].golfer
      /\ r0.verified = users[u].verified
  BY <1>1 DEF User
<1>4. \/ users' = [users EXCEPT ![u] = r2]
      \/ users' = [users EXCEPT ![u] = r3]
  BY <1>1 DEF User
<1>5. users' = [users EXCEPT ![u].password = p, ![u].version = @ + 1] => users' = [users EXCEPT ![u] = r2]
  BY <1>1 DEF User
<1> HIDE DEF r0
<1>6. /\ r1 \in User /\ r1.email = users[u].email /\ r1.golfer = users[u].golfer
      /\ r1.verified = TRUE
  BY <1>3 DEF User
<1>7. /\ r2 \in User /\ r2.email = users[u].email /\ r2.golfer = users[u].golfer
      /\ r2.verified = users[u].verified /\ r2.version = users[u].version + 1
  BY <1>2, <1>3 DEF User
<1> HIDE DEF r1
<1>8. /\ r3 \in User /\ r3.email = users[u].email /\ r3.golfer = users[u].golfer
      /\ r3.verified = TRUE /\ r3.version = users[u].version + 1
  BY <1>2, <1>6 DEF User
<1> HIDE DEF r2, r3
<1>9. CASE users' = [users EXCEPT ![u] = r2]
  <2>1. /\ UsersInv' /\ UsersEvolve /\ DOMAIN users' = DOMAIN users
        /\ users'[u] = r2 /\ \A v \in DOMAIN users : v # u => users'[v] = users[v]
    BY <1>7, <1>9, UserChanged
  <2> QED  BY <2>1, <1>7
<1>10. CASE users' = [users EXCEPT ![u] = r3]
  <2>1. /\ UsersInv' /\ UsersEvolve /\ DOMAIN users' = DOMAIN users
        /\ users'[u] = r3 /\ \A v \in DOMAIN users : v # u => users'[v] = users[v]
    BY <1>8, <1>10, UserChanged
  <2>2. users' = [users EXCEPT ![u] = r2] => users'[u] = r2
    BY <1>1
  <2> QED  BY <2>1, <2>2, <1>5, <1>7
<1> QED  BY <1>4, <1>9, <1>10

\* complete_reset_token closes the account's links of both kinds.
LEMMA CompleteResetKeeps ==
    ASSUME AccountsInv, invites' = invites, NEW i \in DOMAIN userLinks, NEW p \in Passwords,
           NEW b \in Anywhere, CompleteReset(i, p, b)
    PROVE  AccountsInv' /\ NothingCompleted
<1> DEFINE u == userLinks[i].user
           consumed == [userLinks EXCEPT ![i].consumed = TRUE]
<1>1. /\ UsersInv /\ UserLinksInv /\ SetLinksInv /\ CookiesInv /\ BaseTyped
      /\ UNCHANGED <<bound, now, golfers>>
      /\ users' = [users EXCEPT ![u].password = p, ![u].version = @ + 1]
      /\ userLinks' = UserLinksRevoked(consumed, u)
      /\ setLinks' = IF users[u].golfer = NoOne THEN setLinks
                     ELSE SetLinksRevoked(setLinks, users[u].golfer)
      /\ cookies' = WithCookie(b, NoCookie)
      /\ Open(userLinks[i])
  BY DEF AccountsInv, CompleteReset, Usable
<1>2. u \in DOMAIN users /\ users[u] \in User
  BY <1>1, Rows DEF UserLinksInv, UsersInv
<1>3. p \in Passwords
  OBVIOUS
<1>5. /\ UsersInv' /\ UsersEvolve /\ DOMAIN users' = DOMAIN users
      /\ \A v \in DOMAIN users : v # u => users'[v] = users[v]
      /\ users'[u].verified = users[u].verified
  BY <1>1, <1>2, PasswordSet
<1>6. /\ consumed \in Seq(UserLink) /\ DOMAIN consumed = DOMAIN userLinks
      /\ \A j \in DOMAIN userLinks : UserLinkFrom(consumed[j], userLinks[j])
  BY <1>1, UserLinkConsumed
<1> HIDE DEF consumed
<1>7. /\ userLinks' \in Seq(UserLink) /\ DOMAIN userLinks' = DOMAIN userLinks
      /\ \A j \in DOMAIN userLinks : /\ UserLinkFrom(userLinks'[j], userLinks[j])
                                     /\ Open(userLinks'[j]) => userLinks[j].user # u
  BY <1>1, <1>6, UserLinksClosed
<1>8. UserLinksInv' /\ UserLinksStay
  BY <1>1, <1>5, <1>7, UserLinksNarrow DEF UserLinksInv
<1>9. /\ setLinks' \in Seq(SetLink) /\ DOMAIN setLinks' = DOMAIN setLinks
      /\ \A l \in DOMAIN setLinks : /\ SetLinkFrom(setLinks'[l], setLinks[l])
                                    /\ setLinks'[l].consumed = setLinks[l].consumed
                                    /\ Open(setLinks'[l]) => setLinks[l].golfer # users[u].golfer
  <2>1. \A l \in DOMAIN setLinks : SetLinkFrom(setLinks[l], setLinks[l])
    BY DEF SetLinkFrom
  <2>2. setLinks \in Seq(SetLink) /\ \A l \in DOMAIN setLinks : setLinks[l].golfer \in Golfers
    <3>1. \A l \in DOMAIN setLinks : setLinks[l] \in SetLink
      BY <1>1, Rows DEF SetLinksInv
    <3> QED  BY <3>1, <1>1 DEF SetLinksInv, SetLink
  <2>3. CASE users[u].golfer = NoOne
    BY <2>1, <2>2, <2>3, <1>1, AccountsAssumption DEF AccountsAssumption
  <2>4. CASE users[u].golfer # NoOne
    BY <2>1, <2>2, <2>4, <1>1, SetLinksClosed
  <2> QED  BY <2>3, <2>4
<1>10. NothingCompleted
  BY <1>9 DEF NothingCompleted, SetLinksStay
<1>11. \A l \in DOMAIN setLinks : Open(setLinks'[l]) /\ setLinks[l].user # NoUser =>
          users'[setLinks[l].user].version = users[setLinks[l].user].version
  <2> HIDE DEF u
  <2> SUFFICES ASSUME NEW l \in DOMAIN setLinks, Open(setLinks'[l]), setLinks[l].user # NoUser
      PROVE  users'[setLinks[l].user] = users[setLinks[l].user]
    OBVIOUS
  <2>1. setLinks[l].user \in DOMAIN users /\ users[setLinks[l].user].golfer = setLinks[l].golfer
    BY <1>1 DEF SetLinksInv
  <2>2. setLinks[l].user # u
    BY <1>9, <2>1
  <2> QED  BY <1>5, <2>1, <2>2
<1>12. SetLinksInv'
  BY <1>1, <1>5, <1>9, <1>11, SetLinksNarrow
<1>13. CookiesInv'
  BY <1>1, <1>5, CookiesFollow
<1>14. BaseTyped'
  BY <1>1 DEF BaseTyped
<1>15. \A v \in DOMAIN users : users'[v].verified = users[v].verified
  BY <1>5
<1> QED  BY <1>1, <1>5, <1>8, <1>10, <1>12, <1>13, <1>14, <1>15, AccountsTogether, NoneVerified

\* Sessions, roster edits and the clock leave accounts and links alone.
LEMMA OtherAccountSteps ==
    ASSUME AccountsInv, invites' = invites, UNCHANGED <<bound, users, userLinks, setLinks>>,
           BaseTyped', NEW c \in Cookie \cup {NoCookie}, NEW b \in Anywhere,
           cookies' = cookies \/ cookies' = WithCookie(b, c),
           c # NoCookie => c.user \in DOMAIN users /\ c.version = users[c.user].version
                           /\ c.password = users[c.user].password
    PROVE  AccountsInv' /\ NothingCompleted
<1>1. UsersInv /\ UserLinksInv /\ SetLinksInv /\ CookiesInv
  BY DEF AccountsInv
<1>2. UsersInv' /\ UsersEvolve /\ VersionsStay
  BY <1>1, UsersSame
<1>3. UserLinksInv' /\ UserLinksStay /\ SetLinksInv' /\ NothingCompleted
  BY <1>1, <1>2, UserLinksSame, SetLinksSame, NothingHappensToSetLinks
<1>4. CookiesInv'
  BY <1>1, <1>2, CookiesFollow
<1> QED  BY <1>2, <1>3, <1>4, AccountsTogether, NoneVerified

LEMMA CookieTyped ==
    ASSUME NEW rows \in Seq(User), NEW u \in DOMAIN rows
    PROVE  /\ CookieFor(rows, u) \in Cookie
           /\ CookieFor(rows, u).user = u /\ CookieFor(rows, u).version = rows[u].version
           /\ CookieFor(rows, u).password = rows[u].password
<1>1. rows[u] \in User /\ u \in Nat \ {0}
  BY Rows
<1> QED  BY <1>1 DEF CookieFor, Cookie, User

LEMMA AccountsStep ==
    ASSUME AccountsInv, invites' = invites, AccountsNext
    PROVE  AccountsInv' /\ NothingCompleted
<1>1. BaseTyped /\ UsersInv
  BY DEF AccountsInv
<1>2. bound.passwords \subseteq Passwords /\ NoOne \in Anywhere /\ Browsers \subseteq Anywhere
  BY <1>1, BoundTyped DEF Anywhere
<1>3. ASSUME NEW e \in Emails, NEW p \in bound.passwords, Register(e, p)
      PROVE  AccountsInv' /\ NothingCompleted
  BY <1>2, <1>3, RegisterNewKeeps, RegisterAgainKeeps DEF Register
<1>4. ASSUME NEW i \in DOMAIN userLinks, VerifyEmail(i)
      PROVE  AccountsInv' /\ NothingCompleted
  BY <1>4, FollowVerifyKeeps DEF VerifyEmail
<1>5. ASSUME NEW i \in DOMAIN userLinks, NEW p \in bound.passwords, NEW b \in Anywhere,
             CompleteReset(i, p, b)
      PROVE  AccountsInv' /\ NothingCompleted
  BY <1>2, <1>5, CompleteResetKeeps
<1>6. ASSUME NEW u \in DOMAIN users, NEW b \in Browsers, Login(u, b)
      PROVE  AccountsInv' /\ NothingCompleted
  <2>1. /\ cookies' = WithCookie(b, CookieFor(users, u))
        /\ UNCHANGED <<bound, now, golfers, users, userLinks, setLinks>>
    BY <1>6 DEF Login
  <2>2. BaseTyped'
    BY <2>1, <1>1 DEF BaseTyped
  <2> QED  BY <2>1, <2>2, <1>1, <1>2, CookieTyped, OtherAccountSteps DEF UsersInv
<1>7. ASSUME NEW b \in Browsers, Logout(b)
      PROVE  AccountsInv' /\ NothingCompleted
  <2>1. /\ cookies' = WithCookie(b, NoCookie)
        /\ UNCHANGED <<bound, now, golfers, users, userLinks, setLinks>>
    BY <1>7 DEF Logout
  <2>2. BaseTyped'
    BY <2>1, <1>1 DEF BaseTyped
  <2> QED  BY <2>1, <2>2, <1>2, OtherAccountSteps
<1>8. ASSUME NEW edit \in bound.edits, EditGolfer(edit[1], edit[2], edit[3])
      PROVE  AccountsInv' /\ NothingCompleted
  <2>1. edit[1] \in Golfers /\ edit[2] \in Emails \cup {NoOne} /\ edit[3] \in BOOLEAN
    BY <1>1, BoundTyped
  <2>2. /\ golfers' = [golfers EXCEPT ![edit[1]] = [email |-> edit[2], active |-> edit[3]]]
        /\ UNCHANGED <<bound, now, users, userLinks, setLinks, cookies>>
    BY <1>8 DEF EditGolfer
  <2>3. BaseTyped'
    BY <2>1, <2>2, <1>1 DEF BaseTyped
  <2> QED  BY <2>2, <2>3, <1>2, OtherAccountSteps
<1>9. CASE Tick
  <2>1. /\ now < bound.ticks /\ now' = now + 1
        /\ UNCHANGED <<bound, golfers, users, userLinks, setLinks, cookies>>
    BY <1>9 DEF Tick
  <2>2. BaseTyped'
    BY <2>1, <1>1, BoundTyped DEF BaseTyped
  <2> QED  BY <2>1, <2>2, <1>2, OtherAccountSteps
<1> QED  BY <1>3, <1>4, <1>5, <1>6, <1>7, <1>8, <1>9, RequestResetKeeps DEF AccountsNext


-----------------------------------------------------------------------------
(* Invitations, forms and receipts.                                         *)

\* A receipt waits for an invitation whose URL was never shown, one per invitation.
ReceiptsInv ==
    /\ receipts \subseteq Receipt
    /\ \A r \in receipts : r.invite \in DOMAIN invites /\ invites[r.invite].shown = 0
    /\ \A r, s \in receipts : r.invite = s.invite => r = s
    /\ \A n \in DOMAIN invites : invites[n].shown <= 1

\* An invitation was made by a form that is used, and no two by the same.
FormsInv ==
    /\ forms \in Seq(Form)
    /\ \A n \in DOMAIN invites : invites[n].form # 0 =>
          invites[n].form \in DOMAIN forms /\ forms[invites[n].form].used
    /\ \A m, n \in DOMAIN invites :
          invites[m].form = invites[n].form /\ invites[m].form # 0 => m = n

InvitesInv ==
    /\ invites \in Seq(Invite)
    /\ ReceiptsInv
    /\ FormsInv
    /\ TwinsApart

\* What an invitation keeps; once revoked it stays so.
InviteFrom(new, old) ==
    /\ new.label = old.label /\ new.created = old.created /\ new.expires = old.expires
    /\ new.form = old.form
    /\ old.revoked => new.revoked

FormsStay ==
    /\ forms' \in Seq(Form)
    /\ DOMAIN forms \subseteq DOMAIN forms'
    /\ \A f \in DOMAIN forms : forms[f].used => forms'[f].used

LEMMA TwinsKept ==
    ASSUME invites \in Seq(Invite), TwinsApart, now \in Nat, now' \in Nat, now' >= now,
           DOMAIN invites' = DOMAIN invites,
           \A n \in DOMAIN invites : InviteFrom(invites'[n], invites[n])
    PROVE  TwinsApart'
<1>1. \A n \in DOMAIN invites : invites[n].expires \in Nat
  <2>1. \A n \in DOMAIN invites : invites[n] \in Invite
    BY Rows
  <2> QED  BY <2>1 DEF Invite
<1>2. \A n \in DOMAIN invites : Live(n)' => Live(n)
  BY <1>1 DEF Live, InviteFrom
<1> QED  BY <1>2 DEF TwinsApart, InviteFrom

\* An invitation is added last, by no form or apart from its live twins.
LEMMA TwinsAdded ==
    ASSUME invites \in Seq(Invite), TwinsApart, now \in Nat, now' = now, NEW k \in Nat,
           \A n \in DOMAIN invites : n < k,
           DOMAIN invites' = DOMAIN invites \cup {k}, k \notin DOMAIN invites,
           \A n \in DOMAIN invites : InviteFrom(invites'[n], invites[n]),
           \/ invites'[k].form = 0
           \/ \A m \in DOMAIN invites : invites[m].label = invites'[k].label /\ Live(m) =>
                 invites'[k].created - invites[m].created >= TwinSpan
    PROVE  TwinsApart'
<1>1. \A n \in DOMAIN invites : Live(n)' => Live(n)
  BY DEF Live, InviteFrom
<1>2. ASSUME NEW m \in DOMAIN invites', NEW n \in DOMAIN invites',
             m < n, invites'[n].form # 0, invites'[m].label = invites'[n].label, Live(m)'
      PROVE  invites'[n].created - invites'[m].created >= TwinSpan
  <2>0. invites \in Seq(Invite) /\ DOMAIN invites \subseteq Int
    BY Rows
  <2>1. CASE m \in DOMAIN invites /\ n \in DOMAIN invites
    BY <2>1, <1>1, <1>2 DEF TwinsApart, InviteFrom
  <2>2. CASE m \in DOMAIN invites /\ n = k
    BY <2>2, <1>1, <1>2 DEF InviteFrom
  <2>3. CASE m = k
    <3>1. n # k
      BY <2>3, <1>2
    <3>2. n < k /\ n \in Int
      BY <3>1, <2>0
    <3> QED  BY <3>1, <3>2, <2>3, <1>2
  <2> QED  BY <2>1, <2>2, <2>3
<1> QED  BY <1>2 DEF TwinsApart

LEMMA ReceiptsKept ==
    ASSUME ReceiptsInv, receipts' \subseteq receipts, DOMAIN invites' = DOMAIN invites,
           \A n \in DOMAIN invites : invites'[n].shown = invites[n].shown
    PROVE  ReceiptsInv'
BY DEF ReceiptsInv

LEMMA FormsKept ==
    ASSUME FormsInv, FormsStay, DOMAIN invites' = DOMAIN invites,
           \A n \in DOMAIN invites : invites'[n].form = invites[n].form
    PROVE  FormsInv'
BY DEF FormsInv, FormsStay

LEMMA FormsSame ==
    ASSUME FormsInv, forms' = forms
    PROVE  FormsStay
BY DEF FormsInv, FormsStay

\* Steps that only count, revoke or forget.
LEMMA InvitesKept ==
    ASSUME InvitesInv, BaseTyped, BaseTyped', now' >= now, invites' \in Seq(Invite),
           DOMAIN invites' = DOMAIN invites, receipts' \subseteq receipts, FormsStay,
           \A n \in DOMAIN invites : InviteFrom(invites'[n], invites[n])
                                     /\ invites'[n].shown = invites[n].shown
    PROVE  InvitesInv'
<1>1. now \in Nat /\ now' \in Nat
  <2>1. bound \in Bound /\ bound' \in Bound
    BY AccountsAssumption DEF BaseTyped, AccountsAssumption
  <2> QED  BY <2>1 DEF BaseTyped, Bound
<1>2. TwinsApart'
  BY <1>1, TwinsKept DEF InvitesInv
<1>3. ReceiptsInv' /\ FormsInv'
  BY ReceiptsKept, FormsKept DEF InvitesInv, InviteFrom
<1> QED  BY <1>2, <1>3 DEF InvitesInv

LEMMA InvitesSame ==
    ASSUME InvitesInv, BaseTyped, BaseTyped', now' >= now,
           invites' = invites, receipts' \subseteq receipts, FormsStay
    PROVE  InvitesInv'
BY InvitesKept DEF InvitesInv, InviteFrom

\* A receipt for an invitation that was just added.
LEMMA ReceiptAdded ==
    ASSUME ReceiptsInv, UsersInv, BaseTyped, NEW k \in Nat \ {0}, k \notin DOMAIN invites,
           receipts' = ReceiptsWith(k),
           DOMAIN invites' = DOMAIN invites \cup {k},
           \A n \in DOMAIN invites : invites'[n].shown = invites[n].shown,
           invites'[k].shown = 0
    PROVE  ReceiptsInv'
<1> DEFINE new == [invite |-> k, expires |-> now + ReceiptTTL, session |-> Session]
<1>1. users[Admin] \in User
  <2>1. users \in Seq(User) /\ 1 \in DOMAIN users
    BY Rows DEF UsersInv
  <2> QED  BY <2>1, Rows DEF Admin
<1>2. new \in Receipt /\ new.invite = k
  BY <1>1, BoundTyped, InvitesAssumption DEF Session, User, Receipt, InvitesAssumption
<1>3. \A r \in receipts' : r \in receipts \/ r = new
  BY DEF ReceiptsWith
<1> HIDE DEF new
<1> QED  BY <1>2, <1>3 DEF ReceiptsInv

LEMMA FormsShown ==
    ASSUME FormsInv, UsersInv, BaseTyped, forms' = FormsWith(forms)
    PROVE  FormsStay
<1> DEFINE new == [expires |-> now + FormTTL, session |-> Session, used |-> FALSE, known |-> TRUE]
<1>1. users[Admin] \in User
  <2>1. users \in Seq(User) /\ 1 \in DOMAIN users
    BY Rows DEF UsersInv
  <2> QED  BY <2>1, Rows DEF Admin
<1>2. new \in Form
  BY <1>1, BoundTyped, InvitesAssumption DEF Session, User, Form, InvitesAssumption
<1>3. forms' = Append(forms, new)
  BY DEF FormsWith
<1> HIDE DEF new
<1> QED  BY <1>2, <1>3, RowAdded DEF FormsInv, FormsStay

LEMMA NewInviteTyped ==
    ASSUME NEW label \in Labels, NEW ttl \in Nat, NEW form \in Nat, now \in Nat
    PROVE  /\ NewInvite(label, ttl, form) \in Invite
           /\ NewInvite(label, ttl, form).form = form /\ NewInvite(label, ttl, form).label = label
           /\ NewInvite(label, ttl, form).created = now
           /\ NewInvite(label, ttl, form).shown = 0 /\ ~NewInvite(label, ttl, form).revoked
           /\ NewInvite(label, ttl, form).sent = 0 /\ NewInvite(label, ttl, form).failed = 0
BY DEF NewInvite, Invite


-----------------------------------------------------------------------------
(* Mails and what is counted of them.                                       *)

JobsOf(n) == {j \in mail : setLinks[j.link].invite = n}
LinksOf(n) == {l \in DOMAIN setLinks : setLinks[l].invite = n}

MailInv ==
    /\ mail \subseteq Job
    /\ IsFiniteSet(mail)
    /\ \A j \in mail : j.link \in DOMAIN setLinks
    /\ OutcomesCounted

LEMMA OutcomesAre ==
    OutcomesCounted <=> \A n \in DOMAIN invites :
       invites[n].sent + invites[n].failed + Cardinality(JobsOf(n)) <= Cardinality(LinksOf(n))
BY DEF OutcomesCounted, JobsOf, LinksOf

LEMMA FiniteOfMail ==
    ASSUME IsFiniteSet(mail), setLinks \in Seq(SetLink), NEW n
    PROVE  /\ IsFiniteSet(JobsOf(n)) /\ Cardinality(JobsOf(n)) \in Nat
           /\ IsFiniteSet(LinksOf(n)) /\ Cardinality(LinksOf(n)) \in Nat
<1>1. IsFiniteSet(JobsOf(n))
  <2>1. JobsOf(n) \in SUBSET mail
    BY DEF JobsOf
  <2> QED  BY <2>1, FS_Subset
<1>2. IsFiniteSet(LinksOf(n))
  <2>1. DOMAIN setLinks = 1..Len(setLinks) /\ Len(setLinks) \in Nat
    BY Rows
  <2>2. IsFiniteSet(DOMAIN setLinks)
    BY <2>1, FS_Interval
  <2>3. LinksOf(n) \in SUBSET (DOMAIN setLinks)
    BY DEF LinksOf
  <2> QED  BY <2>2, <2>3, FS_Subset
<1> QED  BY <1>1, <1>2, FS_CardinalityType

\* While the links stay those of their invitations, jobs that end or change phase
\* leave no more of them than there were.
LEMMA MailKept ==
    ASSUME MailInv, SetLinksInv, invites \in Seq(Invite), RowsLive,
           SetLinksStay, DOMAIN setLinks' = DOMAIN setLinks,
           DOMAIN invites \subseteq DOMAIN invites',
           mail' \subseteq mail,
           \A n \in DOMAIN invites' :
              IF n \in DOMAIN invites
              THEN invites'[n].sent = invites[n].sent /\ invites'[n].failed = invites[n].failed
              ELSE invites'[n].sent = 0 /\ invites'[n].failed = 0
    PROVE  MailInv'
<1>1. setLinks \in Seq(SetLink) /\ IsFiniteSet(mail)
  BY DEF SetLinksInv, MailInv
<1>2. IsFiniteSet(mail')
  <2>1. mail' \in SUBSET mail
    OBVIOUS
  <2> QED  BY <2>1, <1>1, FS_Subset
<1>3. \A l \in DOMAIN setLinks : setLinks'[l].invite = setLinks[l].invite
  BY DEF SetLinksStay, SetLinkFrom
<1>4. ASSUME NEW n \in DOMAIN invites'
      PROVE  invites'[n].sent + invites'[n].failed + Cardinality(JobsOf(n)') <= Cardinality(LinksOf(n)')
  <2>1. LinksOf(n)' = LinksOf(n)
    BY <1>3 DEF LinksOf
  <2>2. JobsOf(n)' \in SUBSET JobsOf(n)
    BY <1>3 DEF JobsOf, MailInv
  <2>3. /\ IsFiniteSet(JobsOf(n)) /\ Cardinality(JobsOf(n)) \in Nat
        /\ Cardinality(LinksOf(n)) \in Nat
    BY <1>1, FiniteOfMail
  <2>4. Cardinality(JobsOf(n)') <= Cardinality(JobsOf(n)) /\ Cardinality(JobsOf(n)') \in Nat
    BY <2>2, <2>3, FS_Subset, FS_CardinalityType
  <2>5. CASE n \in DOMAIN invites
    <3>1. invites[n].sent + invites[n].failed + Cardinality(JobsOf(n)) <= Cardinality(LinksOf(n))
      BY <2>5, OutcomesAre DEF MailInv
    <3>2. invites[n] \in Invite
      BY <2>5, Rows
    <3>3. invites[n].sent \in Nat /\ invites[n].failed \in Nat
      BY <3>2 DEF Invite
    <3> QED  BY <3>1, <3>3, <2>1, <2>3, <2>4, <2>5
  <2>6. CASE n \notin DOMAIN invites
    <3>1. JobsOf(n)' = {}
      <4>1. JobsOf(n) = {}
        BY <2>6 DEF JobsOf, MailInv, RowsLive
      <4> QED  BY <4>1, <2>2
    <3>2. Cardinality(JobsOf(n)') = 0
      BY <3>1, FS_EmptySet
    <3> QED  BY <3>2, <2>1, <2>3, <2>6
  <2> QED  BY <2>5, <2>6
<1>5. OutcomesCounted'
  BY <1>4 DEF OutcomesCounted, JobsOf, LinksOf
<1> QED  BY <1>2, <1>5 DEF MailInv

\* A mail's phase moves on.
LEMMA MailMoved ==
    ASSUME MailInv, SetLinksInv, invites \in Seq(Invite), invites' = invites,
           SetLinksStay, DOMAIN setLinks' = DOMAIN setLinks,
           NEW j \in mail, NEW k \in Job, k.link = j.link, mail' = (mail \ {j}) \cup {k}
    PROVE  MailInv'
<1>1. setLinks \in Seq(SetLink) /\ IsFiniteSet(mail)
  BY DEF SetLinksInv, MailInv
<1>2. IsFiniteSet(mail')
  BY <1>1, FS_RemoveElement, FS_AddElement
<1>3. \A l \in DOMAIN setLinks : setLinks'[l].invite = setLinks[l].invite
  BY DEF SetLinksStay, SetLinkFrom
<1>4. ASSUME NEW n \in DOMAIN invites
      PROVE  invites'[n].sent + invites'[n].failed + Cardinality(JobsOf(n)') <= Cardinality(LinksOf(n)')
  <2>1. LinksOf(n)' = LinksOf(n)
    BY <1>3 DEF LinksOf
  <2>2. /\ IsFiniteSet(JobsOf(n)) /\ Cardinality(JobsOf(n)) \in Nat
        /\ Cardinality(LinksOf(n)) \in Nat
    BY <1>1, FiniteOfMail
  <2>3. Cardinality(JobsOf(n)') <= Cardinality(JobsOf(n)) /\ Cardinality(JobsOf(n)') \in Nat
    <3>1. CASE setLinks[j.link].invite = n
      <4>1. JobsOf(n)' = (JobsOf(n) \ {j}) \cup {k} /\ j \in JobsOf(n)
        BY <1>3, <3>1 DEF JobsOf, MailInv
      <4>2. /\ IsFiniteSet(JobsOf(n) \ {j})
            /\ Cardinality(JobsOf(n) \ {j}) = Cardinality(JobsOf(n)) - 1
        BY <4>1, <2>2, FS_RemoveElement
      <4>3. Cardinality(JobsOf(n) \ {j}) \in Nat
        BY <4>2, FS_CardinalityType
      <4>4. Cardinality((JobsOf(n) \ {j}) \cup {k}) \in
               {Cardinality(JobsOf(n) \ {j}), Cardinality(JobsOf(n) \ {j}) + 1}
        BY <4>2, FS_AddElement
      <4> QED  BY <4>1, <4>2, <4>3, <4>4, <2>2
    <3>2. CASE setLinks[j.link].invite # n
      <4>1. JobsOf(n)' = JobsOf(n)
        BY <1>3, <3>2 DEF JobsOf, MailInv
      <4> QED  BY <4>1, <2>2
    <3> QED  BY <3>1, <3>2
  <2>4. invites[n].sent + invites[n].failed + Cardinality(JobsOf(n)) <= Cardinality(LinksOf(n))
    BY OutcomesAre DEF MailInv
  <2>5. invites[n] \in Invite
    BY Rows
  <2>6. invites[n].sent \in Nat /\ invites[n].failed \in Nat
    BY <2>5 DEF Invite
  <2> QED  BY <2>1, <2>2, <2>3, <2>4, <2>6
<1>5. OutcomesCounted'
  BY <1>4 DEF OutcomesCounted, JobsOf, LinksOf
<1> QED  BY <1>2, <1>5 DEF MailInv

\* A mail's outcome is counted, once.
LEMMA MailCounted ==
    ASSUME MailInv, SetLinksInv, invites \in Seq(Invite),
           SetLinksStay, DOMAIN setLinks' = DOMAIN setLinks, DOMAIN invites' = DOMAIN invites,
           NEW j \in mail, mail' = mail \ {j},
           \A n \in DOMAIN invites :
              invites'[n].sent + invites'[n].failed =
                 IF n = setLinks[j.link].invite THEN invites[n].sent + invites[n].failed + 1
                                                ELSE invites[n].sent + invites[n].failed
    PROVE  MailInv'
<1>1. setLinks \in Seq(SetLink) /\ IsFiniteSet(mail)
  BY DEF SetLinksInv, MailInv
<1>2. IsFiniteSet(mail')
  BY <1>1, FS_RemoveElement
<1>3. \A l \in DOMAIN setLinks : setLinks'[l].invite = setLinks[l].invite
  BY DEF SetLinksStay, SetLinkFrom
<1>4. ASSUME NEW n \in DOMAIN invites
      PROVE  invites'[n].sent + invites'[n].failed + Cardinality(JobsOf(n)') <= Cardinality(LinksOf(n)')
  <2>1. LinksOf(n)' = LinksOf(n)
    BY <1>3 DEF LinksOf
  <2>2. /\ IsFiniteSet(JobsOf(n)) /\ Cardinality(JobsOf(n)) \in Nat
        /\ Cardinality(LinksOf(n)) \in Nat
    BY <1>1, FiniteOfMail
  <2>3. invites[n].sent + invites[n].failed + Cardinality(JobsOf(n)) <= Cardinality(LinksOf(n))
    BY OutcomesAre DEF MailInv
  <2>4. invites[n] \in Invite
    BY Rows
  <2>5. invites[n].sent \in Nat /\ invites[n].failed \in Nat
    BY <2>4 DEF Invite
  <2>6. CASE setLinks[j.link].invite = n
    <3>1. JobsOf(n)' = JobsOf(n) \ {j} /\ j \in JobsOf(n)
      BY <1>3, <2>6 DEF JobsOf, MailInv
    <3>2. Cardinality(JobsOf(n)') = Cardinality(JobsOf(n)) - 1
      BY <3>1, <2>2, FS_RemoveElement
    <3> QED  BY <3>2, <2>1, <2>2, <2>3, <2>5, <2>6
  <2>7. CASE setLinks[j.link].invite # n
    <3>1. JobsOf(n)' = JobsOf(n)
      BY <1>3, <2>7 DEF JobsOf, MailInv
    <3> QED  BY <3>1, <2>1, <2>2, <2>3, <2>5, <2>7
  <2> QED  BY <2>6, <2>7
<1>5. OutcomesCounted'
  BY <1>4 DEF OutcomesCounted, JobsOf, LinksOf
<1> QED  BY <1>2, <1>5 DEF MailInv

\* A link is issued with the mail that carries it.
LEMMA MailQueued ==
    ASSUME MailInv, SetLinksInv, setLinks' \in Seq(SetLink), invites \in Seq(Invite), invites' = invites,
           SetLinksStay, NEW l \in Nat \ {0}, l \notin DOMAIN setLinks,
           DOMAIN setLinks' = DOMAIN setLinks \cup {l},
           NEW k \in Job, k.link = l, mail' = mail \cup {k}
    PROVE  MailInv'
<1>1. setLinks \in Seq(SetLink) /\ IsFiniteSet(mail)
  BY DEF SetLinksInv, MailInv
<1>2. IsFiniteSet(mail')
  BY <1>1, FS_AddElement
<1>3. \A m \in DOMAIN setLinks : setLinks'[m].invite = setLinks[m].invite
  BY DEF SetLinksStay, SetLinkFrom
<1>4. ASSUME NEW n \in DOMAIN invites
      PROVE  invites'[n].sent + invites'[n].failed + Cardinality(JobsOf(n)') <= Cardinality(LinksOf(n)')
  <2>1. /\ IsFiniteSet(JobsOf(n)) /\ Cardinality(JobsOf(n)) \in Nat
        /\ IsFiniteSet(LinksOf(n)) /\ Cardinality(LinksOf(n)) \in Nat
    BY <1>1, FiniteOfMail
  <2>2. invites[n].sent + invites[n].failed + Cardinality(JobsOf(n)) <= Cardinality(LinksOf(n))
    BY OutcomesAre DEF MailInv
  <2>3. invites[n] \in Invite
    BY Rows
  <2>4. invites[n].sent \in Nat /\ invites[n].failed \in Nat
    BY <2>3 DEF Invite
  <2>5. CASE setLinks'[l].invite = n
    <3>1. LinksOf(n)' = LinksOf(n) \cup {l} /\ l \notin LinksOf(n)
      BY <1>3, <2>5 DEF LinksOf
    <3>2. JobsOf(n)' = JobsOf(n) \cup {k}
      BY <1>3, <2>5 DEF JobsOf, MailInv
    <3>3. Cardinality(LinksOf(n)') = Cardinality(LinksOf(n)) + 1
      BY <3>1, <2>1, FS_AddElement
    <3>4. Cardinality(JobsOf(n)') \in {Cardinality(JobsOf(n)), Cardinality(JobsOf(n)) + 1}
      BY <3>2, <2>1, FS_AddElement
    <3> QED  BY <3>3, <3>4, <2>1, <2>2, <2>4
  <2>6. CASE setLinks'[l].invite # n
    <3>1. LinksOf(n)' = LinksOf(n)
      BY <1>3, <2>6 DEF LinksOf
    <3>2. JobsOf(n)' = JobsOf(n)
      BY <1>3, <2>6 DEF JobsOf, MailInv
    <3> QED  BY <3>1, <3>2, <2>1, <2>2, <2>4
  <2> QED  BY <2>5, <2>6
<1>5. OutcomesCounted'
  BY <1>4 DEF OutcomesCounted, JobsOf, LinksOf
<1> QED  BY <1>2, <1>5 DEF MailInv


-----------------------------------------------------------------------------
(* The rate windows.                                                        *)

WindowsInv ==
    \A k \in DOMAIN windows :
        /\ k[1] \in Tiers
        /\ windows[k] \in [start : Nat, count : Nat]
        /\ windows[k].start \in 0..now /\ windows[k].count \in 1..Limit[k[1]]

LEMMA WindowsSame ==
    ASSUME WindowsInv, windows' = windows, now \in Nat, now' \in Nat, now' >= now
    PROVE  WindowsInv'
BY DEF WindowsInv

LEMMA KeysHaveTiers ==
    ASSUME NEW e, NEW ip, NEW n, NEW k \in Keys(e, ip, n)
    PROVE  k[1] \in Tiers
<1>1. PICK t \in Tiers : k = Key(t, e, ip, n)
  BY DEF Keys
<1> QED  BY <1>1 DEF Key, Tiers

\* check_window: an allowed request leaves a window that is running and within the limit.
LEMMA CheckedWithin ==
    ASSUME WindowsInv, now \in Nat, NEW k, k[1] \in Tiers, Checked(k).allowed
    PROVE  /\ Checked(k).next \in [start : Nat, count : Nat]
           /\ Checked(k).next.start \in 0..now /\ Checked(k).next.count \in 1..Limit[k[1]]
<1> DEFINE old == WindowAt(k)
           w == IF old = NoWindow \/ now - old.start >= Span[k[1]] THEN [start |-> now, count |-> 0] ELSE old
<1>1. Limit[k[1]] \in Nat \ {0}
  BY InvitesAssumption DEF InvitesAssumption
<1>2. old = NoWindow \/ (old \in [start : Nat, count : Nat] /\ old.start \in 0..now)
  BY DEF WindowAt, WindowsInv
<1>3. Checked(k).allowed = (w.count < Limit[k[1]]) /\ Checked(k).next = [w EXCEPT !.count = w.count + 1]
  BY DEF Checked, CheckWindow
<1> HIDE DEF old
<1>4. w \in [start : Nat, count : Nat] /\ w.start \in 0..now
  BY <1>2
<1> HIDE DEF w
<1>5. w.count < Limit[k[1]]
  BY <1>3
<1>6. w.count + 1 \in 1..Limit[k[1]]
  BY <1>1, <1>4, <1>5
<1>7. [w EXCEPT !.count = w.count + 1] \in [start : Nat, count : Nat]
      /\ [w EXCEPT !.count = w.count + 1].start = w.start
      /\ [w EXCEPT !.count = w.count + 1].count = w.count + 1
  BY <1>1, <1>4, <1>6
<1> QED  BY <1>3, <1>4, <1>6, <1>7

LEMMA WindowsAdvance ==
    ASSUME WindowsInv, now \in Nat, now' = now, NEW e, NEW ip, NEW n,
           QuotasAllow(e, ip, n), windows' = WindowsAfter(e, ip, n)
    PROVE  WindowsInv'
<1> DEFINE kept == {k \in DOMAIN windows : windows[k].start > now - Span[k[1]]}
<1>1. /\ DOMAIN windows' = kept \cup Keys(e, ip, n)
      /\ \A k \in DOMAIN windows' : windows'[k] = IF k \in Keys(e, ip, n) THEN Checked(k).next ELSE windows[k]
  BY DEF WindowsAfter
<1>2. kept \subseteq DOMAIN windows
  OBVIOUS
<1> HIDE DEF kept
<1>3. ASSUME NEW k \in DOMAIN windows'
      PROVE  /\ k[1] \in Tiers
             /\ windows'[k] \in [start : Nat, count : Nat]
             /\ windows'[k].start \in 0..now /\ windows'[k].count \in 1..Limit[k[1]]
  <2>1. CASE k \in Keys(e, ip, n)
    BY <1>1, <2>1, KeysHaveTiers, CheckedWithin DEF QuotasAllow
  <2>2. CASE k \notin Keys(e, ip, n)
    BY <1>1, <1>2, <2>2 DEF WindowsInv
  <2> QED  BY <2>1, <2>2
<1> QED  BY <1>3 DEF WindowsInv

-----------------------------------------------------------------------------
(* The invariant, and every step.                                           *)

Inv ==
    /\ AccountsInv
    /\ InvitesInv
    /\ MailInv
    /\ WindowsInv
    /\ stops \in 0..bound.stops

LEMMA InvGives ==
    ASSUME Inv
    PROVE  /\ BaseTyped /\ UsersInv /\ UserLinksInv /\ SetLinksInv /\ CookiesInv /\ RowsLive
           /\ invites \in Seq(Invite) /\ ReceiptsInv /\ FormsInv /\ TwinsApart
           /\ MailInv /\ WindowsInv /\ now \in Nat /\ bound.stops \in Nat
BY BoundTyped DEF Inv, AccountsInv, InvitesInv

\* A link that is completed in a step was fit to be.
StepCompletes ==
    \A l \in DOMAIN setLinks : setLinks'[l].consumed # setLinks[l].consumed =>
        LET k == setLinks[l] IN
        /\ ~k.consumed /\ ~k.revoked /\ k.held /\ Live(k.invite) /\ k.expires > now
        /\ \A m \in DOMAIN setLinks : setLinks[m].golfer = k.golfer => m <= l
        /\ golfers[k.golfer].email = k.email /\ golfers[k.golfer].active
        /\ IF k.user = NoUser THEN AccountsOf(k.golfer) = {} ELSE k.version = users[k.user].version

LEMMA NothingCompletes == NothingCompleted => StepCompletes
BY DEF NothingCompleted, StepCompletes

\* What a step of the accounts leaves alone.
LEMMA AccountsStepKeeps ==
    ASSUME Inv, AccountsInv', NothingCompleted, bound' = bound, now' >= now,
           invites' = invites, FormsStay, receipts' \subseteq receipts, mail' \subseteq mail,
           windows' = windows, stops' \in 0..bound.stops
    PROVE  Inv' /\ StepCompletes
<1>1. /\ BaseTyped' /\ now' \in Nat
  <2>1. BaseTyped'
    BY DEF AccountsInv
  <2>2. now' \in 0..bound'.ticks /\ bound'.ticks \in Nat
    BY <2>1, InvGives, BoundTyped DEF BaseTyped
  <2> QED  BY <2>1, <2>2
<1>2. InvitesInv'
  BY <1>1, InvGives, InvitesSame DEF Inv
<1>3. MailInv'
  BY InvGives, MailKept DEF NothingCompleted
<1>4. WindowsInv'
  BY <1>1, InvGives, WindowsSame
<1> QED  BY <1>2, <1>3, <1>4, NothingCompletes DEF Inv

LEMMA AccountsNextClock ==
    ASSUME AccountsNext, now \in Nat
    PROVE  bound' = bound /\ now' >= now
<1>1. CASE Tick
  BY <1>1 DEF Tick
<1>2. ASSUME NEW e \in Emails, NEW p, Register(e, p) PROVE UNCHANGED <<bound, now>>
  BY <1>2 DEF Register, RegisterNew, RegisterAgain
<1>3. ASSUME NEW i, VerifyEmail(i) PROVE UNCHANGED <<bound, now>>
  BY <1>3 DEF VerifyEmail, FollowVerify
<1>4. ASSUME NEW e, RequestReset(e) PROVE UNCHANGED <<bound, now>>
  BY <1>4 DEF RequestReset
<1>5. ASSUME NEW i, NEW p, NEW b, CompleteReset(i, p, b) PROVE UNCHANGED <<bound, now>>
  BY <1>5 DEF CompleteReset
<1>6. ASSUME NEW u, NEW b, Login(u, b) \/ Logout(b) PROVE UNCHANGED <<bound, now>>
  BY <1>6 DEF Login, Logout
<1>7. ASSUME NEW g, NEW e, NEW active, EditGolfer(g, e, active) PROVE UNCHANGED <<bound, now>>
  BY <1>7 DEF EditGolfer
<1>8. Tick \/ UNCHANGED <<bound, now>>
  BY <1>2, <1>3, <1>4, <1>5, <1>6, <1>7 DEF AccountsNext
<1> QED  BY <1>1, <1>8

LEMMA AccountsNextKeeps ==
    ASSUME Inv, AccountsNext, UNCHANGED inviteVars
    PROVE  Inv' /\ StepCompletes
<1>1. /\ invites' = invites /\ windows' = windows /\ mail' = mail
      /\ forms' = forms /\ receipts' = receipts /\ stops' = stops
  BY DEF inviteVars
<1>2. AccountsInv' /\ NothingCompleted
  BY <1>1, AccountsStep DEF Inv
<1>3. bound' = bound /\ now' >= now
  BY InvGives, AccountsNextClock
<1>4. FormsStay
  BY <1>1, InvGives, FormsSame
<1> QED  BY <1>1, <1>2, <1>3, <1>4, AccountsStepKeeps DEF Inv

\* A restart forgets mails, receipts and which forms are known; a verification may
\* be cut short by it.
LEMMA StopKeeps ==
    ASSUME Inv, StopNext
    PROVE  Inv' /\ StepCompletes
<1>1. ProcessStops
  BY DEF StopNext
<1>2. /\ invites' = invites /\ windows' = windows /\ mail' = {} /\ receipts' = {}
      /\ stops < bound.stops /\ stops' = stops + 1
      /\ forms' = [f \in DOMAIN forms |-> [forms[f] EXCEPT !.known = FALSE]]
  BY <1>1 DEF ProcessStops
<1>3. FormsStay
  <2>1. forms \in Seq(Form)
    BY InvGives DEF FormsInv
  <2>2. \A f \in DOMAIN forms : forms[f] \in Form
    BY <2>1, Rows
  <2>3. \A f \in DOMAIN forms : [forms[f] EXCEPT !.known = FALSE] \in Form
                                /\ [forms[f] EXCEPT !.known = FALSE].used = forms[f].used
    BY <2>2 DEF Form
  <2>4. DOMAIN forms' = DOMAIN forms /\ forms' = [f \in DOMAIN forms |-> forms'[f]]
        /\ \A f \in DOMAIN forms : forms'[f] = [forms[f] EXCEPT !.known = FALSE]
    BY <1>2
  <2>5. \A f \in DOMAIN forms : forms'[f] \in Form
    BY <2>3, <2>4
  <2>6. forms' \in Seq(Form)
    BY <2>1, <2>4, <2>5, RowsRewritten
  <2> QED  BY <2>3, <2>4, <2>6 DEF FormsStay
<1>4. stops' \in 0..bound.stops /\ receipts' \subseteq receipts /\ mail' \subseteq mail
  BY <1>2, InvGives DEF Inv
<1>5. CASE UNCHANGED accountVars
  <2>1. UNCHANGED <<bound, now, golfers, users, userLinks, setLinks, cookies>>
    BY <1>5 DEF accountVars
  <2>2. BaseTyped' /\ now' >= now
    BY <2>1, InvGives DEF BaseTyped
  <2>3. NoCookie \in Cookie \cup {NoCookie} /\ NoOne \in Anywhere
    BY DEF Anywhere
  <2>4. AccountsInv' /\ NothingCompleted
    BY <2>1, <2>2, <2>3, <1>2, OtherAccountSteps DEF Inv
  <2> QED  BY <1>2, <1>3, <1>4, <2>1, <2>2, <2>4, AccountsStepKeeps
<1>6. ASSUME NEW i \in DOMAIN userLinks, VerifyCutShort(i) PROVE Inv' /\ StepCompletes
  <2>1. AccountsInv' /\ NothingCompleted
    BY <1>2, <1>6, FollowVerifyKeeps DEF VerifyCutShort, Inv
  <2>2. bound' = bound /\ now' >= now
    BY <1>6, InvGives DEF VerifyCutShort, FollowVerify
  <2> QED  BY <1>2, <1>3, <1>4, <2>1, <2>2, AccountsStepKeeps
<1> QED  BY <1>5, <1>6 DEF StopNext


\* Steps of the admin that leave accounts and links alone.
LEMMA AccountsUntouched ==
    ASSUME Inv, UNCHANGED accountVars, DOMAIN invites \subseteq DOMAIN invites',
           \A n \in DOMAIN invites : invites'[n].revoked => invites[n].revoked
    PROVE  /\ AccountsInv' /\ NothingCompleted /\ BaseTyped' /\ now' = now /\ bound' = bound
           /\ setLinks' = setLinks
<1>1. UNCHANGED <<bound, now, golfers, users, userLinks, setLinks, cookies>>
  BY DEF accountVars
<1>2. UsersInv' /\ UsersEvolve /\ VersionsStay
  BY <1>1, InvGives, UsersSame
<1>3. UserLinksInv' /\ UserLinksStay /\ SetLinksInv' /\ NothingCompleted
  BY <1>1, <1>2, InvGives, UserLinksSame, SetLinksSame, NothingHappensToSetLinks
<1>4. NoCookie \in Cookie \cup {NoCookie} /\ NoOne \in Anywhere
  BY DEF Anywhere
<1>5. CookiesInv'
  BY <1>1, <1>2, <1>4, InvGives, CookiesFollow
<1>6. BaseTyped'
  BY <1>1, InvGives DEF BaseTyped
<1>7. VerifiedByItsMail'
  BY <1>1 DEF Inv, AccountsInv, VerifiedByItsMail
<1>8. RowsLive'
  BY <1>1, InvGives DEF RowsLive, RevokedInvitesHaveNoLinks
<1> QED  BY <1>1, <1>2, <1>3, <1>5, <1>6, <1>7, <1>8 DEF AccountsInv

\* Steps that change the golfers' links only.
LEMMA LinksOnly ==
    ASSUME Inv, UNCHANGED <<bound, now, golfers, users, userLinks, cookies>>,
           SetLinksInv', SetLinksStay, RowsLive'
    PROVE  AccountsInv' /\ BaseTyped'
<1>1. UsersInv' /\ UsersEvolve /\ VersionsStay
  BY InvGives, UsersSame
<1>2. UserLinksInv' /\ UserLinksStay
  BY <1>1, InvGives, UserLinksSame
<1>3. NoCookie \in Cookie \cup {NoCookie} /\ NoOne \in Anywhere
  BY DEF Anywhere
<1>4. CookiesInv'
  BY <1>1, <1>3, InvGives, CookiesFollow
<1>5. BaseTyped'
  BY InvGives DEF BaseTyped
<1>6. VerifiedByItsMail'
  BY <1>1, <1>2, VerifiedStays DEF Inv, AccountsInv
<1> QED  BY <1>1, <1>2, <1>4, <1>5, <1>6 DEF AccountsInv

LEMMA FormKeeps ==
    ASSUME Inv, FormsStay, UNCHANGED <<accountVars, invites, windows, mail, receipts, stops>>
    PROVE  Inv' /\ StepCompletes
<1>1. AccountsInv' /\ NothingCompleted /\ now' = now /\ bound' = bound
  BY AccountsUntouched
<1> QED  BY <1>1, InvGives, AccountsStepKeeps DEF Inv

LEMMA PostFormKeeps ==
    ASSUME Inv, NEW f \in DOMAIN forms, NEW label \in Labels, PostForm(f, label, InviteTTL)
    PROVE  Inv' /\ StepCompletes
<1> DEFINE row == [forms[f] EXCEPT !.used = TRUE]
<1>1. /\ ~forms[f].used
      /\ forms' = [forms EXCEPT ![f].used = TRUE]
      /\ IF HasTwin(label)
         THEN UNCHANGED <<invites, receipts>>
         ELSE /\ invites' = Append(invites, NewInvite(label, InviteTTL, f))
              /\ receipts' = ReceiptsWith(Len(invites) + 1)
      /\ UNCHANGED <<accountVars, windows, mail, stops>>
  BY DEF PostForm, FormsUsed
<1>2. forms \in Seq(Form) /\ forms[f] \in Form /\ f \in Nat \ {0}
  BY InvGives, Rows DEF FormsInv
<1>3. row \in Form /\ row.used = TRUE /\ forms' = [forms EXCEPT ![f] = row]
  BY <1>1, <1>2 DEF Form
<1> HIDE DEF row
<1>4. /\ forms' \in Seq(Form) /\ DOMAIN forms' = DOMAIN forms
      /\ \A g \in DOMAIN forms : forms'[g] = IF g = f THEN row ELSE forms[g]
  BY <1>2, <1>3, RowChanged
<1>5. FormsStay
  BY <1>3, <1>4 DEF FormsStay
<1>6. CASE HasTwin(label)
  BY <1>1, <1>5, <1>6, FormKeeps
<1>7. CASE ~HasTwin(label)
  <2> DEFINE k == Len(invites) + 1
             new == NewInvite(label, InviteTTL, f)
  <2>1. /\ new \in Invite /\ new.form = f /\ new.label = label /\ new.created = now
        /\ new.shown = 0 /\ ~new.revoked /\ new.sent = 0 /\ new.failed = 0
    BY <1>2, InvGives, InvitesAssumption, NewInviteTyped DEF InvitesAssumption
  <2>2. invites' = Append(invites, new) /\ receipts' = ReceiptsWith(k)
    BY <1>1, <1>7
  <2> HIDE DEF new
  <2>3. /\ invites' \in Seq(Invite) /\ DOMAIN invites' = DOMAIN invites \cup {k} /\ k \notin DOMAIN invites
        /\ invites'[k] = new /\ \A n \in DOMAIN invites : invites'[n] = invites[n]
    BY <2>1, <2>2, InvGives, RowAdded
  <2>4. k \in Nat \ {0} /\ \A n \in DOMAIN invites : n < k
    BY InvGives, Rows
  <2> HIDE DEF k
  <2>5. AccountsInv' /\ NothingCompleted /\ now' = now /\ bound' = bound /\ setLinks' = setLinks
    BY <1>1, <2>3, AccountsUntouched
  <2>6. \A n \in DOMAIN invites : InviteFrom(invites'[n], invites[n])
    BY <2>3 DEF InviteFrom
  <2>7. ASSUME NEW m \in DOMAIN invites, invites[m].label = label, Live(m)
        PROVE  now - invites[m].created >= TwinSpan
    <3>1. ~(invites[m].created > now - TwinSpan)
      BY <1>7, <2>7 DEF HasTwin
    <3>2. invites[m] \in Invite
      BY InvGives, Rows
    <3>3. invites[m].created \in Nat /\ now \in Nat /\ TwinSpan \in Nat
      BY <3>2, InvGives, InvitesAssumption DEF Invite, InvitesAssumption
    <3> QED  BY <3>1, <3>3
  <2>8. TwinsApart'
    BY <2>1, <2>3, <2>4, <2>5, <2>6, <2>7, InvGives, TwinsAdded
  <2>9. ReceiptsInv'
    BY <2>1, <2>2, <2>3, <2>4, InvGives, ReceiptAdded
  <2>10. FormsInv'
    BY <1>1, <1>3, <1>4, <2>1, <2>3, InvGives DEF FormsInv
  <2>11. InvitesInv'
    BY <2>3, <2>8, <2>9, <2>10 DEF InvitesInv
  <2>12. mail' = mail /\ windows' = windows /\ stops' = stops
    BY <1>1
  <2>13. MailInv'
    <3>1. SetLinksStay /\ DOMAIN setLinks' = DOMAIN setLinks
      BY <2>5 DEF NothingCompleted
    <3>2. \A n \in DOMAIN invites' :
             IF n \in DOMAIN invites
             THEN invites'[n].sent = invites[n].sent /\ invites'[n].failed = invites[n].failed
             ELSE invites'[n].sent = 0 /\ invites'[n].failed = 0
      BY <2>1, <2>3
    <3> QED  BY <3>1, <3>2, <2>3, <2>12, InvGives, MailKept
  <2>14. WindowsInv' /\ stops' \in 0..bound'.stops
    BY <2>5, <2>12, InvGives, WindowsSame DEF Inv
  <2> QED  BY <2>5, <2>11, <2>13, <2>14, NothingCompletes DEF Inv
<1> QED  BY <1>6, <1>7

\* Counting on an invitation: its row is the same but for a counter.
LEMMA InviteCounted ==
    ASSUME invites \in Seq(Invite), NEW n \in DOMAIN invites,
           NEW row \in Invite, invites' = [invites EXCEPT ![n] = row],
           InviteFrom(row, invites[n])
    PROVE  /\ invites' \in Seq(Invite) /\ DOMAIN invites' = DOMAIN invites
           /\ \A m \in DOMAIN invites : invites'[m] = IF m = n THEN row ELSE invites[m]
           /\ \A m \in DOMAIN invites : InviteFrom(invites'[m], invites[m])
<1>1. /\ invites' \in Seq(Invite) /\ DOMAIN invites' = DOMAIN invites
      /\ \A m \in DOMAIN invites : invites'[m] = IF m = n THEN row ELSE invites[m]
  BY RowChanged
<1> QED  BY <1>1 DEF InviteFrom

LEMMA ShowReceiptKeeps ==
    ASSUME Inv, NEW r \in receipts, ShowReceipt(r)
    PROVE  Inv' /\ StepCompletes
<1> DEFINE n == r.invite
           row == [invites[n] EXCEPT !.shown = 1]
<1>1. /\ receipts' = receipts \ {r}
      /\ invites' = IF r.expires > now THEN [invites EXCEPT ![n].shown = @ + 1] ELSE invites
      /\ UNCHANGED <<accountVars, windows, mail, forms, stops>>
  BY DEF ShowReceipt
<1>2. n \in DOMAIN invites /\ invites[n].shown = 0 /\ \A s \in receipts : s.invite = n => s = r
  BY InvGives DEF ReceiptsInv
<1>3. FormsStay
  BY <1>1, InvGives, FormsSame
<1>4. CASE ~(r.expires > now)
  <2>1. /\ invites' = invites /\ receipts' \subseteq receipts
        /\ windows' = windows /\ mail' = mail /\ stops' = stops
    BY <1>1, <1>4
  <2>2. AccountsInv' /\ NothingCompleted /\ now' = now /\ bound' = bound
    BY <1>1, <2>1, AccountsUntouched
  <2> QED  BY <2>1, <2>2, <1>3, InvGives, AccountsStepKeeps DEF Inv
<1>5. CASE r.expires > now
  <2>1. invites[n] \in Invite /\ invites \in Seq(Invite)
    BY <1>2, InvGives, Rows
  <2>12. /\ row \in Invite /\ row.revoked = invites[n].revoked /\ row.shown = 1
         /\ row.sent = invites[n].sent /\ row.failed = invites[n].failed
         /\ row.label = invites[n].label /\ row.created = invites[n].created
         /\ row.expires = invites[n].expires /\ row.form = invites[n].form
    BY <2>1 DEF Invite
  <2>2. /\ row \in Invite /\ InviteFrom(row, invites[n]) /\ row.revoked = invites[n].revoked
        /\ row.shown = 1 /\ row.sent = invites[n].sent /\ row.failed = invites[n].failed
    BY <2>12 DEF InviteFrom
  <2>3. invites' = [invites EXCEPT ![n] = row]
    <3>1. invites[n].shown + 1 = 1
      BY <1>2
    <3> QED  BY <3>1, <1>1, <1>5
  <2> HIDE DEF row, n
  <2>4. /\ invites' \in Seq(Invite) /\ DOMAIN invites' = DOMAIN invites
        /\ \A m \in DOMAIN invites : invites'[m] = IF m = n THEN row ELSE invites[m]
        /\ \A m \in DOMAIN invites : InviteFrom(invites'[m], invites[m])
    BY <1>2, <2>1, <2>2, <2>3, InviteCounted
  <2>5. AccountsInv' /\ NothingCompleted /\ BaseTyped' /\ now' = now /\ bound' = bound /\ setLinks' = setLinks
    BY <1>1, <2>2, <2>4, AccountsUntouched
  <2>6. TwinsApart'
    BY <2>1, <2>4, <2>5, InvGives, TwinsKept
  <2>7. FormsInv'
    BY <1>3, <2>4, InvGives, FormsKept DEF InviteFrom
  <2>8. ReceiptsInv'
    <3>1. \A s \in receipts' : s \in receipts /\ s.invite # n
      BY <1>1, <1>2
    <3>2. \A s \in receipts : s.invite \in DOMAIN invites /\ invites[s.invite].shown = 0
      BY InvGives DEF ReceiptsInv
    <3>3. \A s \in receipts' : s.invite \in DOMAIN invites' /\ invites'[s.invite].shown = 0
      BY <2>4, <3>1, <3>2
    <3>4. \A m \in DOMAIN invites' : invites'[m].shown <= 1
      <4>1. \A m \in DOMAIN invites : invites[m].shown <= 1
        BY InvGives DEF ReceiptsInv
      <4> QED  BY <4>1, <2>2, <2>4
    <3> QED  BY <3>1, <3>3, <3>4, InvGives DEF ReceiptsInv
  <2>9. InvitesInv'
    BY <2>4, <2>6, <2>7, <2>8 DEF InvitesInv
  <2>10. mail' = mail /\ windows' = windows /\ stops' = stops
    BY <1>1
  <2>11. MailInv'
    BY <2>1, <2>2, <2>4, <2>5, <2>10, InvGives, MailKept DEF NothingCompleted
  <2>13. WindowsInv' /\ stops' \in 0..bound'.stops
    BY <2>5, <2>10, InvGives, WindowsSame DEF Inv
  <2> QED  BY <2>5, <2>9, <2>11, <2>13, NothingCompletes DEF Inv
<1> QED  BY <1>4, <1>5

\* Revoking an invitation closes the links issued under it.
LEMMA RevocationCloses ==
    ASSUME Inv, NEW n \in DOMAIN invites, NEW rows, rows = RevokedInvite(invites, n),
           setLinks' = LinksOfInviteRevoked(n),
           UNCHANGED <<users>>
    PROVE  /\ rows \in Seq(Invite) /\ DOMAIN rows = DOMAIN invites /\ Len(rows) = Len(invites)
           /\ \A m \in DOMAIN invites :
                 /\ InviteFrom(rows[m], invites[m]) /\ rows[m].shown = invites[m].shown
                 /\ rows[m].sent = invites[m].sent /\ rows[m].failed = invites[m].failed
                 /\ m # n => rows[m] = invites[m]
           /\ SetLinksInv' /\ NothingCompleted
           /\ \A l \in DOMAIN setLinks : Open(setLinks'[l]) => setLinks[l].invite # n
<1> DEFINE row == [invites[n] EXCEPT !.revoked = TRUE]
<1>1. invites[n] \in Invite /\ invites \in Seq(Invite)
  BY InvGives, Rows
<1>2. row \in Invite /\ InviteFrom(row, invites[n]) /\ row.shown = invites[n].shown
      /\ row.sent = invites[n].sent /\ row.failed = invites[n].failed
  BY <1>1 DEF Invite, InviteFrom
<1>3. rows = [invites EXCEPT ![n] = row]
  BY DEF RevokedInvite
<1> HIDE DEF row
<1>4. /\ rows \in Seq(Invite) /\ Len(rows) = Len(invites) /\ DOMAIN rows = DOMAIN invites
      /\ \A m \in DOMAIN invites : rows[m] = IF m = n THEN row ELSE invites[m]
  BY <1>1, <1>2, <1>3, RowChanged
<1>5. \A m \in DOMAIN invites :
         /\ InviteFrom(rows[m], invites[m]) /\ rows[m].shown = invites[m].shown
         /\ rows[m].sent = invites[m].sent /\ rows[m].failed = invites[m].failed
         /\ m # n => rows[m] = invites[m]
  BY <1>2, <1>4 DEF InviteFrom
<1> DEFINE which == {l \in DOMAIN setLinks : setLinks[l].invite = n}
<1>6. \A l \in DOMAIN setLinks : l \in which <=> setLinks[l].invite = n
  OBVIOUS
<1>7. setLinks' = Revoked(setLinks, which) /\ setLinks \in Seq(SetLink)
  BY InvGives DEF LinksOfInviteRevoked, SetLinksInv
<1> HIDE DEF which
<1>8. /\ setLinks' \in Seq(SetLink) /\ DOMAIN setLinks' = DOMAIN setLinks
      /\ \A l \in DOMAIN setLinks :
            /\ SetLinkFrom(setLinks'[l], setLinks[l])
            /\ setLinks'[l].consumed = setLinks[l].consumed
            /\ Open(setLinks'[l]) => l \notin which
  BY <1>7, SetRowsRevoked
<1>9. UsersEvolve
  BY InvGives, UsersSame
<1>10. SetLinksInv' /\ SetLinksStay
  BY <1>8, <1>9, InvGives, SetLinksNarrow
<1>11. NothingCompleted
  BY <1>8, <1>10 DEF NothingCompleted
<1> QED  BY <1>4, <1>5, <1>6, <1>8, <1>10, <1>11

LEMMA RevokeInviteKeeps ==
    ASSUME Inv, NEW n \in DOMAIN invites, RevokeInvite(n)
    PROVE  Inv' /\ StepCompletes
<1>1. /\ invites' = RevokedInvite(invites, n)
      /\ setLinks' = LinksOfInviteRevoked(n)
      /\ UNCHANGED <<bound, now, golfers, users, userLinks, cookies>>
      /\ UNCHANGED <<windows, mail, forms, receipts, stops>>
  BY DEF RevokeInvite
<1>2. /\ invites' \in Seq(Invite) /\ DOMAIN invites' = DOMAIN invites
      /\ \A m \in DOMAIN invites :
            /\ InviteFrom(invites'[m], invites[m]) /\ invites'[m].shown = invites[m].shown
            /\ invites'[m].sent = invites[m].sent /\ invites'[m].failed = invites[m].failed
            /\ m # n => invites'[m] = invites[m]
      /\ SetLinksInv' /\ NothingCompleted
      /\ \A l \in DOMAIN setLinks : Open(setLinks'[l]) => setLinks[l].invite # n
  BY <1>1, RevocationCloses
<1>3. SetLinksStay /\ DOMAIN setLinks' = DOMAIN setLinks
  BY <1>2 DEF NothingCompleted
<1>4. RowsLive'
  <2>1. \A l \in DOMAIN setLinks :
           Open(setLinks'[l]) /\ invites'[setLinks[l].invite].revoked => invites[setLinks[l].invite].revoked
    BY <1>2, InvGives DEF RowsLive
  <2> QED  BY <1>2, <1>3, <2>1, InvGives, LinksStayLive
<1>5. AccountsInv' /\ BaseTyped'
  BY <1>1, <1>2, <1>3, <1>4, LinksOnly
<1>6. FormsStay
  BY <1>1, InvGives, FormsSame
<1>7. InvitesInv'
  BY <1>1, <1>2, <1>5, <1>6, InvGives, InvitesKept DEF Inv
<1>8. MailInv'
  BY <1>1, <1>2, <1>3, InvGives, MailKept
<1>9. WindowsInv' /\ stops' \in 0..bound'.stops
  BY <1>1, InvGives, WindowsSame DEF Inv
<1> QED  BY <1>2, <1>5, <1>7, <1>8, <1>9, NothingCompletes DEF Inv

LEMMA RotateInviteKeeps ==
    ASSUME Inv, NEW n \in DOMAIN invites, RotateInvite(n)
    PROVE  Inv' /\ StepCompletes
<1> DEFINE rows == RevokedInvite(invites, n)
           k == Len(invites) + 1
           new == NewInvite(invites[n].label, InviteTTL, 0)
<1>1. /\ invites' = Append(rows, new)
      /\ setLinks' = LinksOfInviteRevoked(n)
      /\ receipts' = ReceiptsWith(k)
      /\ UNCHANGED <<bound, now, golfers, users, userLinks, cookies>>
      /\ UNCHANGED <<windows, mail, forms, stops>>
  BY DEF RotateInvite
<1>2. /\ new \in Invite /\ new.form = 0 /\ new.created = now
      /\ new.shown = 0 /\ ~new.revoked /\ new.sent = 0 /\ new.failed = 0
  <2>1. invites[n] \in Invite
    BY InvGives, Rows
  <2>2. invites[n].label \in Labels
    BY <2>1 DEF Invite
  <2>3. now \in Nat
    BY InvGives
  <2>4. InviteTTL \in Nat /\ 0 \in Nat
    BY InvitesAssumption DEF InvitesAssumption
  <2> QED  BY <2>2, <2>3, <2>4, NewInviteTyped
<1> HIDE DEF new
<1>3. rows = RevokedInvite(invites, n)
  OBVIOUS
<1> HIDE DEF rows
<1>4. /\ rows \in Seq(Invite) /\ DOMAIN rows = DOMAIN invites /\ Len(rows) = Len(invites)
      /\ \A m \in DOMAIN invites :
            /\ InviteFrom(rows[m], invites[m]) /\ rows[m].shown = invites[m].shown
            /\ rows[m].sent = invites[m].sent /\ rows[m].failed = invites[m].failed
            /\ m # n => rows[m] = invites[m]
      /\ SetLinksInv' /\ NothingCompleted
      /\ \A l \in DOMAIN setLinks : Open(setLinks'[l]) => setLinks[l].invite # n
  BY <1>1, <1>3, RevocationCloses
<1>5. /\ invites' \in Seq(Invite) /\ DOMAIN invites' = DOMAIN invites \cup {k} /\ k \notin DOMAIN invites
      /\ invites'[k] = new /\ \A m \in DOMAIN invites : invites'[m] = rows[m]
  BY <1>1, <1>2, <1>4, RowAdded
<1>6. k \in Nat \ {0} /\ \A m \in DOMAIN invites : m < k
  BY InvGives, Rows
<1> HIDE DEF k
<1>7. SetLinksStay /\ DOMAIN setLinks' = DOMAIN setLinks
  BY <1>4 DEF NothingCompleted
<1>8. RowsLive'
  <2>1. \A l \in DOMAIN setLinks :
           Open(setLinks'[l]) /\ invites'[setLinks[l].invite].revoked => invites[setLinks[l].invite].revoked
    BY <1>4, <1>5, InvGives DEF RowsLive
  <2> QED  BY <1>5, <1>7, <2>1, InvGives, LinksStayLive
<1>9. AccountsInv' /\ BaseTyped'
  BY <1>1, <1>4, <1>7, <1>8, LinksOnly
<1>10. TwinsApart'
  BY <1>1, <1>2, <1>4, <1>5, <1>6, InvGives, TwinsAdded
<1>11. ReceiptsInv'
  BY <1>1, <1>2, <1>4, <1>5, <1>6, InvGives, ReceiptAdded
<1>12. FormsInv'
  <2>1. \A m \in DOMAIN invites : invites'[m].form = invites[m].form
    BY <1>4, <1>5 DEF InviteFrom
  <2>2. forms' = forms /\ invites'[k].form = 0
    BY <1>1, <1>2, <1>5
  <2>3. \A m \in DOMAIN invites' : invites'[m].form # 0 => m \in DOMAIN invites
    BY <1>5, <2>2
  <2>4. \A m \in DOMAIN invites : invites[m].form # 0 =>
           invites[m].form \in DOMAIN forms /\ forms[invites[m].form].used
    BY InvGives DEF FormsInv
  <2>5. \A m, p \in DOMAIN invites :
           invites[m].form = invites[p].form /\ invites[m].form # 0 => m = p
    BY InvGives DEF FormsInv
  <2>6. forms \in Seq(Form)
    BY InvGives DEF FormsInv
  <2> QED  BY <2>1, <2>2, <2>3, <2>4, <2>5, <2>6 DEF FormsInv
<1>13. MailInv'
  BY <1>1, <1>2, <1>4, <1>5, <1>7, InvGives, MailKept
<1>14. WindowsInv' /\ stops' \in 0..bound'.stops
  BY <1>1, InvGives, WindowsSame DEF Inv
<1> QED  BY <1>4, <1>5, <1>9, <1>10, <1>11, <1>12, <1>13, <1>14, NothingCompletes DEF Inv, InvitesInv


\* Steps that count on invitations, mail links and close them.
LEMMA CountersMove ==
    ASSUME Inv, invites' \in Seq(Invite), DOMAIN invites' = DOMAIN invites,
           \A n \in DOMAIN invites : InviteFrom(invites'[n], invites[n])
              /\ invites'[n].revoked = invites[n].revoked /\ invites'[n].shown = invites[n].shown,
           UNCHANGED <<bound, now, golfers, users, userLinks, cookies>>,
           UNCHANGED <<windows, forms, receipts, stops>>,
           SetLinksInv', NothingCompleted, MailInv'
    PROVE  Inv' /\ StepCompletes
<1>1. SetLinksStay /\ DOMAIN setLinks' = DOMAIN setLinks
  BY DEF NothingCompleted
<1>2. RowsLive'
  <2>1. \A l \in DOMAIN setLinks :
           Open(setLinks'[l]) /\ invites'[setLinks[l].invite].revoked => invites[setLinks[l].invite].revoked
    BY InvGives DEF RowsLive
  <2> QED  BY <1>1, <2>1, InvGives, LinksStayLive
<1>3. AccountsInv' /\ BaseTyped'
  BY <1>1, <1>2, LinksOnly
<1>4. FormsStay
  BY InvGives, FormsSame
<1>5. InvitesInv'
  BY <1>3, <1>4, InvGives, InvitesKept DEF Inv
<1>6. WindowsInv' /\ stops' \in 0..bound'.stops
  BY InvGives, WindowsSame DEF Inv
<1> QED  BY <1>3, <1>5, <1>6, NothingCompletes DEF Inv

LEMMA SuppressKeeps ==
    ASSUME Inv, NEW n \in DOMAIN invites, NEW e, NEW ip, Suppress(n, e, ip)
    PROVE  Inv' /\ StepCompletes
<1> DEFINE row == [invites[n] EXCEPT !.suppressed = invites[n].suppressed + 1]
<1>1. /\ invites' = [invites EXCEPT ![n] = row]
      /\ UNCHANGED <<bound, now, golfers, users, userLinks, setLinks, cookies>>
      /\ UNCHANGED <<windows, mail, forms, receipts, stops>>
  BY DEF Suppress, accountVars
<1>2. invites[n] \in Invite /\ invites \in Seq(Invite)
  BY InvGives, Rows
<1>3. invites[n].suppressed + 1 \in Nat
  <2>1. invites[n].suppressed \in Nat
    BY <1>2 DEF Invite
  <2> QED  BY <2>1
<1>4. /\ row \in Invite /\ row.revoked = invites[n].revoked /\ row.shown = invites[n].shown
      /\ row.sent = invites[n].sent /\ row.failed = invites[n].failed
      /\ row.label = invites[n].label /\ row.created = invites[n].created
      /\ row.expires = invites[n].expires /\ row.form = invites[n].form
  BY <1>2, <1>3 DEF Invite
<1> HIDE DEF row
<1>5. InviteFrom(row, invites[n])
  BY <1>4 DEF InviteFrom
<1>6. /\ invites' \in Seq(Invite) /\ DOMAIN invites' = DOMAIN invites
      /\ \A m \in DOMAIN invites : invites'[m] = IF m = n THEN row ELSE invites[m]
      /\ \A m \in DOMAIN invites : InviteFrom(invites'[m], invites[m])
  BY <1>1, <1>2, <1>4, <1>5, InviteCounted
<1>7. SetLinksInv' /\ NothingCompleted
  BY <1>1, InvGives, UsersSame, SetLinksSame, NothingHappensToSetLinks
<1>8. SetLinksStay /\ DOMAIN setLinks' = DOMAIN setLinks
  BY <1>7 DEF NothingCompleted
<1>9. \A m \in DOMAIN invites' :
         IF m \in DOMAIN invites
         THEN invites'[m].sent = invites[m].sent /\ invites'[m].failed = invites[m].failed
         ELSE invites'[m].sent = 0 /\ invites'[m].failed = 0
  BY <1>4, <1>6
<1>10. MailInv'
  BY <1>1, <1>2, <1>6, <1>8, <1>9, InvGives, MailKept
<1> QED  BY <1>1, <1>4, <1>6, <1>7, <1>10, CountersMove

LEMMA MailMovesKeeps ==
    ASSUME Inv, NEW j \in mail, NEW phase \in {"sent", "refused"}, MailMoves(j, phase)
    PROVE  Inv' /\ StepCompletes
<1> DEFINE k == [j EXCEPT !.phase = phase]
           l == j.link
           row == [setLinks[l] EXCEPT !.held = TRUE]
<1>1. /\ mail' = (mail \ {j}) \cup {k}
      /\ setLinks' = [setLinks EXCEPT ![l] = row]
      /\ UNCHANGED <<bound, now, golfers, users, userLinks, cookies>>
      /\ invites' = invites /\ UNCHANGED <<windows, forms, receipts, stops>>
  BY DEF MailMoves
<1>2. j \in Job /\ l \in DOMAIN setLinks
  BY InvGives DEF MailInv
<1>3. k \in Job /\ k.link = j.link
  BY <1>2 DEF Job
<1> HIDE DEF k, l
<1>4. setLinks[l] \in SetLink /\ setLinks \in Seq(SetLink)
  BY <1>2, InvGives, Rows DEF SetLinksInv
<1>12. SetLinksInv
  BY InvGives
<1>5. row.consumed = setLinks[l].consumed
      /\ row \in {[setLinks[l] EXCEPT !.consumed = TRUE], [setLinks[l] EXCEPT !.held = TRUE],
                  [setLinks[l] EXCEPT !.revoked = TRUE]}
  BY <1>4 DEF SetLink
<1> HIDE DEF row
<1>6. /\ setLinks' \in Seq(SetLink) /\ DOMAIN setLinks' = DOMAIN setLinks
      /\ \A m \in DOMAIN setLinks : SetLinkFrom(setLinks'[m], setLinks[m])
      /\ \A m \in DOMAIN setLinks : setLinks'[m] = IF m = l THEN row ELSE setLinks[m]
  BY <1>1, <1>2, <1>5, <1>12, SetLinkChanged
<1>7. UsersEvolve /\ VersionsStay
  BY <1>1, InvGives, UsersSame
<1>8. SetLinksInv' /\ SetLinksStay
  BY <1>6, <1>7, InvGives, SetLinksNarrow DEF SetLinksInv, VersionsStay
<1>9. NothingCompleted
  BY <1>5, <1>6, <1>8 DEF NothingCompleted
<1>10. MailInv'
  BY <1>1, <1>3, <1>6, <1>8, InvGives, MailMoved
<1>11. \A n \in DOMAIN invites : InviteFrom(invites'[n], invites[n])
  BY <1>1 DEF InviteFrom
<1> QED  BY <1>1, <1>8, <1>9, <1>10, <1>11, InvGives, CountersMove

LEMMA RecordSuccessKeeps ==
    ASSUME Inv, NEW j \in mail, RecordSuccess(j)
    PROVE  Inv' /\ StepCompletes
<1> DEFINE n == setLinks[j.link].invite
           row == [invites[n] EXCEPT !.sent = invites[n].sent + 1]
<1>1. /\ mail' = mail \ {j}
      /\ invites' = [invites EXCEPT ![n] = row]
      /\ UNCHANGED <<bound, now, golfers, users, userLinks, setLinks, cookies>>
      /\ UNCHANGED <<windows, forms, receipts, stops>>
  BY DEF RecordSuccess, accountVars
<1>2. j.link \in DOMAIN setLinks /\ n \in DOMAIN invites
  BY InvGives DEF MailInv, RowsLive
<1>3. n = setLinks[j.link].invite
  OBVIOUS
<1> HIDE DEF n
<1>4. invites[n] \in Invite /\ invites \in Seq(Invite)
  BY <1>2, InvGives, Rows
<1>5. invites[n].sent \in Nat /\ invites[n].failed \in Nat
  BY <1>4 DEF Invite
<1>6. invites[n].sent + 1 \in Nat
  BY <1>5
<1>7. /\ row \in Invite /\ row.revoked = invites[n].revoked /\ row.shown = invites[n].shown
      /\ row.sent = invites[n].sent + 1 /\ row.failed = invites[n].failed
      /\ row.label = invites[n].label /\ row.created = invites[n].created
      /\ row.expires = invites[n].expires /\ row.form = invites[n].form
  BY <1>4, <1>6 DEF Invite
<1> HIDE DEF row
<1>8. InviteFrom(row, invites[n])
  BY <1>7 DEF InviteFrom
<1>9. /\ invites' \in Seq(Invite) /\ DOMAIN invites' = DOMAIN invites
      /\ \A m \in DOMAIN invites : invites'[m] = IF m = n THEN row ELSE invites[m]
      /\ \A m \in DOMAIN invites : InviteFrom(invites'[m], invites[m])
  BY <1>1, <1>2, <1>4, <1>7, <1>8, InviteCounted
<1>10. SetLinksInv' /\ NothingCompleted
  BY <1>1, InvGives, UsersSame, SetLinksSame, NothingHappensToSetLinks
<1>11. SetLinksStay /\ DOMAIN setLinks' = DOMAIN setLinks
  BY <1>10 DEF NothingCompleted
<1>12. \A m \in DOMAIN invites :
          invites'[m].sent + invites'[m].failed =
             IF m = setLinks[j.link].invite THEN invites[m].sent + invites[m].failed + 1
                                            ELSE invites[m].sent + invites[m].failed
  BY <1>3, <1>5, <1>7, <1>9
<1>13. MailInv'
  BY <1>1, <1>4, <1>9, <1>11, <1>12, InvGives, MailCounted
<1> QED  BY <1>1, <1>7, <1>9, <1>10, <1>13, CountersMove

LEMMA RecordFailureKeeps ==
    ASSUME Inv, NEW j \in mail, RecordFailure(j)
    PROVE  Inv' /\ StepCompletes
<1> DEFINE l == j.link
           n == setLinks[l].invite
           row == [invites[n] EXCEPT !.failed = invites[n].failed + 1]
           link == [setLinks[l] EXCEPT !.revoked = TRUE]
<1>1. /\ mail' = mail \ {j}
      /\ invites' = [invites EXCEPT ![n] = row]
      /\ setLinks' = [setLinks EXCEPT ![l] = link]
      /\ UNCHANGED <<bound, now, golfers, users, userLinks, cookies>>
      /\ UNCHANGED <<windows, forms, receipts, stops>>
  BY DEF RecordFailure
<1>2. l \in DOMAIN setLinks /\ n \in DOMAIN invites
  BY InvGives DEF MailInv, RowsLive
<1>3. n = setLinks[l].invite /\ l = j.link
  OBVIOUS
<1>14. setLinks[l] \in SetLink
  BY <1>2, InvGives, Rows DEF SetLinksInv
<1>15. link.consumed = setLinks[l].consumed
       /\ link \in {[setLinks[l] EXCEPT !.consumed = TRUE], [setLinks[l] EXCEPT !.held = TRUE],
                    [setLinks[l] EXCEPT !.revoked = TRUE]}
  BY <1>14 DEF SetLink
<1> HIDE DEF n, link, l
<1>4. invites[n] \in Invite /\ invites \in Seq(Invite)
  BY <1>2, InvGives, Rows
<1>5. invites[n].sent \in Nat /\ invites[n].failed \in Nat
  BY <1>4 DEF Invite
<1>6. invites[n].failed + 1 \in Nat
  BY <1>5
<1>7. /\ row \in Invite /\ row.revoked = invites[n].revoked /\ row.shown = invites[n].shown
      /\ row.sent = invites[n].sent /\ row.failed = invites[n].failed + 1
      /\ row.label = invites[n].label /\ row.created = invites[n].created
      /\ row.expires = invites[n].expires /\ row.form = invites[n].form
  BY <1>4, <1>6 DEF Invite
<1> HIDE DEF row
<1>8. InviteFrom(row, invites[n])
  BY <1>7 DEF InviteFrom
<1>9. /\ invites' \in Seq(Invite) /\ DOMAIN invites' = DOMAIN invites
      /\ \A m \in DOMAIN invites : invites'[m] = IF m = n THEN row ELSE invites[m]
      /\ \A m \in DOMAIN invites : InviteFrom(invites'[m], invites[m])
  BY <1>1, <1>2, <1>4, <1>7, <1>8, InviteCounted
<1>18. SetLinksInv
  BY InvGives
<1>16. /\ setLinks' \in Seq(SetLink) /\ DOMAIN setLinks' = DOMAIN setLinks
       /\ \A m \in DOMAIN setLinks : SetLinkFrom(setLinks'[m], setLinks[m])
       /\ \A m \in DOMAIN setLinks : setLinks'[m] = IF m = l THEN link ELSE setLinks[m]
  BY <1>1, <1>2, <1>15, <1>18, SetLinkChanged
<1>17. UsersEvolve /\ VersionsStay
  BY <1>1, InvGives, UsersSame
<1>10. SetLinksInv' /\ SetLinksStay
  BY <1>16, <1>17, InvGives, SetLinksNarrow DEF SetLinksInv, VersionsStay
<1>11. NothingCompleted
  BY <1>10, <1>15, <1>16 DEF NothingCompleted
<1>12. \A m \in DOMAIN invites :
          invites'[m].sent + invites'[m].failed =
             IF m = setLinks[j.link].invite THEN invites[m].sent + invites[m].failed + 1
                                            ELSE invites[m].sent + invites[m].failed
  <2>1. n = setLinks[j.link].invite
    BY <1>3
  <2>2. invites'[n].sent + invites'[n].failed = invites[n].sent + invites[n].failed + 1
    BY <1>2, <1>5, <1>7, <1>9
  <2>3. \A m \in DOMAIN invites : m # n => invites'[m] = invites[m]
    BY <1>9
  <2> QED  BY <2>1, <2>2, <2>3
<1>13. MailInv'
  BY <1>1, <1>4, <1>9, <1>10, <1>12, <1>16, InvGives, MailCounted
<1> QED  BY <1>1, <1>7, <1>9, <1>10, <1>11, <1>13, CountersMove

LEMMA RecordingFailsKeeps ==
    ASSUME Inv, NEW j \in mail, RecordingFails(j)
    PROVE  Inv' /\ StepCompletes
<1>1. /\ mail' = mail \ {j}
      /\ UNCHANGED <<bound, now, golfers, users, userLinks, setLinks, cookies>>
      /\ invites' = invites /\ UNCHANGED <<windows, forms, receipts, stops>>
  BY DEF RecordingFails, accountVars
<1>2. SetLinksInv' /\ NothingCompleted
  BY <1>1, InvGives, UsersSame, SetLinksSame, NothingHappensToSetLinks
<1>3. SetLinksStay /\ DOMAIN setLinks' = DOMAIN setLinks
  BY <1>2 DEF NothingCompleted
<1>4. MailInv'
  BY <1>1, <1>3, InvGives, MailKept
<1>5. \A n \in DOMAIN invites : InviteFrom(invites'[n], invites[n])
  BY <1>1 DEF InviteFrom
<1> QED  BY <1>1, <1>2, <1>4, <1>5, InvGives, CountersMove

LEMMA MailKeeps ==
    ASSUME Inv, MailNext
    PROVE  Inv' /\ StepCompletes
BY MailMovesKeeps, RecordSuccessKeeps, RecordFailureKeeps, RecordingFailsKeeps
   DEF MailNext, SendMail, SendFails



\* _matching_identity: the account that has the address and the golfer, or nobody
\* has either.
LEMMA AccountFound ==
    ASSUME UsersInv, NEW g, NEW e, IdentityAgrees(g, e)
    PROVE  /\ AccountOf(g, e) \in Nat
           /\ AccountOf(g, e) = NoUser => UserOf(e) = {} /\ AccountsOf(g) = {}
           /\ AccountOf(g, e) # NoUser =>
                 /\ AccountOf(g, e) \in DOMAIN users
                 /\ users[AccountOf(g, e)].email = e /\ users[AccountOf(g, e)].golfer = g
                 /\ users[AccountOf(g, e)].version \in Nat
<1>1. users \in Seq(User)
  BY DEF UsersInv
<1>2. DOMAIN users \subseteq Nat \ {0} /\ \A u \in DOMAIN users : users[u] \in User
  BY <1>1, Rows
<1>3. \A u \in DOMAIN users : users[u].version \in Nat
  BY <1>2 DEF User
<1>4. Claimants(g, e) \subseteq DOMAIN users
  BY DEF Claimants, UserOf, AccountsOf
<1>5. CASE Claimants(g, e) = {}
  BY <1>5 DEF AccountOf, NoUser, Claimants
<1>6. CASE Claimants(g, e) # {}
  <2>1. AccountOf(g, e) \in Claimants(g, e)
    BY <1>6 DEF AccountOf
  <2>2. AccountOf(g, e) \in DOMAIN users /\ AccountOf(g, e) # NoUser
    BY <2>1, <1>2, <1>4 DEF NoUser
  <2> QED  BY <2>1, <2>2, <1>2, <1>3 DEF IdentityAgrees
<1> QED  BY <1>5, <1>6

\* A link is issued under a live invitation, in place of the golfer's older ones.
LEMMA AdmitKeeps ==
    ASSUME Inv, NEW n \in DOMAIN invites, NEW e \in Emails, NEW ip \in Addresses, Admit(n, e, ip)
    PROVE  Inv' /\ StepCompletes
<1>1. PICK g \in RosterGolfers(e) :
          /\ IdentityAgrees(g, e)
          /\ windows' = WindowsAfter(e, ip, n)
          /\ setLinks' = Append(SetLinksRevoked(setLinks, g),
                [golfer |-> g, invite |-> n, email |-> e, user |-> AccountOf(g, e),
                 expires |-> now + SetTTL, created |-> now, ip |-> ip, consumed |-> FALSE,
                 revoked |-> FALSE, held |-> FALSE,
                 version |-> IF AccountOf(g, e) = NoUser THEN 0 ELSE users[AccountOf(g, e)].version])
          /\ mail' = mail \cup {[link |-> Len(setLinks) + 1, phase |-> "queued"]}
  BY DEF Admit
<1>2. /\ QuotasAllow(e, ip, n) /\ ~invites[n].revoked
      /\ UNCHANGED <<bound, now, golfers, users, userLinks, cookies>>
      /\ invites' = invites /\ UNCHANGED <<forms, receipts, stops>>
  BY DEF Admit, Joining, Live
<1> DEFINE account == AccountOf(g, e)
           version == IF account = NoUser THEN 0 ELSE users[account].version
           new == [golfer |-> g, invite |-> n, email |-> e, user |-> account,
                   expires |-> now + SetTTL, created |-> now, ip |-> ip, consumed |-> FALSE,
                   revoked |-> FALSE, held |-> FALSE, version |-> version]
           l == Len(setLinks) + 1
           job == [link |-> l, phase |-> "queued"]
<1>3. g \in Golfers
  BY DEF RosterGolfers
<1>4. /\ account \in Nat
      /\ account # NoUser => /\ account \in DOMAIN users /\ users[account].golfer = g
                             /\ users[account].email = e /\ users[account].version \in Nat
  BY <1>1, InvGives, AccountFound
<1>5. setLinks' = Append(SetLinksRevoked(setLinks, g), new) /\ mail' = mail \cup {job}
  BY <1>1
<1> HIDE DEF account
<1>6. version \in Nat /\ (account # NoUser => version = users[account].version)
  BY <1>4
<1> HIDE DEF version
<1>7. n \in Nat \ {0} /\ now \in Nat /\ now + SetTTL \in Nat
  BY InvGives, Rows, InvitesAssumption DEF InvitesAssumption
<1>8. /\ new \in SetLink /\ new.golfer = g /\ new.user = account /\ new.email = e
      /\ new.version = version /\ new.invite = n
  BY <1>3, <1>4, <1>6, <1>7 DEF SetLink
<1>9. l \in Nat \ {0} /\ job \in Job /\ job.link = l
  <2>1. setLinks \in Seq(SetLink)
    BY InvGives DEF SetLinksInv
  <2>2. Len(setLinks) \in Nat
    BY <2>1, Rows
  <2> QED  BY <2>2 DEF Job
<1> HIDE DEF new, job
<1>10. UsersEvolve /\ VersionsStay
  BY <1>2, InvGives, UsersSame
<1>11. /\ SetLinksInv' /\ SetLinksStay
       /\ DOMAIN setLinks' = DOMAIN setLinks \cup {l}
       /\ l \notin DOMAIN setLinks
       /\ setLinks'[l] = new
       /\ \A m \in DOMAIN setLinks : setLinks'[m].consumed = setLinks[m].consumed
  BY <1>3, <1>4, <1>5, <1>6, <1>8, <1>10, InvGives, SetLinkIssued
<1> HIDE DEF l
<1>12. RowsLive'
  <2>1. /\ \A m \in DOMAIN setLinks : setLinks[m].invite \in DOMAIN invites
        /\ \A m \in DOMAIN setLinks : Open(setLinks[m]) => ~invites[setLinks[m].invite].revoked
    BY InvGives DEF RowsLive, RevokedInvitesHaveNoLinks
  <2>2. \A m \in DOMAIN setLinks : setLinks'[m].invite = setLinks[m].invite
                                   /\ (Open(setLinks'[m]) => Open(setLinks[m]))
    BY <1>11 DEF SetLinksStay, SetLinkFrom
  <2>3. \A m \in DOMAIN setLinks' : m \in DOMAIN setLinks \/ m = l
    BY <1>11
  <2>4. setLinks'[l].invite = n
    BY <1>8, <1>11
  <2> QED  BY <1>2, <2>1, <2>2, <2>3, <2>4 DEF RowsLive, RevokedInvitesHaveNoLinks
<1>13. AccountsInv' /\ BaseTyped'
  BY <1>2, <1>11, <1>12, LinksOnly
<1>14. FormsStay
  BY <1>2, InvGives, FormsSame
<1>15. InvitesInv'
  BY <1>2, <1>13, <1>14, InvGives, InvitesSame DEF Inv
<1>16. setLinks' \in Seq(SetLink)
  BY <1>11 DEF SetLinksInv
<1>17. MailInv'
  BY <1>2, <1>5, <1>9, <1>11, <1>16, InvGives, MailQueued
<1>18. WindowsInv' /\ stops' \in 0..bound'.stops
  BY <1>1, <1>2, InvGives, WindowsAdvance DEF Inv
<1>19. StepCompletes
  BY <1>11 DEF StepCompletes
<1> QED  BY <1>13, <1>15, <1>17, <1>18, <1>19 DEF Inv

\* complete_set_password
LEMMA CompleteSetKeeps ==
    ASSUME Inv, NEW l \in DOMAIN setLinks, NEW p \in Passwords, NEW b \in Anywhere,
           CompleteSet(l, p, b)
    PROVE  Inv' /\ StepCompletes
<1> DEFINE k == setLinks[l]
           u == IF k.user = NoUser THEN Len(users) + 1 ELSE k.user
           row == [k EXCEPT !.consumed = TRUE]
           links == [setLinks EXCEPT ![l] = row]
<1>1. /\ k.held /\ Open(k) /\ k.expires > now /\ Live(k.invite)
      /\ golfers[k.golfer].active /\ golfers[k.golfer].email = k.email
      /\ IdentityAgrees(k.golfer, k.email) /\ AccountOf(k.golfer, k.email) = k.user
      /\ k.user = NoUser => Len(users) < InviteCap
      /\ users' = IF k.user = NoUser THEN Append(users, NewUser(k.email, k.golfer, p, TRUE))
                  ELSE [users EXCEPT ![u].password = p, ![u].verified = TRUE, ![u].version = @ + 1]
      /\ setLinks' = SetLinksRevoked(links, k.golfer)
      /\ userLinks' = UserLinksRevoked(userLinks, u)
      /\ cookies' = WithCookie(b, CookieFor(users', u))
      /\ UNCHANGED <<bound, now, golfers>>
      /\ invites' = invites /\ UNCHANGED <<windows, mail, forms, receipts, stops>>
  BY DEF CompleteSet, Completable, Usable, RoomFor, inviteVars
<1>2. UsersInv /\ UserLinksInv /\ SetLinksInv /\ CookiesInv /\ BaseTyped /\ VerifiedByItsMail
  BY InvGives DEF Inv, AccountsInv
<1>3. k \in SetLink
  BY <1>2, Rows DEF SetLinksInv
<1>4. k.golfer \in Golfers /\ k.email \in Emails
  BY <1>3 DEF SetLink
<1>5. /\ k.user = NoUser => UserOf(k.email) = {} /\ AccountsOf(k.golfer) = {}
      /\ k.user # NoUser => /\ k.user \in DOMAIN users
                            /\ users[k.user].email = k.email /\ users[k.user].golfer = k.golfer
  BY <1>1, <1>2, AccountFound
<1>6. /\ row.consumed = TRUE /\ row.held = k.held /\ row.golfer = k.golfer /\ row.email = k.email
      /\ row \in {[setLinks[l] EXCEPT !.consumed = TRUE], [setLinks[l] EXCEPT !.held = TRUE],
                  [setLinks[l] EXCEPT !.revoked = TRUE]}
  BY <1>3 DEF SetLink
<1> HIDE DEF row
<1>7. /\ links \in Seq(SetLink) /\ DOMAIN links = DOMAIN setLinks
      /\ \A m \in DOMAIN setLinks : SetLinkFrom(links[m], setLinks[m])
      /\ \A m \in DOMAIN setLinks : links[m] = IF m = l THEN row ELSE setLinks[m]
  <2>1. links = [setLinks EXCEPT ![l] = row]
    OBVIOUS
  <2> HIDE DEF links
  <2> QED  BY <2>1, <1>2, <1>6, SetLinkChanged
<1> HIDE DEF links
<1>8. /\ setLinks' \in Seq(SetLink) /\ DOMAIN setLinks' = DOMAIN setLinks
      /\ \A m \in DOMAIN setLinks :
            /\ SetLinkFrom(setLinks'[m], setLinks[m])
            /\ setLinks'[m].consumed = links[m].consumed
            /\ Open(setLinks'[m]) => setLinks[m].golfer # k.golfer
  <2>1. setLinks' = SetLinksRevoked(links, k.golfer) /\ k.golfer \in Golfers
    BY <1>1, <1>4
  <2> HIDE DEF k, u
  <2> QED  BY <2>1, <1>2, <1>7, SetLinksClosed
<1>9. /\ u \in DOMAIN users' /\ users'[u].email = k.email /\ users'[u].golfer = k.golfer
      /\ UsersInv' /\ UsersEvolve /\ \A v \in DOMAIN users : v # u => users'[v] = users[v]
      /\ DOMAIN users' = DOMAIN users \cup {u}
  <2>1. CASE k.user = NoUser
    <3>1. u = Len(users) + 1 /\ users' = Append(users, NewUser(k.email, k.golfer, p, TRUE))
      BY <1>1, <2>1
    <3>2. /\ UsersInv' /\ UsersEvolve
          /\ DOMAIN users' = DOMAIN users \cup {Len(users) + 1}
          /\ users'[Len(users) + 1] = NewUser(k.email, k.golfer, p, TRUE)
          /\ \A v \in DOMAIN users : users'[v] = users[v]
      BY <1>1, <1>2, <1>4, <1>5, <2>1, <3>1, UserAdded
    <3> QED  BY <3>1, <3>2 DEF NewUser
  <2>2. CASE k.user # NoUser
    <3>1. u = k.user /\ u \in DOMAIN users
      BY <2>2, <1>5
    <3>2. users' = [users EXCEPT ![u].password = p, ![u].verified = TRUE, ![u].version = @ + 1]
      BY <1>1, <2>2
    <3> HIDE DEF u
    <3>3. /\ UsersInv' /\ UsersEvolve /\ DOMAIN users' = DOMAIN users
          /\ \A v \in DOMAIN users : v # u => users'[v] = users[v]
      BY <3>1, <3>2, <1>2, PasswordSet
    <3> QED  BY <3>1, <3>3, <1>5, <2>2 DEF UsersEvolve
  <2> QED  BY <2>1, <2>2
<1>10. \A m \in DOMAIN setLinks : Open(setLinks'[m]) /\ setLinks[m].user # NoUser =>
          users'[setLinks[m].user].version = users[setLinks[m].user].version
  <2> SUFFICES ASSUME NEW m \in DOMAIN setLinks, Open(setLinks'[m]), setLinks[m].user # NoUser
      PROVE  users'[setLinks[m].user] = users[setLinks[m].user]
    OBVIOUS
  <2>1. setLinks[m].user \in DOMAIN users /\ users[setLinks[m].user].golfer = setLinks[m].golfer
    BY <1>2 DEF SetLinksInv
  <2>2. users'[setLinks[m].user].golfer # k.golfer
    BY <1>8, <1>9, <2>1 DEF UsersEvolve
  <2>3. setLinks[m].user # u
    BY <1>9, <2>2
  <2> QED  BY <1>9, <2>1, <2>3
<1>11. SetLinksInv' /\ SetLinksStay
  BY <1>2, <1>8, <1>9, <1>10, SetLinksNarrow
<1>12. UserLinksInv' /\ UserLinksStay
  <2>1. userLinks \in Seq(UserLink) /\ \A i \in DOMAIN userLinks : UserLinkFrom(userLinks[i], userLinks[i])
    BY <1>2 DEF UserLinksInv, UserLinkFrom
  <2>2. /\ userLinks' \in Seq(UserLink) /\ DOMAIN userLinks' = DOMAIN userLinks
        /\ \A i \in DOMAIN userLinks : /\ UserLinkFrom(userLinks'[i], userLinks[i])
                                       /\ Open(userLinks'[i]) => userLinks[i].user # u
    BY <1>1, <1>2, <2>1, UserLinksClosed
  <2>3. \A i \in DOMAIN userLinks : Open(userLinks'[i]) =>
           users'[userLinks[i].user].version = users[userLinks[i].user].version
    BY <1>2, <1>9, <2>2 DEF UserLinksInv
  <2> QED  BY <1>2, <1>9, <2>2, <2>3, UserLinksNarrow
<1>13. CookiesInv'
  <2> DEFINE c == CookieFor(users', u)
  <2>1. c \in Cookie /\ c.user = u /\ c.version = users'[u].version /\ c.password = users'[u].password
    <3>1. users' \in Seq(User)
      BY <1>9 DEF UsersInv
    <3> QED  BY <3>1, <1>9, CookieTyped
  <2>2. cookies' = WithCookie(b, c)
    BY <1>1
  <2> HIDE DEF c, u
  <2> QED  BY <2>1, <2>2, <1>2, <1>9, CookiesFollow
<1>14. setLinks'[l].consumed /\ setLinks'[l].held /\ setLinks'[l].golfer = k.golfer
       /\ setLinks'[l].email = k.email
  <2>1. links[l] = row
    BY <1>7
  <2>2. SetLinkFrom(setLinks'[l], k) /\ setLinks'[l].consumed = links[l].consumed
    BY <1>8
  <2>3. row.consumed = TRUE /\ k.held
    BY <1>1, <1>6
  <2> HIDE DEF k, u
  <2>4. setLinks'[l].consumed
    BY <2>1, <2>2, <2>3
  <2>5. setLinks'[l].held /\ setLinks'[l].golfer = k.golfer /\ setLinks'[l].email = k.email
    BY <2>2, <2>3 DEF SetLinkFrom
  <2> QED  BY <2>4, <2>5
<1>15. VerifiedByItsMail'
  <2> HIDE DEF u
  <2>1. \A v \in DOMAIN users' \ {Admin} :
           users'[v].verified /\ (v \in DOMAIN users => ~users[v].verified) => v = u
    <3> SUFFICES ASSUME NEW v \in DOMAIN users', v # u, users'[v].verified
        PROVE  v \in DOMAIN users /\ users[v].verified
      OBVIOUS
    <3>1. v \in DOMAIN users
      BY <1>9
    <3>2. users'[v] = users[v]
      BY <1>9, <3>1
    <3> QED  BY <3>1, <3>2
  <2>2. \A v \in DOMAIN users' \ {Admin} :
           users'[v].verified /\ (v \in DOMAIN users => ~users[v].verified) =>
              \E m \in DOMAIN setLinks' : /\ setLinks'[m].golfer = users'[v].golfer
                                          /\ setLinks'[m].email = users'[v].email
                                          /\ setLinks'[m].consumed /\ setLinks'[m].held
    BY <2>1, <1>8, <1>9, <1>14
  <2> QED  BY <2>2, <1>2, <1>9, <1>11, <1>12, VerifiedStays
<1>16. RowsLive'
  <2>1. \A m \in DOMAIN setLinks :
           Open(setLinks'[m]) /\ invites'[setLinks[m].invite].revoked => invites[setLinks[m].invite].revoked
    BY <1>1
  <2> QED  BY <1>1, <1>8, <1>11, <2>1, InvGives, LinksStayLive
<1>17. BaseTyped'
  BY <1>1, <1>2 DEF BaseTyped
<1>18. AccountsInv'
  BY <1>9, <1>11, <1>12, <1>13, <1>15, <1>16, <1>17 DEF AccountsInv
<1>19. FormsStay
  BY <1>1, InvGives, FormsSame
<1>20. InvitesInv'
  BY <1>1, <1>17, <1>19, InvGives, InvitesSame DEF Inv
<1>21. MailInv'
  BY <1>1, <1>8, <1>11, InvGives, MailKept
<1>22. WindowsInv' /\ stops' \in 0..bound'.stops
  BY <1>1, InvGives, WindowsSame DEF Inv
<1>23. StepCompletes
  <2>1. \A m \in DOMAIN setLinks : setLinks'[m].consumed # setLinks[m].consumed => m = l
    BY <1>7, <1>8
  <2>2. \A m \in DOMAIN setLinks : setLinks[m].golfer = k.golfer => m <= l
    BY <1>1, <1>2 DEF SetLinksInv
  <2>3. k.user # NoUser => k.version = users[k.user].version
    BY <1>1, <1>2 DEF SetLinksInv
  <2>4. ~k.consumed /\ ~k.revoked
    BY <1>1 DEF Open
  <2> QED  BY <1>1, <1>5, <2>1, <2>2, <2>3, <2>4 DEF StepCompletes
<1> QED  BY <1>18, <1>20, <1>21, <1>22, <1>23 DEF Inv


-----------------------------------------------------------------------------
(* The theorems.                                                            *)

LEMMA InvInit ==
    ASSUME Init
    PROVE  Inv
<1>1. /\ bound \in Bounds /\ now = 0
      /\ golfers = [g \in Golfers |-> [email |-> FirstEmail[g], active |-> TRUE]]
      /\ userLinks = <<>> /\ setLinks = <<>>
      /\ cookies = [b \in Browsers |-> NoCookie]
      /\ invites = FirstInvites /\ windows = << >> /\ mail = {} /\ forms = <<>> /\ receipts = {}
      /\ stops = 0
  BY DEF Init, AccountsInit
<1>2. bound \in Bound
  BY <1>1, AccountsAssumption DEF AccountsAssumption
<1>3. bound.ticks \in Nat /\ bound.stops \in Nat /\ bound.passwords \subseteq Passwords
  BY <1>2 DEF Bound
<1>4. BaseTyped
  BY <1>1, <1>3, AccountsAssumption DEF BaseTyped, AccountsAssumption
<1>5. PICK p \in Passwords :
         users = <<[email |-> AdminEmail, golfer |-> NoOne, verified |-> TRUE,
                    password |-> p, version |-> 1]>>
  BY <1>3 DEF Init, AccountsInit
<1>6. /\ users \in Seq(User) /\ Len(users) = 1 /\ DOMAIN users = {1}
  <2> DEFINE admin == [email |-> AdminEmail, golfer |-> NoOne, verified |-> TRUE,
                       password |-> p, version |-> 1]
  <2>1. admin \in User
    BY AccountsAssumption DEF User, AccountsAssumption
  <2>2. users = <<admin>>
    BY <1>5
  <2> HIDE DEF admin
  <2>3. users \in Seq(User) /\ Len(users) = 1
    BY <2>1, <2>2
  <2>4. DOMAIN users = 1..1
    BY <2>3, Rows
  <2> QED  BY <2>3, <2>4
<1>7. UsersInv
  BY <1>6, AccountsAssumption, InvitesAssumption
     DEF UsersInv, AccountsCapped, AccountsApart, AccountsAssumption, InvitesAssumption
<1>8. userLinks \in Seq(UserLink) /\ setLinks \in Seq(SetLink) /\ forms \in Seq(Form)
      /\ DOMAIN userLinks = {} /\ DOMAIN setLinks = {} /\ DOMAIN windows = {}
  BY <1>1
<1>9. UserLinksInv /\ SetLinksInv
  BY <1>8 DEF UserLinksInv, SetLinksInv
<1>10. CookiesInv
  BY <1>1 DEF CookiesInv
<1>11. VerifiedByItsMail
  BY <1>6 DEF VerifiedByItsMail, Admin
<1>12. RowsLive
  BY <1>8 DEF RowsLive, RevokedInvitesHaveNoLinks
<1>13. /\ invites \in Seq(Invite)
       /\ \A n \in DOMAIN invites : invites[n].form = 0 /\ invites[n].shown <= 1
                                    /\ invites[n].sent = 0 /\ invites[n].failed = 0
  BY <1>1, FirstInvitesAssumption DEF FirstInvitesAssumption
<1>14. InvitesInv
  BY <1>1, <1>8, <1>13 DEF InvitesInv, ReceiptsInv, FormsInv, TwinsApart
<1>15. MailInv
  <2>1. \A n : JobsOf(n) = {} /\ LinksOf(n) = {}
    BY <1>1, <1>8 DEF JobsOf, LinksOf
  <2>2. \A n : Cardinality(JobsOf(n)) = 0 /\ Cardinality(LinksOf(n)) = 0
    BY <2>1, FS_EmptySet
  <2>3. OutcomesCounted
    BY <2>2, <1>13, OutcomesAre
  <2>4. IsFiniteSet(mail)
    BY <1>1, FS_EmptySet
  <2> QED  BY <2>3, <2>4, <1>1 DEF MailInv
<1>16. WindowsInv
  BY <1>8 DEF WindowsInv
<1> QED  BY <1>1, <1>3, <1>4, <1>7, <1>9, <1>10, <1>11, <1>12, <1>14, <1>15, <1>16
         DEF Inv, AccountsInv

LEMMA AdminKeeps ==
    ASSUME Inv, AdminNext
    PROVE  Inv' /\ StepCompletes
<1>1. CASE OpenForm \/ \E f \in DOMAIN forms : FormShownAgain(f)
  <2>1. /\ forms' = FormsWith(forms)
        /\ UNCHANGED <<accountVars, invites, windows, mail, receipts, stops>>
    BY <1>1 DEF OpenForm, FormShownAgain
  <2>2. FormsStay
    BY <2>1, InvGives, FormsShown
  <2> QED  BY <2>1, <2>2, FormKeeps
<1> QED  BY <1>1, PostFormKeeps, ShowReceiptKeeps, RevokeInviteKeeps, RotateInviteKeeps DEF AdminNext

LEMMA JoinKeeps ==
    ASSUME Inv, JoinNext
    PROVE  Inv' /\ StepCompletes
<1>1. bound.passwords \subseteq Passwords
  BY InvGives, BoundTyped
<1> QED  BY <1>1, SuppressKeeps, AdmitKeeps, CompleteSetKeeps DEF JoinNext

LEMMA InvNext ==
    ASSUME Inv, [Next]_vars
    PROVE  Inv' /\ StepCompletes
<1>1. CASE Next
  BY <1>1, AccountsNextKeeps, AdminKeeps, JoinKeeps, MailKeeps, StopKeeps DEF Next
<1>2. CASE UNCHANGED vars
  <2>1. UNCHANGED accountVars /\ UNCHANGED <<invites, windows, mail, receipts, stops>> /\ forms' = forms
    BY <1>2 DEF vars, inviteVars
  <2>2. FormsStay
    BY <2>1, InvGives, FormsSame
  <2> QED  BY <2>1, <2>2, FormKeeps
<1> QED  BY <1>1, <1>2

LEMMA Invariance == Spec => []Inv
<1>1. Init => Inv
  BY InvInit
<1>2. Inv /\ [Next]_vars => Inv'
  BY InvNext
<1> QED  BY <1>1, <1>2, PTL DEF Spec


\* The tables and the process only ever hold rows of their kind, pointing at rows
\* that exist, and every window is running within its limit: TypeOK.
THEOREM InvitesTypeCorrect == Spec => []TypeOK
<1>1. Inv => TypeOK
  <2> SUFFICES ASSUME Inv PROVE TypeOK
    OBVIOUS
  <2>1. AccountsTypeOK
    BY InvGives DEF AccountsTypeOK, BaseTyped, UsersInv, UserLinksInv, SetLinksInv, CookiesInv
  <2>2. \A k \in DOMAIN windows : windows[k].start \in 0..now /\ windows[k].count \in 1..Limit[k[1]]
    BY InvGives DEF WindowsInv
  <2>3. mail \subseteq Job /\ (\A j \in mail : j.link \in DOMAIN setLinks)
    BY InvGives DEF MailInv
  <2>4. receipts \subseteq Receipt /\ (\A r \in receipts : r.invite \in DOMAIN invites)
    BY InvGives DEF ReceiptsInv
  <2>5. forms \in Seq(Form)
    BY InvGives DEF FormsInv
  <2>6. \A l \in DOMAIN setLinks : setLinks[l].invite \in DOMAIN invites
    BY InvGives DEF RowsLive
  <2>7. invites \in Seq(Invite) /\ stops \in 0..bound.stops
    BY InvGives DEF Inv
  <2> QED  BY <2>1, <2>2, <2>3, <2>4, <2>5, <2>6, <2>7 DEF TypeOK
<1> QED  BY <1>1, Invariance, PTL

\* Whatever order links are asked for, mailed, followed, completed and revoked in, a
\* link that can still complete is the only one of its kind, is as current as the
\* account it names, and hangs on no revoked invitation (issue_token, admit_join_send,
\* complete_reset_token, complete_set_password, revoke_invite): LinksHold.
THEOREM LinksStayRight == Spec => []LinksHold
<1>1. Inv => LinksHold
  <2> SUFFICES ASSUME Inv PROVE LinksHold
    OBVIOUS
  <2>1. ASSUME NEW i \in DOMAIN setLinks, NEW j \in DOMAIN setLinks,
               Open(setLinks[i]), Open(setLinks[j]), setLinks[i].golfer = setLinks[j].golfer
        PROVE  i = j
    <3>1. i <= j /\ j <= i
      BY <2>1, InvGives DEF SetLinksInv
    <3>2. i \in Nat /\ j \in Nat
      <4>1. setLinks \in Seq(SetLink)
        BY InvGives DEF SetLinksInv
      <4> QED  BY <4>1, Rows
    <3> QED  BY <3>1, <3>2
  <2>2. OneOpenLink
    BY <2>1, InvGives DEF OneOpenLink, UserLinksInv
  <2>3. LinksAreCurrent
    BY InvGives DEF LinksAreCurrent, UserLinksInv, SetLinksInv
  <2>4. RevokedInvitesHaveNoLinks
    BY InvGives DEF RowsLive
  <2> QED  BY <2>2, <2>3, <2>4 DEF LinksHold
<1> QED  BY <1>1, Invariance, PTL

\* No browser stays signed in across a change of its account's password, by a reset
\* or by a set-password link (session_version): SessionsFollowPassword.
THEOREM SessionsEndWithPassword == Spec => []SessionsFollowPassword
<1>1. Inv => SessionsFollowPassword
  BY InvGives DEF SessionsFollowPassword, CookiesInv, Valid
<1> QED  BY <1>1, Invariance, PTL

\* However accounts come about, they stay within the cap, share neither golfer nor
\* address, and are verified only by a mail that reached their address (register,
\* verify_email_token, complete_set_password): AccountsHold.
THEOREM AccountsStayRight == Spec => []AccountsHold
<1>1. Inv => AccountsHold
  BY DEF AccountsHold, Inv, AccountsInv, UsersInv
<1> QED  BY <1>1, Invariance, PTL

\* An invitation never counts more outcomes than mails that were issued under it and
\* have ended, whatever stops or fails between (_dispatch_email): OutcomesCounted.
THEOREM OutcomesNeverTwice == Spec => []OutcomesCounted
<1>1. Inv => OutcomesCounted
  BY DEF Inv, MailInv
<1> QED  BY <1>1, Invariance, PTL

\* A form makes one invitation, its URL is shown once, and no second live invitation
\* of a label is made by a form within the span (InviteFormNonceStore,
\* InviteReceiptStore, has_recent_live_twin): InvitesApart.
THEOREM InvitesStayApart == Spec => []InvitesApart
<1>1. Inv => InvitesApart
  BY InvGives DEF InvitesApart, FormOnce, FormsInv, ReceiptsInv
<1> QED  BY <1>1, Invariance, PTL

\* A set-password link is completed at most once, as the newest of its golfer, mailed,
\* under a live invitation, for the roster entry and account it was issued for
\* (complete_set_password, peek_set_password_token): CompletedAsIssued.
THEOREM LinksCompletedAsIssued == Spec => CompletedAsIssued
<1>1. ASSUME Inv, [Next]_vars
      PROVE  [\A l \in DOMAIN setLinks : setLinks'[l].consumed # setLinks[l].consumed =>
                LET k == setLinks[l] IN
                /\ ~k.consumed /\ ~k.revoked /\ k.held /\ Live(k.invite) /\ k.expires > now
                /\ \A m \in DOMAIN setLinks : setLinks[m].golfer = k.golfer => m <= l
                /\ golfers[k.golfer].email = k.email /\ golfers[k.golfer].active
                /\ IF k.user = NoUser THEN AccountsOf(k.golfer) = {}
                   ELSE k.version = users[k.user].version]_vars
  <2>1. StepCompletes
    BY <1>1, InvNext
  <2> QED  BY <2>1, <1>1 DEF StepCompletes
<1> QED  BY <1>1, Invariance, PTL DEF Spec, CompletedAsIssued

-----------------------------------------------------------------------------
(* A log of times, and the windows of a span it falls into.                 *)

Within(at, s, span) == {l \in DOMAIN at : s <= at[l] /\ at[l] < s + span}
Since(at, s) == {l \in DOMAIN at : at[l] >= s}

\* The windows that begin at S hold every entry, begin with one, do not overlap and
\* have no more than the limit each.
Windowed(at, S, span, limit) ==
    /\ S \subseteq Nat
    /\ \A s \in S : \E l \in DOMAIN at : at[l] = s
    /\ \A l \in DOMAIN at : \E s \in S : s <= at[l] /\ at[l] < s + span
    /\ \A r, s \in S : r < s => r + span <= s
    /\ \A s \in S : Cardinality(Within(at, s, span)) <= limit
    /\ S # {} => \E s \in S : \A r \in S : r <= s

\* The row w is of the window that is running, if one is.
Running(at, S, w, time, span) ==
    /\ \A s \in S : time - s < span => w = [start |-> s, count |-> Cardinality(Since(at, s))]
    /\ w # NoWindow /\ time - w.start < span => w.start \in S

\* A log with one more entry, of this moment.
Logged(at, new, x, time) ==
    /\ IsFiniteSet(DOMAIN at) /\ x \notin DOMAIN at /\ time \in Nat
    /\ DOMAIN new = DOMAIN at \cup {x} /\ new[x] = time
    /\ \A l \in DOMAIN at : new[l] = at[l] /\ at[l] \in 0..time

LEMMA EntryCounted ==
    ASSUME NEW A, IsFiniteSet(A), NEW x, x \notin A
    PROVE  Cardinality(A \cup {x}) = Cardinality(A) + 1 /\ Cardinality(A) \in Nat
BY FS_AddElement, FS_CardinalityType

\* Windows that began before do not change by an entry after their end.
LEMMA ClosedWindow ==
    ASSUME NEW at, NEW new, NEW x, NEW time, Logged(at, new, x, time),
           NEW span \in Nat, NEW s \in Nat, time >= s + span
    PROVE  Within(new, s, span) = Within(at, s, span)
<1>1. x \notin Within(new, s, span)
  BY DEF Logged, Within
<1> QED  BY <1>1 DEF Logged, Within

LEMMA EntryJoins ==
    ASSUME NEW at, NEW new, NEW x, NEW time, Logged(at, new, x, time),
           NEW span \in Nat \ {0}, NEW limit \in Nat, NEW S, Windowed(at, S, span, limit),
           NEW b \in S, time - b < span, Cardinality(Since(at, b)) < limit
    PROVE  /\ Windowed(new, S, span, limit)
           /\ Cardinality(Since(new, b)) = Cardinality(Since(at, b)) + 1
           /\ \A s \in S : time - s < span => s = b
<1>1. time \in Nat /\ S \subseteq Nat
  BY DEF Logged, Windowed
<1>2. \A s \in S : s <= time
  BY DEF Logged, Windowed
<1>3. \A s \in S : s # b => s + span <= b
  <2> SUFFICES ASSUME NEW s \in S, s # b PROVE s + span <= b
    OBVIOUS
  <2>1. s < b \/ b < s
    BY <1>1
  <2>2. ~(b < s)
    <3> SUFFICES ASSUME b < s PROVE FALSE
      OBVIOUS
    <3>1. b + span <= s
      BY DEF Windowed
    <3> QED  BY <3>1, <1>1, <1>2
  <2> QED  BY <2>1, <2>2 DEF Windowed
<1>4. Since(new, b) = Since(at, b) \cup {x} /\ x \notin Since(at, b) /\ Since(at, b) \subseteq DOMAIN at
  BY <1>1, <1>2 DEF Logged, Since
<1>5. IsFiniteSet(Since(at, b))
  BY <1>4, FS_Subset DEF Logged
<1>6. Cardinality(Since(new, b)) = Cardinality(Since(at, b)) + 1 /\ Cardinality(Since(at, b)) \in Nat
  BY <1>4, <1>5, EntryCounted
<1>7. Within(new, b, span) = Since(new, b)
  <2>1. \A l \in DOMAIN new : new[l] \in 0..time
    BY <1>1 DEF Logged
  <2>2. \A l \in DOMAIN new : new[l] < b + span
    BY <2>1, <1>1
  <2> QED  BY <2>1, <2>2, <1>1 DEF Within, Since
<1>8. \A s \in S : Cardinality(Within(new, s, span)) <= limit
  <2> SUFFICES ASSUME NEW s \in S PROVE Cardinality(Within(new, s, span)) <= limit
    OBVIOUS
  <2>1. CASE s = b
    BY <2>1, <1>6, <1>7
  <2>2. CASE s # b
    <3>1. time >= s + span /\ s \in Nat
      BY <2>2, <1>1, <1>2, <1>3
    <3>2. Within(new, s, span) = Within(at, s, span)
      BY <3>1, ClosedWindow
    <3> QED  BY <3>2 DEF Windowed
  <2> QED  BY <2>1, <2>2
<1>9. \A l \in DOMAIN new : \E s \in S : s <= new[l] /\ new[l] < s + span
  <2>1. b <= new[x] /\ new[x] < b + span
    BY <1>1, <1>2 DEF Logged
  <2>2. \A l \in DOMAIN at : \E s \in S : s <= new[l] /\ new[l] < s + span
    BY DEF Logged, Windowed
  <2> QED  BY <2>1, <2>2 DEF Logged
<1>10. \A s \in S : \E l \in DOMAIN new : new[l] = s
  BY DEF Logged, Windowed
<1>11. Windowed(new, S, span, limit)
  BY <1>1, <1>8, <1>9, <1>10 DEF Windowed
<1>12. \A s \in S : time - s < span => s = b
  BY <1>1, <1>2, <1>3
<1> QED  BY <1>6, <1>11, <1>12

LEMMA EntryBegins ==
    ASSUME NEW at, NEW new, NEW x, NEW time, Logged(at, new, x, time),
           NEW span \in Nat \ {0}, NEW limit \in Nat \ {0}, NEW S, Windowed(at, S, span, limit),
           \A s \in S : time - s >= span
    PROVE  /\ Windowed(new, S \cup {time}, span, limit)
           /\ Cardinality(Since(new, time)) = 1
<1> DEFINE T == S \cup {time}
<1>1. time \in Nat /\ S \subseteq Nat /\ T \subseteq Nat
  BY DEF Logged, Windowed
<1>2. \A s \in S : s + span <= time
  BY <1>1
<1>3. \A l \in DOMAIN at : at[l] \in Nat /\ at[l] < time
  BY <1>1, <1>2 DEF Windowed, Logged
<1>4. Since(new, time) = {x} /\ Within(new, time, span) = {x}
  <2>1. x \in DOMAIN new /\ new[x] = time
    BY DEF Logged
  <2>2. \A l \in DOMAIN new : l # x => ~(new[l] >= time)
    BY <1>1, <1>3 DEF Logged
  <2>3. time >= time /\ time < time + span
    BY <1>1
  <2>4. \A l \in DOMAIN new : new[l] >= time <=> time <= new[l]
    BY <1>1, <1>3, <2>1 DEF Logged
  <2> QED  BY <2>1, <2>2, <2>3, <2>4 DEF Since, Within
<1>5. Cardinality({x}) = 1
  BY FS_Singleton
<1>6. \A s \in T : Cardinality(Within(new, s, span)) <= limit
  <2> SUFFICES ASSUME NEW s \in T PROVE Cardinality(Within(new, s, span)) <= limit
    OBVIOUS
  <2>1. CASE s = time
    BY <2>1, <1>4, <1>5
  <2>2. CASE s \in S
    <3>1. time >= s + span /\ s \in Nat
      BY <2>2, <1>1, <1>2
    <3>2. Within(new, s, span) = Within(at, s, span)
      BY <3>1, ClosedWindow
    <3> QED  BY <2>2, <3>2 DEF Windowed
  <2> QED  BY <2>1, <2>2
<1>7. \A l \in DOMAIN new : \E s \in T : s <= new[l] /\ new[l] < s + span
  <2>1. time <= new[x] /\ new[x] < time + span
    BY <1>1 DEF Logged
  <2>2. \A l \in DOMAIN at : \E s \in S : s <= new[l] /\ new[l] < s + span
    BY DEF Logged, Windowed
  <2> QED  BY <2>1, <2>2 DEF Logged
<1>8. \A s \in T : \E l \in DOMAIN new : new[l] = s
  BY DEF Logged, Windowed
<1>9. \A r, s \in T : r < s => r + span <= s
  BY <1>1, <1>2 DEF Windowed
<1>10. \A r \in T : r <= time
  BY <1>1, <1>2
<1>11. Windowed(new, T, span, limit)
  BY <1>1, <1>6, <1>7, <1>8, <1>9, <1>10 DEF Windowed
<1> QED  BY <1>4, <1>5, <1>11

\* check_window on the row of the running window, or on none: a request it allows leaves
\* the row the log now makes.
LEMMA RequestCounted ==
    ASSUME NEW at, NEW new, NEW x, Logged(at, new, x, now),
           NEW span \in Nat \ {0}, NEW limit \in Nat \ {0}, NEW S, Windowed(at, S, span, limit),
           NEW w, w = NoWindow \/ w \in [start : Nat, count : Nat \ {0}],
           Running(at, S, w, now, span), CheckWindow(w, limit, span).allowed
    PROVE  \E T \in SUBSET Nat :
              /\ Windowed(new, T, span, limit)
              /\ Running(new, T, CheckWindow(w, limit, span).next, now, span)
<1> DEFINE old == IF w = NoWindow \/ now - w.start >= span THEN [start |-> now, count |-> 0] ELSE w
           next == CheckWindow(w, limit, span).next
<1>1. now \in Nat /\ S \subseteq Nat
  BY DEF Logged, Windowed
<1>2. old.count < limit /\ next = [old EXCEPT !.count = old.count + 1]
  BY DEF CheckWindow
<1>3. old \in [start : Nat, count : Nat]
  BY <1>1
<1> HIDE DEF next
<1>4. CASE w # NoWindow /\ now - w.start < span
  <2>1. w.start \in S /\ w.start \in Nat
    BY <1>4, <1>1 DEF Running
  <2>2. ~(now - w.start >= span)
    BY <1>1, <1>4, <2>1
  <2>3. old = w
    BY <1>4, <2>2
  <2> HIDE DEF old
  <2>4. w = [start |-> w.start, count |-> Cardinality(Since(at, w.start))]
    BY <1>4, <2>1 DEF Running
  <2> DEFINE b == w.start
             c == Cardinality(Since(at, b))
  <2>5. b \in S /\ now - b < span /\ w = [start |-> b, count |-> c]
    BY <1>4, <2>1, <2>4
  <2> HIDE DEF b
  <2>6. c < limit
    BY <1>2, <2>3, <2>5
  <2>7. /\ Windowed(new, S, span, limit)
        /\ Cardinality(Since(new, b)) = c + 1
        /\ \A s \in S : now - s < span => s = b
    BY <2>5, <2>6, EntryJoins
  <2> HIDE DEF c
  <2>8. next = [start |-> b, count |-> c + 1]
    BY <1>2, <2>3, <2>5
  <2>9. next = [start |-> b, count |-> Cardinality(Since(new, b))] /\ next.start = b
    BY <2>7, <2>8
  <2>10. Running(new, S, next, now, span)
    BY <2>5, <2>7, <2>9 DEF Running
  <2> QED  BY <1>1, <2>7, <2>10 DEF next
<1>5. CASE ~(w # NoWindow /\ now - w.start < span)
  <2>1. w = NoWindow \/ now - w.start >= span
    BY <1>1, <1>5
  <2>2. old = [start |-> now, count |-> 0]
    BY <2>1
  <2> HIDE DEF old
  <2>3. \A s \in S : now - s >= span
    <3> SUFFICES ASSUME NEW s \in S, now - s < span PROVE FALSE
      BY <1>1
    <3>1. w = [start |-> s, count |-> Cardinality(Since(at, s))]
      BY DEF Running
    <3>2. w.start = s
      BY <3>1
    <3>3. w = NoWindow
      BY <1>5, <3>2
    <3>4. Cardinality(Since(at, s)) = 0
      BY <3>1, <3>3 DEF NoWindow
    <3>5. IsFiniteSet(Since(at, s))
      <4>1. Since(at, s) \subseteq DOMAIN at
        BY DEF Since
      <4> QED  BY <4>1, FS_Subset DEF Logged
    <3>6. Since(at, s) = {}
      BY <3>4, <3>5, FS_EmptySet
    <3>7. PICK l \in DOMAIN at : at[l] = s
      BY DEF Windowed
    <3> QED  BY <1>1, <3>6, <3>7 DEF Since
  <2>4. Windowed(new, S \cup {now}, span, limit) /\ Cardinality(Since(new, now)) = 1
    BY <2>3, EntryBegins, SMTT(30)
  <2>5. next = [start |-> now, count |-> 1]
    BY <1>2, <2>2
  <2>6. Running(new, S \cup {now}, next, now, span)
    <3>1. next.start = now
      BY <2>5
    <3>2. \A s \in S \cup {now} : now - s < span => s = now
      BY <1>1, <2>3
    <3> QED  BY <2>4, <2>5, <3>1, <3>2 DEF Running
  <2>7. S \cup {now} \in SUBSET Nat
    BY <1>1
  <2> QED  BY <2>4, <2>6, <2>7 DEF next
<1> QED  BY <1>4, <1>5


\* A time as long as a window meets two windows at most, and the first of them began
\* with an entry before it.
LEMMA TwoWindowsMet ==
    ASSUME NEW at, IsFiniteSet(DOMAIN at), \A l \in DOMAIN at : at[l] \in Nat,
           NEW span \in Nat \ {0}, NEW limit \in Nat \ {0}, NEW S, Windowed(at, S, span, limit),
           NEW l \in DOMAIN at
    PROVE  Cardinality(Within(at, at[l], span)) <= 2 * limit - 1
<1> DEFINE A == Within(at, at[l], span)
<1>1. PICK s \in S : s <= at[l] /\ at[l] < s + span
  BY DEF Windowed
<1>2. S \subseteq Nat /\ at[l] \in Nat /\ s \in Nat
  BY DEF Windowed
<1>3. \A B : B \subseteq DOMAIN at => IsFiniteSet(B) /\ Cardinality(B) \in Nat
  BY FS_Subset, FS_CardinalityType
<1>4. \A r \in S : Cardinality(Within(at, r, span)) <= limit
  BY DEF Windowed
<1>5. CASE s = at[l]
  <2>1. Cardinality(A) <= limit /\ Cardinality(A) \in Nat
    BY <1>3, <1>4, <1>5 DEF Within
  <2> QED  BY <2>1
<1>6. CASE s # at[l]
  <2> DEFINE early == {m \in A : at[m] < s + span}
             late == {m \in A : at[m] >= s + span}
             first == Within(at, s, span)
  <2>1. PICK b \in DOMAIN at : at[b] = s
    BY DEF Windowed
  <2>2. b \in first /\ b \notin early /\ early \subseteq first
    <3>1. s <= s /\ s < s + span /\ ~(at[l] <= s)
      BY <1>1, <1>2, <1>6
    <3>2. \A m \in DOMAIN at : at[l] <= at[m] => s <= at[m]
      BY <1>1, <1>2
    <3> QED  BY <2>1, <3>1, <3>2 DEF Within
  <2>3. first \subseteq DOMAIN at /\ early \subseteq DOMAIN at /\ late \subseteq DOMAIN at
    BY DEF Within
  <2>4. A = early \cup late
    BY <1>2 DEF Within
  <2> HIDE DEF A, first, early
  <2>5. Cardinality(early) <= limit - 1 /\ Cardinality(early) \in Nat
    <3>1. early \cup {b} \subseteq first /\ IsFiniteSet(first) /\ IsFiniteSet(early)
      BY <1>3, <2>2, <2>3
    <3>2. Cardinality(early \cup {b}) = Cardinality(early) + 1 /\ Cardinality(early) \in Nat
      BY <2>2, <3>1, EntryCounted
    <3>3. Cardinality(early \cup {b}) <= Cardinality(first)
      BY <3>1, FS_Subset
    <3>4. Cardinality(first) <= limit /\ Cardinality(first) \in Nat
      BY <1>3, <1>4, <2>3 DEF first
    <3> QED  BY <3>2, <3>3, <3>4
  <2>6. Cardinality(late) <= limit /\ Cardinality(late) \in Nat
    <3>1. CASE late = {}
      BY <3>1, FS_EmptySet
    <3>2. ASSUME NEW m \in late PROVE Cardinality(late) <= limit
      <4>1. PICK r \in S : r <= at[m] /\ at[m] < r + span
        BY <2>3 DEF Windowed
      <4>2. \A k \in late : at[k] \in Nat /\ s + span <= at[k] /\ at[k] < at[l] + span
        BY <1>2, <2>3 DEF A, Within
      <4>3. \A q \in S : \A k \in late : q <= at[k] /\ at[k] < q + span => s + span <= q
        <5> SUFFICES ASSUME NEW q \in S, NEW k \in late, q <= at[k], at[k] < q + span
            PROVE  s + span <= q
          OBVIOUS
        <5>1. s < q
          BY <1>2, <4>2
        <5> QED  BY <5>1 DEF Windowed
      <4>4. s + span <= r
        BY <4>1, <4>3
      <4>5. ASSUME NEW k \in late PROVE r <= at[k] /\ at[k] < r + span
        <5>1. PICK q \in S : q <= at[k] /\ at[k] < q + span
          BY <2>3 DEF Windowed
        <5>2. s + span <= q
          BY <4>3, <5>1
        <5>3. r < q => r + span <= q
          BY DEF Windowed
        <5>4. q < r => q + span <= r
          BY DEF Windowed
        <5>5. q \in Nat /\ r \in Nat /\ at[k] \in Nat /\ at[m] \in Nat
          BY <1>2, <4>2
        <5>6. at[k] < at[l] + span /\ at[m] < at[l] + span /\ at[l] < s + span
          BY <1>1, <4>2
        <5>7. ~(r < q)
          BY <1>2, <4>4, <5>1, <5>3, <5>5, <5>6
        <5>8. ~(q < r)
          BY <1>2, <4>1, <5>2, <5>4, <5>5, <5>6
        <5>9. q = r
          BY <5>5, <5>7, <5>8
        <5> QED  BY <5>1, <5>9
      <4>6. late \subseteq Within(at, r, span)
        BY <2>3, <4>5 DEF Within
      <4>7. Within(at, r, span) \subseteq DOMAIN at
        BY DEF Within
      <4>8. Cardinality(late) <= Cardinality(Within(at, r, span))
        BY <1>3, <4>6, <4>7, FS_Subset
      <4>9. Cardinality(Within(at, r, span)) <= limit
        BY <1>4
      <4> QED  BY <1>3, <2>3, <4>7, <4>8, <4>9
    <3>3. Cardinality(late) <= limit
      BY <3>1, <3>2
    <3> QED  BY <1>3, <2>3, <3>3
  <2> HIDE DEF late
  <2>7. Cardinality(A) <= Cardinality(early) + Cardinality(late)
    <3>1. IsFiniteSet(early) /\ IsFiniteSet(late)
      BY <1>3, <2>3
    <3>2. /\ Cardinality(early \cup late)
                = Cardinality(early) + Cardinality(late) - Cardinality(early \cap late)
          /\ IsFiniteSet(early \cap late)
      BY <3>1, FS_Union, FS_Intersection
    <3>3. Cardinality(early \cap late) \in Nat
      BY <3>2, FS_CardinalityType
    <3>4. Cardinality(A) = Cardinality(early) + Cardinality(late) - Cardinality(early \cap late)
      BY <2>4, <3>2
    <3> QED  BY <2>5, <2>6, <3>3, <3>4
  <2>8. Cardinality(A) \in Nat
    BY <1>3, <2>3, <2>4
  <2>9. Cardinality(A) <= 2 * limit - 1
    BY <2>5, <2>6, <2>7, <2>8
  <2> QED  BY <2>9 DEF A
<1> QED  BY <1>5, <1>6

\* What Began chooses: every time falls into exactly one of the windows.
Begins(S, issued, span) ==
    \A c \in issued : \E s \in S : \A r \in S : (r <= c /\ c < r + span) <=> r = s

\* The first beginning one of two such sets has and the other has not would be a time
\* that two of its windows hold.
LEMMA BeginningsAgree ==
    ASSUME NEW issued \in SUBSET Nat, NEW span \in Nat, NEW S \in SUBSET issued,
           NEW T \in SUBSET issued, Begins(S, issued, span), Begins(T, issued, span)
    PROVE  S = T
<1> DEFINE Apart == (S \ T) \cup (T \ S)
<1> SUFFICES ASSUME S # T PROVE FALSE
  OBVIOUS
<1>1. Apart \in SUBSET Nat /\ Apart # {}
  OBVIOUS
<1>2. PICK x \in Apart : \A y \in Apart : x <= y
  BY <1>1, Smallest
<1>3. x \in Nat /\ x \in issued
  OBVIOUS
<1>4. \A y \in Nat : y < x => (y \in S <=> y \in T)
  BY <1>2, <1>3
<1> HIDE DEF Apart
<1>5. ASSUME NEW A \in {S, T}, NEW B \in {S, T}, x \in A, x \notin B PROVE FALSE
  <2>1. PICK y \in B : y <= x /\ x < y + span
    BY <1>3 DEF Begins
  <2>2. y \in Nat /\ y < x
    BY <1>3, <1>5, <2>1
  <2>3. y \in A
    BY <1>4, <2>2
  <2>4. x <= x /\ x < x + span
    BY <1>3, <2>1, <2>2
  <2>5. PICK s \in A : \A r \in A : (r <= x /\ x < r + span) <=> r = s
    BY <1>3 DEF Begins
  <2>6. x = s /\ y = s
    BY <1>5, <2>1, <2>3, <2>4, <2>5
  <2> QED  BY <2>2, <2>6
<1> QED  BY <1>2, <1>5 DEF Apart

LEMMA WindowsBegin ==
    ASSUME NEW at, \A l \in DOMAIN at : at[l] \in Nat, NEW span \in Nat, NEW limit,
           NEW S, Windowed(at, S, span, limit)
    PROVE  LET issued == {at[l] : l \in DOMAIN at} IN
           S \in SUBSET issued /\ Began(issued, span) = S
<1> DEFINE issued == {at[l] : l \in DOMAIN at}
<1>1. issued \in SUBSET Nat /\ S \in SUBSET issued
  BY DEF Windowed
<1>2. Begins(S, issued, span)
  <2> SUFFICES ASSUME NEW l \in DOMAIN at
      PROVE  \E s \in S : \A r \in S : (r <= at[l] /\ at[l] < r + span) <=> r = s
    BY DEF Begins
  <2>1. PICK s \in S : s <= at[l] /\ at[l] < s + span
    BY DEF Windowed
  <2>2. ASSUME NEW r \in S, r <= at[l], at[l] < r + span PROVE r = s
    <3>1. r \in Nat /\ s \in Nat /\ at[l] \in Nat
      BY <1>1
    <3>2. ~(r < s)
      BY <2>1, <2>2, <3>1 DEF Windowed
    <3>3. ~(s < r)
      BY <2>1, <2>2, <3>1 DEF Windowed
    <3> QED  BY <3>1, <3>2, <3>3
  <2> QED  BY <2>1, <2>2
<1> HIDE DEF issued
<1>3. Began(issued, span) = CHOOSE T \in SUBSET issued : Begins(T, issued, span)
  BY DEF Began, Begins
<1>4. Began(issued, span) \in SUBSET issued /\ Begins(Began(issued, span), issued, span)
  BY <1>1, <1>2, <1>3
<1>5. Began(issued, span) = S
  BY <1>1, <1>2, <1>4, BeginningsAgree
<1> QED  BY <1>1, <1>5 DEF issued

-----------------------------------------------------------------------------
(* The links of a key, and the invariant.                                   *)

KeysOf(row) == Keys(row.email, row.ip, row.invite)
UsedKeys == UNION {KeysOf(setLinks[l]) : l \in DOMAIN setLinks}
LogOf(k) == [l \in {m \in DOMAIN setLinks : CountsOf(m, k)} |-> setLinks[l].created]

\* Every key a link was issued under has its windows, and the row of the running one.
QuotasInv ==
    /\ \A l \in DOMAIN setLinks : setLinks[l].created <= now
    /\ DOMAIN windows \subseteq UsedKeys
    /\ \A k \in UsedKeys : \E S \in SUBSET Nat :
          /\ Windowed(LogOf(k), S, Span[k[1]], Limit[k[1]])
          /\ Running(LogOf(k), S, WindowAt(k), now, Span[k[1]])

\* Links whose place in the logs is what it was.
LinksAlike(links) ==
    /\ DOMAIN links = DOMAIN setLinks
    /\ \A l \in DOMAIN setLinks :
          links[l].created = setLinks[l].created /\ KeysOf(links[l]) = KeysOf(setLinks[l])

\* Revoking, completing or handing over links moves none in its logs.
LEMMA RowAlike ==
    ASSUME NEW k \in SetLink,
           NEW row \in {k, [k EXCEPT !.revoked = TRUE], [k EXCEPT !.consumed = TRUE],
                        [k EXCEPT !.held = TRUE]}
    PROVE  row \in SetLink /\ row.created = k.created /\ KeysOf(row) = KeysOf(k)
<1>1. row \in SetLink /\ row.created = k.created /\ row.email = k.email /\ row.ip = k.ip
      /\ row.invite = k.invite
  BY DEF SetLink
<1> QED  BY <1>1 DEF KeysOf

LEMMA RevokedAlike ==
    ASSUME NEW links \in Seq(SetLink), LinksAlike(links), NEW which
    PROVE  LinksAlike(Revoked(links, which))
<1> DEFINE new == Revoked(links, which)
<1>1. DOMAIN new = DOMAIN links
      /\ \A l \in DOMAIN links : new[l] \in {links[l], [links[l] EXCEPT !.revoked = TRUE]}
  BY DEF Revoked
<1> HIDE DEF new
<1>2. \A l \in DOMAIN links : new[l].created = links[l].created /\ KeysOf(new[l]) = KeysOf(links[l])
  <2> SUFFICES ASSUME NEW l \in DOMAIN links
      PROVE  new[l].created = links[l].created /\ KeysOf(new[l]) = KeysOf(links[l])
    OBVIOUS
  <2>1. links[l] \in SetLink
    BY Rows
  <2> QED  BY <1>1, <2>1, RowAlike
<1>3. LinksAlike(new)
  BY <1>1, <1>2 DEF LinksAlike
<1> QED  BY <1>3 DEF new

LEMMA SetLinksRevokedAlike ==
    ASSUME NEW links \in Seq(SetLink), LinksAlike(links), NEW g
    PROVE  LinksAlike(SetLinksRevoked(links, g))
BY RevokedAlike DEF SetLinksRevoked

LEMMA ChangedAlike ==
    ASSUME setLinks \in Seq(SetLink), NEW l \in DOMAIN setLinks,
           NEW row \in {[setLinks[l] EXCEPT !.revoked = TRUE], [setLinks[l] EXCEPT !.consumed = TRUE],
                        [setLinks[l] EXCEPT !.held = TRUE]}
    PROVE  /\ [setLinks EXCEPT ![l] = row] \in Seq(SetLink)
           /\ LinksAlike([setLinks EXCEPT ![l] = row])
<1>1. setLinks[l] \in SetLink
  BY Rows
<1>2. row \in SetLink /\ row.created = setLinks[l].created /\ KeysOf(row) = KeysOf(setLinks[l])
  BY <1>1, RowAlike
<1> DEFINE new == [setLinks EXCEPT ![l] = row]
<1>3. /\ new \in Seq(SetLink) /\ DOMAIN new = DOMAIN setLinks
      /\ \A m \in DOMAIN setLinks : new[m] = IF m = l THEN row ELSE setLinks[m]
  BY <1>2, RowChanged
<1> HIDE DEF new
<1>4. LinksAlike(new)
  BY <1>2, <1>3 DEF LinksAlike
<1> QED  BY <1>3, <1>4 DEF new

LEMMA NothingAlike ==
    ASSUME setLinks' = setLinks
    PROVE  LinksAlike(setLinks')
BY DEF LinksAlike

LEMMA LogsSame ==
    ASSUME LinksAlike(setLinks')
    PROVE  UsedKeys' = UsedKeys /\ \A k : LogOf(k)' = LogOf(k)
<1>1. DOMAIN setLinks' = DOMAIN setLinks
  BY DEF LinksAlike
<1>2. \A l \in DOMAIN setLinks :
         setLinks'[l].created = setLinks[l].created /\ KeysOf(setLinks'[l]) = KeysOf(setLinks[l])
  BY DEF LinksAlike
<1>3. UsedKeys' = UsedKeys
  BY <1>1, <1>2 DEF UsedKeys
<1>4. \A k, l : l \in DOMAIN setLinks => (CountsOf(l, k)' <=> CountsOf(l, k))
  BY <1>2 DEF CountsOf, KeysOf
<1>5. ASSUME NEW k PROVE LogOf(k)' = LogOf(k)
  <2> DEFINE ids == {m \in DOMAIN setLinks : CountsOf(m, k)}
  <2>1. {m \in DOMAIN setLinks' : CountsOf(m, k)'} = ids
    BY <1>1, <1>4
  <2>2. \A l \in ids : setLinks'[l].created = setLinks[l].created
    BY <1>2
  <2> HIDE DEF ids
  <2>3. LogOf(k) = [l \in ids |-> setLinks[l].created]
    BY DEF LogOf, ids
  <2>4. LogOf(k)' = [l \in ids |-> setLinks'[l].created]
    BY <2>1 DEF LogOf
  <2> QED  BY <2>2, <2>3, <2>4
<1> QED  BY <1>3, <1>5

\* Time passes and nothing is issued: what runs out needs no row.
LEMMA QuotasStay ==
    ASSUME QuotasInv, WindowsInv, now \in Nat, now' \in Nat, now' >= now,
           LinksAlike(setLinks'), windows' = windows, setLinks \in Seq(SetLink)
    PROVE  QuotasInv'
<1>1. UsedKeys' = UsedKeys /\ \A k : LogOf(k)' = LogOf(k)
  BY LogsSame
<1>2. \A k : WindowAt(k)' = WindowAt(k)
  BY DEF WindowAt
<1>3. ASSUME NEW k \in UsedKeys
      PROVE  \E S \in SUBSET Nat :
                /\ Windowed(LogOf(k), S, Span[k[1]], Limit[k[1]])
                /\ Running(LogOf(k), S, WindowAt(k), now', Span[k[1]])
  <2> DEFINE span == Span[k[1]]
             w == WindowAt(k)
  <2>1. PICK S \in SUBSET Nat : Windowed(LogOf(k), S, span, Limit[k[1]])
                                /\ Running(LogOf(k), S, w, now, span)
    BY DEF QuotasInv
  <2>2. span \in Nat
    <3>1. k[1] \in Tiers
      BY KeysHaveTiers DEF UsedKeys, KeysOf
    <3> QED  BY <3>1, InvitesAssumption DEF InvitesAssumption
  <2>3. w = NoWindow \/ w.start \in Nat
    BY DEF WindowAt, WindowsInv
  <2> HIDE DEF span, w
  <2>4. Running(LogOf(k), S, w, now', span)
    BY <2>1, <2>2, <2>3 DEF Running
  <2> QED  BY <2>1, <2>4 DEF span, w
<1>4. \A l \in DOMAIN setLinks' : setLinks'[l].created <= now'
  <2>1. \A l \in DOMAIN setLinks : setLinks[l] \in SetLink
    BY Rows
  <2>2. \A l \in DOMAIN setLinks : setLinks[l].created \in Nat /\ setLinks[l].created <= now
    BY <2>1 DEF QuotasInv, SetLink
  <2> QED  BY <2>2 DEF LinksAlike
<1>5. DOMAIN windows' \subseteq UsedKeys'
  BY <1>1 DEF QuotasInv
<1>6. \A k \in UsedKeys' : \E S \in SUBSET Nat :
          /\ Windowed(LogOf(k)', S, Span[k[1]], Limit[k[1]])
          /\ Running(LogOf(k)', S, WindowAt(k)', now', Span[k[1]])
  BY <1>1, <1>2, <1>3
<1> QED  BY <1>4, <1>5, <1>6 DEF QuotasInv

-----------------------------------------------------------------------------
(* A request that is let through.                                           *)

LEMMA AdmitCounts ==
    ASSUME Inv, QuotasInv, NEW n \in DOMAIN invites, NEW e \in Emails, NEW ip \in Addresses,
           Admit(n, e, ip)
    PROVE  QuotasInv'
<1> DEFINE x == Len(setLinks) + 1
           asked == Keys(e, ip, n)
<1>1. /\ now' = now /\ now \in Nat /\ QuotasAllow(e, ip, n) /\ windows' = WindowsAfter(e, ip, n)
  BY InvGives DEF Admit
<1>2. PICK g \in RosterGolfers(e) :
          setLinks' = Append(SetLinksRevoked(setLinks, g),
                [golfer |-> g, invite |-> n, email |-> e, user |-> AccountOf(g, e),
                 expires |-> now + SetTTL, created |-> now, ip |-> ip, consumed |-> FALSE,
                 revoked |-> FALSE, held |-> FALSE,
                 version |-> IF AccountOf(g, e) = NoUser THEN 0 ELSE users[AccountOf(g, e)].version])
  BY DEF Admit
<1>3. setLinks \in Seq(SetLink)
  BY InvGives DEF SetLinksInv
<1>4. DOMAIN setLinks = 1..Len(setLinks) /\ Len(setLinks) \in Nat
      /\ \A l \in DOMAIN setLinks : setLinks[l] \in SetLink
  BY <1>3, Rows
<1>5. /\ DOMAIN setLinks' = DOMAIN setLinks \cup {x} /\ x \notin DOMAIN setLinks
      /\ setLinks'[x].created = now /\ KeysOf(setLinks'[x]) = asked
      /\ \A l \in DOMAIN setLinks : setLinks'[l].created = setLinks[l].created
                                    /\ KeysOf(setLinks'[l]) = KeysOf(setLinks[l])
  <2> DEFINE old == SetLinksRevoked(setLinks, g)
             version == IF AccountOf(g, e) = NoUser THEN 0 ELSE users[AccountOf(g, e)].version
             account == AccountOf(g, e)
             row == [golfer |-> g, invite |-> n, email |-> e, user |-> account,
                     expires |-> now + SetTTL, created |-> now, ip |-> ip, consumed |-> FALSE,
                     revoked |-> FALSE, held |-> FALSE, version |-> version]
  <2>1. setLinks' = Append(old, row)
    BY <1>2
  <2> HIDE DEF version, account
  <2>2. row.created = now /\ row.email = e /\ row.ip = ip /\ row.invite = n
    OBVIOUS
  <2> HIDE DEF row
  <2>3. LinksAlike(setLinks) /\ \A l \in DOMAIN setLinks : SetLinkFrom(setLinks[l], setLinks[l])
    BY DEF LinksAlike, SetLinkFrom
  <2>4. old \in Seq(SetLink) /\ Len(old) = Len(setLinks)
    BY <1>3, <2>3, InvGives, SetLinksClosed
  <2>5. LinksAlike(old)
    BY <1>3, <2>3, SetLinksRevokedAlike
  <2> HIDE DEF old
  <2>6. /\ DOMAIN setLinks' = 1..(Len(old) + 1) /\ setLinks'[Len(old) + 1] = row
        /\ \A l \in 1..Len(old) : setLinks'[l] = old[l]
    BY <2>1, <2>4
  <2>7. 1..(Len(old) + 1) = DOMAIN setLinks \cup {x} /\ x \notin DOMAIN setLinks
    BY <1>4, <2>4
  <2>8. KeysOf(row) = asked
    BY <2>2 DEF KeysOf
  <2> HIDE DEF asked
  <2> QED  BY <1>4, <2>2, <2>4, <2>5, <2>6, <2>7, <2>8 DEF LinksAlike
<1>6. ASSUME NEW k PROVE IsFiniteSet(DOMAIN LogOf(k))
  <2>1. DOMAIN LogOf(k) \subseteq 1..Len(setLinks)
    BY <1>4 DEF LogOf
  <2>2. IsFiniteSet(1..Len(setLinks))
    BY <1>4, FS_Interval
  <2> QED  BY <2>1, <2>2, FS_Subset
<1>7. ASSUME NEW k \in asked PROVE Logged(LogOf(k), LogOf(k)', x, now)
  <2> DEFINE ids == {m \in DOMAIN setLinks : CountsOf(m, k)}
             new == {m \in DOMAIN setLinks' : CountsOf(m, k)'}
  <2>1. new = ids \cup {x} /\ x \notin ids
    BY <1>5, <1>7 DEF CountsOf, KeysOf
  <2>2. \A l \in ids : setLinks'[l].created = setLinks[l].created /\ setLinks[l].created \in 0..now
    BY <1>1, <1>4, <1>5 DEF QuotasInv, SetLink
  <2> HIDE DEF ids, new
  <2>3. LogOf(k) = [l \in ids |-> setLinks[l].created]
    BY DEF LogOf, ids
  <2>4. LogOf(k)' = [l \in new |-> setLinks'[l].created]
    BY DEF LogOf, new
  <2> QED  BY <1>1, <1>5, <1>6, <2>1, <2>2, <2>3, <2>4 DEF Logged
<1>8. ASSUME NEW k, k \notin asked PROVE LogOf(k)' = LogOf(k)
  <2> DEFINE ids == {m \in DOMAIN setLinks : CountsOf(m, k)}
  <2>1. {m \in DOMAIN setLinks' : CountsOf(m, k)'} = ids
    BY <1>5, <1>8 DEF CountsOf, KeysOf
  <2>2. \A l \in ids : setLinks'[l].created = setLinks[l].created
    BY <1>5
  <2> HIDE DEF ids
  <2>3. LogOf(k) = [l \in ids |-> setLinks[l].created]
    BY DEF LogOf, ids
  <2>4. LogOf(k)' = [l \in ids |-> setLinks'[l].created]
    BY <2>1 DEF LogOf
  <2> QED  BY <2>2, <2>3, <2>4
<1>9. UsedKeys' = UsedKeys \cup asked
  <2>1. \A k : k \in UsedKeys' <=> \E l \in DOMAIN setLinks' : k \in KeysOf(setLinks'[l])
    BY DEF UsedKeys
  <2>2. \A k : k \in UsedKeys <=> \E l \in DOMAIN setLinks : k \in KeysOf(setLinks[l])
    BY DEF UsedKeys
  <2> QED  BY <1>5, <2>1, <2>2
<1>10. ASSUME NEW k, k[1] \in Tiers PROVE Span[k[1]] \in Nat \ {0} /\ Limit[k[1]] \in Nat \ {0}
  BY <1>10, InvitesAssumption DEF InvitesAssumption
<1> DEFINE kept == {k \in DOMAIN windows : windows[k].start > now - Span[k[1]]}
<1>11. /\ DOMAIN windows' = kept \cup asked
       /\ \A k \in DOMAIN windows' : windows'[k] = IF k \in asked THEN Checked(k).next ELSE windows[k]
  BY <1>1 DEF WindowsAfter
<1>12. \A k \in asked : WindowAt(k)' = Checked(k).next
  BY <1>11 DEF WindowAt
<1>13. \A k \in DOMAIN windows : /\ k[1] \in Tiers
                                 /\ windows[k] \in [start : Nat, count : Nat \ {0}]
                                 /\ windows[k].start <= now
  <2> SUFFICES ASSUME NEW k \in DOMAIN windows
      PROVE  k[1] \in Tiers /\ windows[k] \in [start : Nat, count : Nat \ {0}] /\ windows[k].start <= now
    OBVIOUS
  <2>1. /\ k[1] \in Tiers /\ windows[k] \in [start : Nat, count : Nat]
        /\ windows[k].start \in 0..now /\ windows[k].count \in 1..Limit[k[1]]
    BY InvGives DEF WindowsInv
  <2> QED  BY <2>1, <1>1, <1>10
<1>14. ASSUME NEW k \in asked
       PROVE  \E S \in SUBSET Nat :
                 /\ Windowed(LogOf(k)', S, Span[k[1]], Limit[k[1]])
                 /\ Running(LogOf(k)', S, WindowAt(k)', now, Span[k[1]])
  <2> DEFINE span == Span[k[1]]
             limit == Limit[k[1]]
             w == WindowAt(k)
             old == LogOf(k)
             new == LogOf(k)'
  <2>1. span \in Nat \ {0} /\ limit \in Nat \ {0}
    BY <1>10, KeysHaveTiers
  <2>2. w = NoWindow \/ w \in [start : Nat, count : Nat \ {0}]
    BY <1>13 DEF WindowAt
  <2>3. \E S \in SUBSET Nat : Windowed(old, S, span, limit) /\ Running(old, S, w, now, span)
    <3>1. CASE k \in UsedKeys
      BY <3>1 DEF QuotasInv
    <3>2. CASE k \notin UsedKeys
      <4>1. DOMAIN old = {}
        BY <3>2 DEF UsedKeys, KeysOf, LogOf, CountsOf
      <4>2. w = NoWindow
        BY <3>2 DEF QuotasInv, WindowAt
      <4>3. Windowed(old, {}, span, limit)
        BY <4>1 DEF Windowed
      <4>4. Running(old, {}, w, now, span)
        BY <4>2 DEF Running
      <4> QED  BY <4>3, <4>4
    <3> QED  BY <3>1, <3>2
  <2>4. CheckWindow(w, limit, span).allowed /\ WindowAt(k)' = CheckWindow(w, limit, span).next
    BY <1>1, <1>12 DEF QuotasAllow, Checked
  <2>5. Logged(old, new, x, now)
    BY <1>7
  <2> HIDE DEF span, limit, w, old, new, x
  <2>6. PICK S \in SUBSET Nat : Windowed(old, S, span, limit) /\ Running(old, S, w, now, span)
    BY <2>3
  <2>7. \E T \in SUBSET Nat :
              /\ Windowed(new, T, span, limit)
              /\ Running(new, T, CheckWindow(w, limit, span).next, now, span)
    BY <2>1, <2>2, <2>4, <2>5, <2>6, RequestCounted
  <2> QED  BY <2>4, <2>7 DEF span, limit, new
<1>15. ASSUME NEW k \in UsedKeys, k \notin asked
       PROVE  \E S \in SUBSET Nat :
                 /\ Windowed(LogOf(k)', S, Span[k[1]], Limit[k[1]])
                 /\ Running(LogOf(k)', S, WindowAt(k)', now, Span[k[1]])
  <2>1. PICK S \in SUBSET Nat : /\ Windowed(LogOf(k), S, Span[k[1]], Limit[k[1]])
                                /\ Running(LogOf(k), S, WindowAt(k), now, Span[k[1]])
    BY <1>15 DEF QuotasInv
  <2>2. CASE k \in DOMAIN windows'
    <3>1. WindowAt(k)' = WindowAt(k)
      BY <1>11, <1>15, <2>2 DEF WindowAt
    <3> QED  BY <1>8, <1>15, <2>1, <3>1
  <2>3. CASE k \notin DOMAIN windows'
    <3>1. WindowAt(k)' = NoWindow
      BY <2>3 DEF WindowAt
    <3>2. k \in DOMAIN windows => windows[k].start <= now - Span[k[1]] /\ windows[k].start \in Nat
                                  /\ Span[k[1]] \in Nat
      <4> SUFFICES ASSUME k \in DOMAIN windows
          PROVE  windows[k].start <= now - Span[k[1]] /\ windows[k].start \in Nat
                 /\ Span[k[1]] \in Nat
        OBVIOUS
      <4>1. ~(windows[k].start > now - Span[k[1]])
        BY <1>11, <2>3
      <4>2. windows[k].start \in Nat /\ Span[k[1]] \in Nat
        BY <1>10, <1>13
      <4> QED  BY <4>1, <4>2, <1>1
    <3>3. \A s \in S : ~(now - s < Span[k[1]])
      <4> SUFFICES ASSUME NEW s \in S, now - s < Span[k[1]] PROVE FALSE
        OBVIOUS
      <4>1. WindowAt(k) = [start |-> s, count |-> Cardinality(Since(LogOf(k), s))]
        BY <2>1 DEF Running
      <4>2. CASE k \in DOMAIN windows
        <5>1. windows[k].start = s
          BY <4>1, <4>2 DEF WindowAt
        <5> QED  BY <3>2, <4>2, <5>1, <1>1
      <4>3. CASE k \notin DOMAIN windows
        <5>1. Cardinality(Since(LogOf(k), s)) = 0
          BY <4>1, <4>3 DEF WindowAt, NoWindow
        <5>2. IsFiniteSet(Since(LogOf(k), s))
          <6>1. Since(LogOf(k), s) \subseteq DOMAIN LogOf(k)
            BY DEF Since
          <6> QED  BY <6>1, <1>6, FS_Subset
        <5>3. Since(LogOf(k), s) = {}
          BY <5>1, <5>2, FS_EmptySet
        <5>4. PICK l \in DOMAIN LogOf(k) : LogOf(k)[l] = s
          BY <2>1 DEF Windowed
        <5>5. s \in Nat
          OBVIOUS
        <5> QED  BY <5>3, <5>4, <5>5 DEF Since
      <4> QED  BY <4>2, <4>3
    <3>4. Running(LogOf(k), S, NoWindow, now, Span[k[1]])
      BY <3>3 DEF Running
    <3> QED  BY <1>8, <1>15, <2>1, <3>1, <3>4
  <2> QED  BY <2>2, <2>3
<1>16. DOMAIN windows' \subseteq UsedKeys'
  BY <1>9, <1>11 DEF QuotasInv
<1>17. \A l \in DOMAIN setLinks' : setLinks'[l].created <= now'
  BY <1>1, <1>5 DEF QuotasInv
<1>18. \A k \in UsedKeys' : \E S \in SUBSET Nat :
          /\ Windowed(LogOf(k)', S, Span[k[1]], Limit[k[1]])
          /\ Running(LogOf(k)', S, WindowAt(k)', now', Span[k[1]])
  BY <1>1, <1>9, <1>14, <1>15
<1> QED  BY <1>16, <1>17, <1>18 DEF QuotasInv

-----------------------------------------------------------------------------
(* Every other step: the logs stay, and so do the rows.                     *)

OnlyTime == LinksAlike(setLinks') /\ windows' = windows /\ now' >= now

LEMMA AccountsElsewhere ==
    ASSUME Inv, AccountsNext, windows' = windows
    PROVE  OnlyTime
<1>1. now' >= now
  BY InvGives, AccountsNextClock
<1>2. setLinks \in Seq(SetLink)
  BY InvGives DEF SetLinksInv
<1>3. ASSUME NEW i \in DOMAIN userLinks, NEW p, NEW b, CompleteReset(i, p, b)
      PROVE  LinksAlike(setLinks')
  <2>1. LinksAlike(setLinks)
    BY DEF LinksAlike
  <2>2. setLinks' = setLinks \/ \E g : setLinks' = SetLinksRevoked(setLinks, g)
    BY <1>3 DEF CompleteReset
  <2> QED  BY <1>2, <2>1, <2>2, SetLinksRevokedAlike
<1>4. ASSUME NEW e, NEW p, Register(e, p) PROVE LinksAlike(setLinks')
  BY <1>4, NothingAlike DEF Register, RegisterNew, RegisterAgain
<1>5. ASSUME NEW i, VerifyEmail(i) PROVE LinksAlike(setLinks')
  BY <1>5, NothingAlike DEF VerifyEmail, FollowVerify
<1>6. ASSUME NEW e, RequestReset(e) PROVE LinksAlike(setLinks')
  BY <1>6, NothingAlike DEF RequestReset
<1>7. ASSUME NEW u, NEW b, Login(u, b) \/ Logout(b) PROVE LinksAlike(setLinks')
  BY <1>7, NothingAlike DEF Login, Logout
<1>8. ASSUME NEW g, NEW e, NEW active, EditGolfer(g, e, active) PROVE LinksAlike(setLinks')
  BY <1>8, NothingAlike DEF EditGolfer
<1>9. ASSUME Tick PROVE LinksAlike(setLinks')
  BY <1>9, NothingAlike DEF Tick
<1>10. LinksAlike(setLinks')
  BY <1>3, <1>4, <1>5, <1>6, <1>7, <1>8, <1>9 DEF AccountsNext
<1> QED  BY <1>1, <1>10 DEF OnlyTime

LEMMA AdminElsewhere ==
    ASSUME Inv, AdminNext
    PROVE  OnlyTime
<1>1. setLinks \in Seq(SetLink) /\ now \in Nat
  BY InvGives DEF SetLinksInv
<1>2. ASSUME NEW n PROVE LinksAlike(LinksOfInviteRevoked(n))
  <2>1. LinksAlike(setLinks)
    BY DEF LinksAlike
  <2> QED  BY <1>1, <2>1, RevokedAlike DEF LinksOfInviteRevoked
<1>3. ASSUME NEW n, RevokeInvite(n) \/ RotateInvite(n) PROVE OnlyTime
  <2>1. setLinks' = LinksOfInviteRevoked(n) /\ windows' = windows /\ now' = now
    BY <1>3 DEF RevokeInvite, RotateInvite
  <2> QED  BY <1>1, <1>2, <2>1 DEF OnlyTime
<1>4. ASSUME UNCHANGED accountVars, windows' = windows PROVE OnlyTime
  <2>1. setLinks' = setLinks /\ now' = now
    BY <1>4 DEF accountVars
  <2> QED  BY <1>1, <1>4, <2>1, NothingAlike DEF OnlyTime
<1>5. CASE OpenForm
  BY <1>4, <1>5 DEF OpenForm
<1>6. ASSUME NEW f, NEW label, PostForm(f, label, InviteTTL) PROVE OnlyTime
  BY <1>4, <1>6 DEF PostForm
<1>7. ASSUME NEW f, FormShownAgain(f) PROVE OnlyTime
  BY <1>4, <1>7 DEF FormShownAgain
<1>8. ASSUME NEW r, ShowReceipt(r) PROVE OnlyTime
  BY <1>4, <1>8 DEF ShowReceipt
<1> QED  BY <1>3, <1>5, <1>6, <1>7, <1>8 DEF AdminNext

LEMMA CompleteElsewhere ==
    ASSUME Inv, NEW l \in DOMAIN setLinks, NEW p, NEW b, CompleteSet(l, p, b)
    PROVE  OnlyTime
<1> DEFINE row == [setLinks[l] EXCEPT !.consumed = TRUE]
           links == [setLinks EXCEPT ![l] = row]
           g == setLinks[l].golfer
<1>1. setLinks \in Seq(SetLink) /\ now \in Nat
  BY InvGives DEF SetLinksInv
<1>2. setLinks' = SetLinksRevoked(links, g) /\ now' = now /\ windows' = windows
  BY DEF CompleteSet, inviteVars
<1>3. links \in Seq(SetLink) /\ LinksAlike(links)
  BY <1>1, ChangedAlike
<1> HIDE DEF links, g
<1>4. LinksAlike(setLinks')
  BY <1>2, <1>3, SetLinksRevokedAlike
<1> QED  BY <1>1, <1>2, <1>4 DEF OnlyTime

LEMMA MailElsewhere ==
    ASSUME Inv, MailNext
    PROVE  OnlyTime
<1>1. setLinks \in Seq(SetLink) /\ now \in Nat
  BY InvGives DEF SetLinksInv
<1>2. PICK j \in mail : \/ SendMail(j) \/ SendFails(j)
                        \/ RecordSuccess(j) \/ RecordFailure(j) \/ RecordingFails(j)
  BY DEF MailNext
<1>3. j.link \in DOMAIN setLinks
  BY InvGives DEF MailInv
<1>4. now' = now /\ windows' = windows
  BY <1>2 DEF SendMail, SendFails, MailMoves, RecordSuccess, RecordFailure, RecordingFails, accountVars
<1>5. \/ setLinks' = setLinks
      \/ setLinks' = [setLinks EXCEPT ![j.link] = [setLinks[j.link] EXCEPT !.held = TRUE]]
      \/ setLinks' = [setLinks EXCEPT ![j.link] = [setLinks[j.link] EXCEPT !.revoked = TRUE]]
  BY <1>2 DEF SendMail, SendFails, MailMoves, RecordSuccess, RecordFailure, RecordingFails, accountVars
<1>6. LinksAlike(setLinks')
  BY <1>1, <1>3, <1>5, ChangedAlike, NothingAlike
<1> QED  BY <1>1, <1>4, <1>6 DEF OnlyTime

LEMMA StopElsewhere ==
    ASSUME Inv, StopNext
    PROVE  OnlyTime
<1>1. windows' = windows /\ now \in Nat
  BY InvGives DEF StopNext, ProcessStops
<1>2. now' = now /\ setLinks' = setLinks
  BY DEF StopNext, VerifyCutShort, FollowVerify, accountVars
<1> QED  BY <1>1, <1>2, NothingAlike DEF OnlyTime

LEMMA QuotasNext ==
    ASSUME Inv, QuotasInv, [Next]_vars
    PROVE  QuotasInv'
<1>1. ASSUME OnlyTime PROVE QuotasInv'
  <2>1. /\ WindowsInv /\ now \in Nat /\ setLinks \in Seq(SetLink)
    BY InvGives DEF SetLinksInv
  <2>2. now' \in Nat
    <3>1. Inv'
      BY InvNext
    <3>2. BaseTyped'
      BY <3>1 DEF Inv, AccountsInv
    <3>3. bound' \in Bound
      BY <3>2, AccountsAssumption DEF BaseTyped, AccountsAssumption
    <3> QED  BY <3>2, <3>3 DEF BaseTyped, Bound
  <2> QED  BY <1>1, <2>1, <2>2, QuotasStay DEF OnlyTime
<1>2. CASE AccountsNext /\ UNCHANGED inviteVars
  BY <1>1, <1>2, AccountsElsewhere DEF inviteVars
<1>3. CASE AdminNext
  BY <1>1, <1>3, AdminElsewhere
<1>4. CASE JoinNext
  <2>1. ASSUME NEW n \in DOMAIN invites, NEW e \in Emails, NEW ip \in Addresses, Suppress(n, e, ip)
        PROVE  QuotasInv'
    <3>1. setLinks' = setLinks /\ now' = now /\ windows' = windows /\ now \in Nat
      BY <2>1, InvGives DEF Suppress, accountVars
    <3>2. OnlyTime
      BY <3>1, NothingAlike DEF OnlyTime
    <3> QED  BY <1>1, <3>2
  <2>2. ASSUME NEW l \in DOMAIN setLinks, NEW p \in bound.passwords, NEW b \in Anywhere,
               CompleteSet(l, p, b)
        PROVE  QuotasInv'
    BY <1>1, <2>2, CompleteElsewhere
  <2> QED  BY <1>4, <2>1, <2>2, AdmitCounts DEF JoinNext
<1>5. CASE MailNext
  BY <1>1, <1>5, MailElsewhere
<1>6. CASE StopNext
  BY <1>1, <1>6, StopElsewhere
<1>7. CASE UNCHANGED vars
  <2>1. setLinks' = setLinks /\ now' = now /\ windows' = windows /\ now \in Nat
    BY <1>7, InvGives DEF vars, accountVars, inviteVars
  <2>2. OnlyTime
    BY <2>1, NothingAlike DEF OnlyTime
  <2> QED  BY <1>1, <2>2
<1> QED  BY <1>2, <1>3, <1>4, <1>5, <1>6, <1>7 DEF Next

-----------------------------------------------------------------------------
(* What the logs say of the rows.                                           *)

LEMMA LogsTyped ==
    ASSUME setLinks \in Seq(SetLink)
    PROVE  \A k : /\ IsFiniteSet(DOMAIN LogOf(k))
                  /\ \A l \in DOMAIN LogOf(k) : LogOf(k)[l] \in Nat
                  /\ IssuedAt(k) = {LogOf(k)[l] : l \in DOMAIN LogOf(k)}
<1>1. DOMAIN setLinks = 1..Len(setLinks) /\ Len(setLinks) \in Nat
      /\ \A l \in DOMAIN setLinks : setLinks[l] \in SetLink
  BY Rows
<1>2. ASSUME NEW k
      PROVE  /\ IsFiniteSet(DOMAIN LogOf(k))
             /\ \A l \in DOMAIN LogOf(k) : LogOf(k)[l] \in Nat
             /\ IssuedAt(k) = {LogOf(k)[l] : l \in DOMAIN LogOf(k)}
  <2>1. DOMAIN LogOf(k) \subseteq 1..Len(setLinks)
    BY <1>1 DEF LogOf
  <2>2. IsFiniteSet(1..Len(setLinks))
    BY <1>1, FS_Interval
  <2>3. IsFiniteSet(DOMAIN LogOf(k))
    BY <2>1, <2>2, FS_Subset
  <2>4. \A l \in DOMAIN LogOf(k) : LogOf(k)[l] \in Nat
    BY <1>1 DEF LogOf, SetLink
  <2>5. IssuedAt(k) = {LogOf(k)[l] : l \in DOMAIN LogOf(k)}
    BY DEF LogOf, IssuedAt
  <2> QED  BY <2>3, <2>4, <2>5
<1> QED  BY <1>2

LEMMA CountsFollow ==
    ASSUME Inv, QuotasInv
    PROVE  QuotasCountLinks
<1>1. setLinks \in Seq(SetLink) /\ now \in Nat
  BY InvGives DEF SetLinksInv
<1>2. ASSUME NEW k \in UsedKeys
      PROVE  LET issued == IssuedAt(k)
                 began == Began(issued, Span[k[1]])
                 start == CHOOSE s \in began : \A r \in began : r <= s
             IN  now - start < Span[k[1]] =>
                    WindowAt(k) = [start |-> start, count |-> Cardinality({l \in DOMAIN setLinks :
                        CountsOf(l, k) /\ setLinks[l].created >= start})]
  <2> DEFINE issued == IssuedAt(k)
             began == Began(issued, Span[k[1]])
             start == CHOOSE s \in began : \A r \in began : r <= s
             at == LogOf(k)
  <2>1. Span[k[1]] \in Nat
    <3>1. k[1] \in Tiers
      BY KeysHaveTiers DEF UsedKeys, KeysOf
    <3> QED  BY <3>1, InvitesAssumption DEF InvitesAssumption
  <2>2. PICK S \in SUBSET Nat : /\ Windowed(at, S, Span[k[1]], Limit[k[1]])
                                /\ Running(at, S, WindowAt(k), now, Span[k[1]])
    BY DEF QuotasInv
  <2>3. /\ \A l \in DOMAIN at : at[l] \in Nat
        /\ issued = {at[l] : l \in DOMAIN at}
    BY <1>1, LogsTyped
  <2>4. began = S
    BY <2>1, <2>2, <2>3, WindowsBegin
  <2>5. PICK l \in DOMAIN setLinks : CountsOf(l, k)
    BY DEF UsedKeys, KeysOf, CountsOf
  <2>6. l \in DOMAIN at
    BY <2>5 DEF LogOf
  <2>7. S # {}
    BY <2>2, <2>6 DEF Windowed
  <2>8. \E s \in S : \A r \in S : r <= s
    BY <2>2, <2>7 DEF Windowed
  <2> HIDE DEF issued, began
  <2>9. start \in S
    BY <2>4, <2>8
  <2> HIDE DEF start
  <2>10. {m \in DOMAIN setLinks : CountsOf(m, k) /\ setLinks[m].created >= start} = Since(at, start)
    BY DEF LogOf, Since
  <2>11. now - start < Span[k[1]] =>
            WindowAt(k) = [start |-> start, count |-> Cardinality(Since(at, start))]
    BY <2>2, <2>9 DEF Running
  <2> QED  BY <2>10, <2>11 DEF issued, began, start
<1>3. UsedKeys = UNION {Keys(setLinks[l].email, setLinks[l].ip, setLinks[l].invite) :
                           l \in DOMAIN setLinks}
  BY DEF UsedKeys, KeysOf
<1> QED  BY <1>2, <1>3 DEF QuotasCountLinks

LEMMA SpansFollow ==
    ASSUME Inv, QuotasInv
    PROVE  QuotaOverAnySpan
<1>1. setLinks \in Seq(SetLink)
  BY InvGives DEF SetLinksInv
<1> SUFFICES ASSUME NEW t \in Tiers, NEW l \in DOMAIN setLinks
    PROVE  LET k == Key(t, setLinks[l].email, setLinks[l].ip, setLinks[l].invite)
               from == setLinks[l].created
           IN  Cardinality({m \in DOMAIN setLinks :
                  CountsOf(m, k) /\ setLinks[m].created \in from..(from + Span[t] - 1)})
                    <= 2 * Limit[t] - 1
  BY DEF QuotaOverAnySpan
<1> DEFINE k == Key(t, setLinks[l].email, setLinks[l].ip, setLinks[l].invite)
           from == setLinks[l].created
           at == LogOf(k)
<1>2. k \in KeysOf(setLinks[l])
  BY DEF KeysOf, Keys
<1>3. k \in UsedKeys /\ CountsOf(l, k)
  BY <1>2 DEF UsedKeys, CountsOf, KeysOf
<1>4. k[1] = t
  BY DEF Key, Tiers
<1> HIDE DEF k
<1>5. Span[t] \in Nat \ {0} /\ Limit[t] \in Nat \ {0}
  BY InvitesAssumption DEF InvitesAssumption
<1>6. PICK S \in SUBSET Nat : Windowed(at, S, Span[t], Limit[t])
  BY <1>3, <1>4 DEF QuotasInv
<1>7. IsFiniteSet(DOMAIN at) /\ \A m \in DOMAIN at : at[m] \in Nat
  BY <1>1, LogsTyped
<1>8. l \in DOMAIN at /\ at[l] = from
  BY <1>3 DEF LogOf
<1>9. Cardinality(Within(at, from, Span[t])) <= 2 * Limit[t] - 1
  BY <1>5, <1>6, <1>7, <1>8, TwoWindowsMet
<1>10. {m \in DOMAIN setLinks : CountsOf(m, k) /\ setLinks[m].created \in from..(from + Span[t] - 1)}
          = Within(at, from, Span[t])
  <2>1. \A m \in DOMAIN setLinks : setLinks[m].created \in Nat
    <3>1. \A m \in DOMAIN setLinks : setLinks[m] \in SetLink
      BY <1>1, Rows
    <3> QED  BY <3>1 DEF SetLink
  <2>2. \A m \in DOMAIN setLinks :
           setLinks[m].created \in from..(from + Span[t] - 1)
           <=> from <= setLinks[m].created /\ setLinks[m].created < from + Span[t]
    BY <1>5, <2>1
  <2> HIDE DEF from
  <2> QED  BY <2>2 DEF LogOf, Within
<1> QED  BY <1>9, <1>10 DEF k

\* However requests are asked, let through, mailed, revoked, completed and pruned, the
\* rows of invite_rate_windows are what the links issued make them, and no time as long
\* as a window sees twice the limit (admit_join_send, check_window): QuotasHold.
THEOREM QuotasAlwaysHold == Spec => []QuotasHold
<1>1. Init => QuotasInv
  <2> SUFFICES ASSUME Init PROVE QuotasInv
    OBVIOUS
  <2>1. setLinks = <<>> /\ windows = << >>
    BY DEF Init, AccountsInit
  <2> QED  BY <2>1 DEF QuotasInv, UsedKeys
<1>2. Inv /\ QuotasInv /\ [Next]_vars => QuotasInv'
  BY QuotasNext
<1>3. Inv /\ QuotasInv => QuotasHold
  BY CountsFollow, SpansFollow DEF QuotasHold
<1> QED  BY <1>1, <1>2, <1>3, Invariance, PTL DEF Spec
=============================================================================
