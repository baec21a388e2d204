------------------------------- MODULE Accounts -------------------------------
(***************************************************************************)
(* Who can sign in: users, the links mailed to them (user_tokens and       *)
(* golfer_set_password_tokens) and the session cookies in their browsers.  *)
(* services/auth.py, services/identity.py, routers/identity.py and         *)
(* security.py, with the roster edits of services/roster.py that change    *)
(* whose address is whose.  Handlers do not await between reading and      *)
(* committing, so each is one step; what comes late is the mail, the       *)
(* recipient's click, and a stop of the process between two commits.       *)
(***************************************************************************)
EXTENDS Integers, FiniteSets, Sequences

CONSTANTS
    Golfers,
    Emails,              \* addresses, already normalised
    Passwords,
    AdminEmail,          \* ADMIN_EMAIL of the first start
    FirstEmail,          \* the roster's addresses at the start
    Browsers,            \* those whose cookies are followed
    Addresses,           \* client addresses requests come from
    VerificationRequired,\* Settings.email_verification_required
    MaxUsers,            \* Settings.max_users
    VerifyTTL, ResetTTL, \* the lifetimes of links, in ticks
    Bounds,              \* what may happen in a behaviour at most; each takes one of them
    NoOne

Admin == 1           \* users.id of the account made at the first start
NoUser == 0
Purposes == {"verify_email", "reset_password"}

\* A row of users, and of the two tables of links.  "held" says that the mail may
\* have reached its address: nobody else ever holds the raw token, and a mail that
\* is lost is a link nobody follows.  "version" is the account's session_version
\* when the link was issued, 0 without an account.
User == [email : Emails, golfer : Golfers \cup {NoOne}, verified : BOOLEAN,
         password : Passwords, version : Nat \ {0}]
UserLink == [user : Nat \ {0}, purpose : Purposes, expires : Nat, consumed : BOOLEAN,
             revoked : BOOLEAN, version : Nat]
SetLink == [golfer : Golfers, invite : Nat \ {0}, email : Emails, user : Nat, expires : Nat,
            created : Nat, ip : Addresses, consumed : BOOLEAN, revoked : BOOLEAN,
            held : BOOLEAN, version : Nat]
\* A session cookie, with the password it was opened under; NoCookie where there is none.
Cookie == [user : Nat \ {0}, version : Nat \ {0}, password : Passwords]
NoCookie == <<>>
\* The pages asked, <<page, email>>; what roster edits set, <<golfer, email, active>>;
\* passwords; and how many links, mails, forms, invitations, refusals counted on an
\* invitation, ticks and stops of the process there are.
Bound == [asks : SUBSET ({"register", "reset", "login", "join"} \X Emails),
          edits : SUBSET (Golfers \X (Emails \cup {NoOne}) \X BOOLEAN),
          passwords : SUBSET Passwords, userLinks : Nat, sends : Nat, forms : Nat,
          invites : Nat, suppressed : Nat, ticks : Nat, stops : Nat]
Anywhere == Browsers \cup {NoOne}   \* NoOne is any browser that is not followed

ASSUME AccountsAssumption ==
    /\ NoOne \notin Golfers \cup Emails \cup Browsers
    /\ AdminEmail \in Emails
    /\ FirstEmail \in [Golfers -> Emails \cup {NoOne}]
    /\ VerificationRequired \in BOOLEAN
    /\ MaxUsers \in Nat
    /\ VerifyTTL \in Nat \ {0} /\ ResetTTL \in Nat \ {0}
    /\ Bounds \subseteq Bound

VARIABLES
    bound,      \* the bound this behaviour takes
    now,        \* the clock
    golfers,    \* email and is_active of golfers
    users,      \* rows of users, by id
    userLinks,  \* rows of user_tokens
    setLinks,   \* rows of golfer_set_password_tokens
    cookies     \* the session cookie in each browser

accountVars == <<bound, now, golfers, users, userLinks, setLinks, cookies>>

Open(link) == ~link.consumed /\ ~link.revoked
Usable(link) == Open(link) /\ link.expires > now

\* update(...).where(consumed_at IS NULL, revoked_at IS NULL).values(revoked_at=now)
Revoked(links, which) ==
    [i \in DOMAIN links |->
        IF i \in which /\ Open(links[i]) THEN [links[i] EXCEPT !.revoked = TRUE] ELSE links[i]]

\* Slip: a cookie is good as long as its account is there.
ValidAnyVersion(cookie) == cookie # NoCookie

\* get_optional_user: the cookie's version is the account's.
Valid(cookie) == cookie # NoCookie /\ users[cookie.user].version = cookie.version
CookieFor(rows, u) == [user |-> u, version |-> rows[u].version, password |-> rows[u].password]
WithCookie(b, c) == IF b = NoOne THEN cookies ELSE [cookies EXCEPT ![b] = c]

RosterGolfers(e) == {g \in Golfers : golfers[g].email = e /\ golfers[g].active}
UserOf(e) == {u \in DOMAIN users : users[u].email = e}
AccountsOf(g) == {u \in DOMAIN users : users[u].golfer = g}

\* Slip: older links stay.
IssuedBeside(links, u, version, purpose, ttl) ==
    Append(links, [user |-> u, purpose |-> purpose, expires |-> now + ttl, consumed |-> FALSE,
                   revoked |-> FALSE, version |-> version])

\* issue_token: older links of the purpose are revoked.
Issued(links, u, version, purpose, ttl) ==
    Append(Revoked(links, {i \in DOMAIN links : links[i].user = u /\ links[i].purpose = purpose}),
           [user |-> u, purpose |-> purpose, expires |-> now + ttl, consumed |-> FALSE,
            revoked |-> FALSE, version |-> version])

\* Slip: a completed credential leaves the account's other links.
UserLinksKept(links, u) == links

\* A credential was completed for u: every other link to it is revoked.
UserLinksRevoked(links, u) == Revoked(links, {i \in DOMAIN links : links[i].user = u})
SetLinksRevoked(links, g) == Revoked(links, {i \in DOMAIN links : links[i].golfer = g})

--------------------------------------------------------------------------------

AccountsInit ==
    /\ bound \in Bounds
    /\ now = 0
    /\ golfers = [g \in Golfers |-> [email |-> FirstEmail[g], active |-> TRUE]]
    /\ \E p \in bound.passwords :
          users = <<[email |-> AdminEmail, golfer |-> NoOne, verified |-> TRUE,
                     password |-> p, version |-> 1]>>
    /\ userLinks = <<>>
    /\ setLinks = <<>>
    /\ cookies = [b \in Browsers |-> NoCookie]

NewUser(e, g, p, verified) ==
    [email |-> e, golfer |-> g, verified |-> verified, password |-> p, version |-> 1]

\* A roster address signs up; the limiter let it through.
RegisterNew(e, p) ==
    /\ UserOf(e) = {}
    /\ \E g \in RosterGolfers(e) :
          /\ AccountsOf(g) = {}
          /\ Len(users) < MaxUsers
          /\ users' = Append(users, NewUser(e, g, p, ~VerificationRequired))
          /\ userLinks' = IF VerificationRequired
                          THEN Issued(userLinks, Len(users) + 1, 1, "verify_email", VerifyTTL)
                          ELSE userLinks
    /\ UNCHANGED <<bound, now, golfers, setLinks, cookies>>

\* Slip: signing up again counts as verification.
RegisterAgainTrusted(e) ==
    /\ \E u \in UserOf(e) :
          /\ users[u].golfer \in RosterGolfers(e)
          /\ users' = [users EXCEPT ![u].verified = TRUE]
    /\ UNCHANGED <<bound, now, golfers, userLinks, setLinks, cookies>>

\* It signs up again before it was verified: a new link, the old password.
RegisterAgain(e) ==
    /\ \E u \in UserOf(e) :
          /\ users[u].golfer \in RosterGolfers(e)
          /\ ~users[u].verified
          /\ IF VerificationRequired
             THEN /\ userLinks' = Issued(userLinks, u, users[u].version, "verify_email",
                                         VerifyTTL)
                  /\ UNCHANGED users
             ELSE /\ users' = [users EXCEPT ![u].verified = TRUE]
                  /\ UNCHANGED userLinks
    /\ UNCHANGED <<bound, now, golfers, setLinks, cookies>>

Register(e, p) ==
    /\ <<"register", e>> \in bound.asks
    /\ Len(userLinks) < bound.userLinks
    /\ RegisterNew(e, p) \/ RegisterAgain(e)

\* The link's row is consumed and committed first, the account marked afterwards.
FollowVerify(i, marked) ==
    /\ userLinks[i].purpose = "verify_email" /\ Usable(userLinks[i])
    /\ userLinks' = [userLinks EXCEPT ![i].consumed = TRUE]
    /\ users' = IF marked THEN [users EXCEPT ![userLinks[i].user].verified = TRUE] ELSE users
    /\ UNCHANGED <<bound, now, golfers, setLinks, cookies>>

VerifyEmail(i) == FollowVerify(i, TRUE)
VerifyCutShort(i) == FollowVerify(i, FALSE)   \* the process stops between the two commits

RequestReset(e) ==
    /\ <<"reset", e>> \in bound.asks
    /\ Len(userLinks) < bound.userLinks
    /\ \E u \in UserOf(e) :
          userLinks' = Issued(userLinks, u, users[u].version, "reset_password", ResetTTL)
    /\ UNCHANGED <<bound, now, golfers, users, setLinks, cookies>>

\* complete_reset_token; the browser it is done in is signed out.
CompleteReset(i, p, b) ==
    LET u == userLinks[i].user IN
    /\ userLinks[i].purpose = "reset_password" /\ Usable(userLinks[i])
    /\ users' = [users EXCEPT ![u].password = p, ![u].version = @ + 1]
    /\ userLinks' = UserLinksRevoked([userLinks EXCEPT ![i].consumed = TRUE], u)
    /\ setLinks' = IF users[u].golfer = NoOne THEN setLinks
                   ELSE SetLinksRevoked(setLinks, users[u].golfer)
    /\ cookies' = WithCookie(b, NoCookie)
    /\ UNCHANGED <<bound, now, golfers>>

Login(u, b) ==
    /\ <<"login", users[u].email>> \in bound.asks
    /\ cookies' = WithCookie(b, CookieFor(users, u))
    /\ UNCHANGED <<bound, now, golfers, users, userLinks, setLinks>>

Logout(b) ==
    /\ cookies[b] # NoCookie
    /\ cookies' = WithCookie(b, NoCookie)
    /\ UNCHANGED <<bound, now, golfers, users, userLinks, setLinks>>

\* update_golfer: an address belongs to one golfer; members of an active team stay
\* active, which is a choice here.
EditGolfer(g, e, active) ==
    /\ e # NoOne => \A h \in Golfers \ {g} : golfers[h].email # e
    /\ golfers' = [golfers EXCEPT ![g] = [email |-> e, active |-> active]]
    /\ UNCHANGED <<bound, now, users, userLinks, setLinks, cookies>>

Tick ==
    /\ now < bound.ticks
    /\ now' = now + 1
    /\ UNCHANGED <<bound, golfers, users, userLinks, setLinks, cookies>>

AccountsNext ==
    \/ \E e \in Emails, p \in bound.passwords : Register(e, p)
    \/ \E i \in DOMAIN userLinks : VerifyEmail(i)
    \/ \E e \in Emails : RequestReset(e)
    \/ \E i \in DOMAIN userLinks, p \in bound.passwords, b \in Anywhere : CompleteReset(i, p, b)
    \/ \E u \in DOMAIN users, b \in Browsers : Login(u, b)
    \/ \E b \in Browsers : Logout(b)
    \/ \E edit \in bound.edits : EditGolfer(edit[1], edit[2], edit[3])
    \/ Tick

--------------------------------------------------------------------------------
(* Properties. *)

\* The tables hold rows of their kind; ids of users are their places.
AccountsTypeOK ==
    /\ bound \in Bounds
    /\ now \in 0..bound.ticks
    /\ golfers \in [Golfers -> [email : Emails \cup {NoOne}, active : BOOLEAN]]
    /\ users \in Seq(User)
    /\ userLinks \in Seq(UserLink)
    /\ setLinks \in Seq(SetLink)
    /\ cookies \in [Browsers -> Cookie \cup {NoCookie}]

\* Whatever order links were asked for in and by which page, at most one link of a
\* kind can still complete: one per account and purpose, one per golfer across all
\* invitations (issue_token, admit_join_send).
OneOpenLink ==
    /\ \A i, j \in DOMAIN userLinks :
          /\ Open(userLinks[i]) /\ Open(userLinks[j])
          /\ userLinks[i].user = userLinks[j].user
          /\ userLinks[i].purpose = userLinks[j].purpose
          => i = j
    /\ \A i, j \in DOMAIN setLinks :
          Open(setLinks[i]) /\ Open(setLinks[j]) /\ setLinks[i].golfer = setLinks[j].golfer
          => i = j

\* No link that was mailed before an account's password last changed can still be
\* completed, whichever of the two kinds changed it (complete_reset_token and
\* complete_set_password revoke each other's links).
LinksAreCurrent ==
    /\ \A i \in DOMAIN userLinks :
          Open(userLinks[i]) => userLinks[i].version = users[userLinks[i].user].version
    /\ \A l \in DOMAIN setLinks :
          Open(setLinks[l]) /\ setLinks[l].user # NoUser
          => setLinks[l].version = users[setLinks[l].user].version

\* A browser is signed in only under the password its account has now: a completed
\* reset or set-password link ends every session opened before (session_version).
SessionsFollowPassword ==
    \A b \in Browsers :
        Valid(cookies[b]) => cookies[b].password = users[cookies[b].user].password

\* Where verification is required, an account but the first one counts as verified
\* only after somebody followed a link that was mailed to that very address.
VerifiedByItsMail ==
    VerificationRequired =>
        \A u \in DOMAIN users \ {Admin} : users[u].verified =>
            \/ \E i \in DOMAIN userLinks : /\ userLinks[i].user = u
                                           /\ userLinks[i].purpose = "verify_email"
                                           /\ userLinks[i].consumed
            \/ \E l \in DOMAIN setLinks : /\ setLinks[l].golfer = users[u].golfer
                                          /\ setLinks[l].email = users[u].email
                                          /\ setLinks[l].consumed /\ setLinks[l].held

=============================================================================
