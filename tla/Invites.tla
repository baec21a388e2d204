------------------------------- MODULE Invites -------------------------------
(***************************************************************************)
(* Shared invitations on top of Accounts: the admin's forms, one-time      *)
(* receipts, rotation and revocation (routers/admin_invites.py), joining   *)
(* under four persistent rate windows, the mail sent after the response    *)
(* with its outcome recorded in a transaction of its own, and completing a *)
(* set-password link (services/invites.py, routers/join.py).               *)
(***************************************************************************)
EXTENDS Accounts

CONSTANTS
    Labels,
    FirstInvites,  \* the invitations there are at the start, made and shown before
    InviteTTL,     \* 30 days, and what a form asks for when it is left blank
    SetTTL,        \* 45 minutes
    TwinSpan,      \* DUPLICATE_WINDOW_SECONDS
    FormTTL,       \* InviteFormNonceStore.TTL_SECONDS
    ReceiptTTL,    \* the 300 seconds of InviteReceiptStore
    Limit, Span,   \* QUOTAS: how many in how long, by tier
    InviteCap      \* the 150 accounts of admit_join_send and complete_set_password

Tiers == {"email", "ip", "invite", "global"}

ASSUME InvitesAssumption ==
    /\ Limit \in [Tiers -> Nat \ {0}]
    /\ Span \in [Tiers -> Nat \ {0}]
    /\ InviteTTL \in Nat \ {0} /\ SetTTL \in Nat \ {0} /\ TwinSpan \in Nat
    /\ FormTTL \in Nat \ {0} /\ ReceiptTTL \in Nat \ {0}
    /\ InviteCap \in Nat \ {0}

\* A row of league_invite_links.  "form" is the form that made it, 0 for a rotation;
\* "shown" how often its URL was displayed: nobody can join by a URL never shown.
Invite == [label : Labels, created : Nat, expires : Nat, revoked : BOOLEAN, form : Nat,
           shown : Nat, sent : Nat, failed : Nat, suppressed : Nat]
\* A create form somebody has open, and its nonce in the process.
Form == [expires : Nat, session : Nat, used : BOOLEAN, known : BOOLEAN]
\* A receipt in the process; the browser holds its nonce.
Receipt == [invite : Nat \ {0}, expires : Nat, session : Nat]
\* Nobody joined by the first invitations yet, and no form of today made them.
ASSUME FirstInvitesAssumption ==
    /\ FirstInvites \in Seq(Invite)
    /\ \A n \in DOMAIN FirstInvites :
          FirstInvites[n].form = 0 /\ FirstInvites[n].shown <= 1
          /\ FirstInvites[n].sent = 0 /\ FirstInvites[n].failed = 0

\* A background task that mails a link.
Job == [link : Nat \ {0}, phase : {"queued", "sent", "refused"}]

VARIABLES
    invites,   \* rows of league_invite_links
    windows,   \* rows of invite_rate_windows by tier and key
    mail,      \* background tasks that have not ended
    forms, receipts,
    stops

inviteVars == <<invites, windows, mail, forms, receipts, stops>>
vars == <<accountVars, inviteVars>>

Live(n) == ~invites[n].revoked /\ invites[n].expires > now

\* Slip: one more than the limit.
CheckWindowOver(window, limit, span) ==
    LET w == IF window = <<>> \/ now - window.start >= span
             THEN [start |-> now, count |-> 0] ELSE window
    IN  [allowed |-> w.count <= limit, next |-> [w EXCEPT !.count = @ + 1]]

\* check_window: a window is half-open; the first request after it starts the next.
NoWindow == [start |-> 0, count |-> 0]
CheckWindow(window, limit, span) ==
    LET w == IF window = NoWindow \/ now - window.start >= span
             THEN [start |-> now, count |-> 0] ELSE window
    IN  [allowed |-> w.count < limit, next |-> [w EXCEPT !.count = @ + 1]]

Key(tier, e, ip, n) ==
    CASE tier = "email" -> <<tier, e>> [] tier = "ip" -> <<tier, ip>>
      [] tier = "invite" -> <<tier, n>> [] OTHER -> <<tier, "all">>
Keys(e, ip, n) == {Key(t, e, ip, n) : t \in Tiers}
WindowAt(k) == IF k \in DOMAIN windows THEN windows[k] ELSE NoWindow
Checked(k) == CheckWindow(WindowAt(k), Limit[k[1]], Span[k[1]])
\* Slip: the client's address is not among the tiers asked.
QuotasAllowAnywhere(e, ip, n) ==
    \A k \in Keys(e, ip, n) : k[1] # "ip" => Checked(k).allowed
QuotasAllow(e, ip, n) == \A k \in Keys(e, ip, n) : Checked(k).allowed

\* Slip: every tier is pruned by the shortest span.
WindowsAfterShort(e, ip, n) ==
    LET kept == {k \in DOMAIN windows : windows[k].start > now - Span["email"]}
    IN  [k \in kept \cup Keys(e, ip, n) |->
            IF k \in Keys(e, ip, n) THEN Checked(k).next ELSE windows[k]]

\* Obsolete windows are pruned, then the four of this request written.
WindowsAfter(e, ip, n) ==
    LET kept == {k \in DOMAIN windows : windows[k].start > now - Span[k[1]]}
    IN  [k \in kept \cup Keys(e, ip, n) |->
            IF k \in Keys(e, ip, n) THEN Checked(k).next ELSE windows[k]]

\* Slip: whoever has the golfer is not looked at.
ClaimantsByEmail(g, e) == UserOf(e)

\* _matching_identity: whoever has the address or the golfer has both.
Claimants(g, e) == UserOf(e) \cup AccountsOf(g)
IdentityAgrees(g, e) ==
    \A u \in Claimants(g, e) : users[u].email = e /\ users[u].golfer = g
AccountOf(g, e) == IF Claimants(g, e) = {} THEN NoUser ELSE CHOOSE u \in Claimants(g, e) : TRUE

\* Slip: the cap is reached one too late.
RoomForOneMore(user) == user = NoUser => Len(users) <= InviteCap

\* A link makes an account only below the cap.
RoomFor(user) == user = NoUser => Len(users) < InviteCap

--------------------------------------------------------------------------------
(* The admin. *)

Session == users[Admin].version

NewInvite(label, ttl, form) ==
    [label |-> label, created |-> now, expires |-> now + ttl, revoked |-> FALSE, form |-> form,
     shown |-> 0, sent |-> 0, failed |-> 0, suppressed |-> 0]

\* put: expired receipts go, and the new one is the session's that made it.
ReceiptsWith(n) ==
    {r \in receipts : r.expires > now}
        \cup {[invite |-> n, expires |-> now + ReceiptTTL, session |-> Session]}

FormsWith(shown) ==
    Append(shown, [expires |-> now + FormTTL, session |-> Session, used |-> FALSE, known |-> TRUE])

OpenForm ==
    /\ Len(forms) < bound.forms
    /\ forms' = FormsWith(forms)
    /\ UNCHANGED <<accountVars, invites, windows, mail, receipts, stops>>

FormKnown(f) == forms[f].known /\ forms[f].expires > now /\ forms[f].session = Session

\* Slip: only the newest invitation is compared.
HasTwinNewest(label) ==
    LET n == Len(invites) IN
    n # 0 /\ invites[n].label = label /\ Live(n) /\ invites[n].created > now - TwinSpan

\* has_recent_live_twin
HasTwin(label) ==
    \E n \in DOMAIN invites : invites[n].label = label /\ Live(n)
                              /\ invites[n].created > now - TwinSpan

\* Slip: the nonce is never marked as used.
FormsUnused(f) == forms

FormsUsed(f) == [forms EXCEPT ![f].used = TRUE]

\* A form posted a second time, a twin of what was just made, or the invitation.
PostForm(f, label, ttl) ==
    /\ FormKnown(f) /\ ~forms[f].used
    /\ forms' = FormsUsed(f)
    /\ IF HasTwin(label)
       THEN UNCHANGED <<invites, receipts>>
       ELSE /\ Len(invites) < bound.invites
            /\ invites' = Append(invites, NewInvite(label, ttl, f))
            /\ receipts' = ReceiptsWith(Len(invites) + 1)
    /\ UNCHANGED <<accountVars, windows, mail, stops>>

\* An unknown form, or fields that do not validate (the nonce is released): another
\* form is shown and nothing made.
FormShownAgain(f) ==
    /\ Len(forms) < bound.forms
    /\ ~FormKnown(f) \/ ~forms[f].used
    /\ forms' = FormsWith(forms)
    /\ UNCHANGED <<accountVars, invites, windows, mail, receipts, stops>>

ShowReceipt(r) ==
    /\ r.session = Session
    /\ receipts' = receipts \ {r}
    /\ invites' = IF r.expires > now THEN [invites EXCEPT ![r.invite].shown = @ + 1] ELSE invites
    /\ UNCHANGED <<accountVars, windows, mail, forms, stops>>

RevokedInvite(rows, n) == [rows EXCEPT ![n].revoked = TRUE]
\* Slip: links already issued live on.
LinksOfInviteKept(n) == setLinks

LinksOfInviteRevoked(n) == Revoked(setLinks, {l \in DOMAIN setLinks : setLinks[l].invite = n})

RevokeInvite(n) ==
    /\ invites' = RevokedInvite(invites, n)
    /\ setLinks' = LinksOfInviteRevoked(n)
    /\ UNCHANGED <<bound, now, golfers, users, userLinks, cookies, windows, mail, forms, receipts, stops>>

RotateInvite(n) ==
    /\ Len(invites) < bound.invites
    /\ Live(n)
    /\ invites' = Append(RevokedInvite(invites, n), NewInvite(invites[n].label, InviteTTL, 0))
    /\ setLinks' = LinksOfInviteRevoked(n)
    /\ receipts' = ReceiptsWith(Len(invites) + 1)
    /\ UNCHANGED <<bound, now, golfers, users, userLinks, cookies, windows, mail, forms, stops>>

--------------------------------------------------------------------------------
(* Joining. *)

Joining(n, e) == <<"join", e>> \in bound.asks /\ invites[n].shown > 0 /\ Live(n)

\* The quotas are asked before anything is known of the address.
Suppress(n, e, ip) ==
    /\ Joining(n, e)
    /\ ~QuotasAllow(e, ip, n)
    /\ invites[n].suppressed < bound.suppressed
    /\ invites' = [invites EXCEPT ![n].suppressed = @ + 1]
    /\ UNCHANGED <<accountVars, windows, mail, forms, receipts, stops>>

\* admit_join_send, committed before the response and its background task.
Admit(n, e, ip) ==
    /\ Len(setLinks) < bound.sends
    /\ Joining(n, e)
    /\ QuotasAllow(e, ip, n)
    /\ \E g \in RosterGolfers(e) :
          /\ IdentityAgrees(g, e)
          /\ RoomFor(AccountOf(g, e))
          /\ windows' = WindowsAfter(e, ip, n)
          /\ setLinks' = Append(SetLinksRevoked(setLinks, g),
                [golfer |-> g, invite |-> n, email |-> e, user |-> AccountOf(g, e),
                 expires |-> now + SetTTL, created |-> now, ip |-> ip, consumed |-> FALSE,
                 revoked |-> FALSE, held |-> FALSE,
                 version |-> IF AccountOf(g, e) = NoUser THEN 0 ELSE users[AccountOf(g, e)].version])
          /\ mail' = mail \cup {[link |-> Len(setLinks) + 1, phase |-> "queued"]}
    /\ UNCHANGED <<bound, now, golfers, users, userLinks, cookies, invites, forms, receipts, stops>>

MailMoves(j, phase) ==
    /\ j.phase = "queued"
    /\ mail' = (mail \ {j}) \cup {[j EXCEPT !.phase = phase]}
    /\ setLinks' = [setLinks EXCEPT ![j.link].held = TRUE]
    /\ UNCHANGED <<bound, now, golfers, users, userLinks, cookies, invites, windows, forms, receipts, stops>>

SendMail(j) == MailMoves(j, "sent")
\* The sender raises; the mail may have left all the same.
SendFails(j) == MailMoves(j, "refused")

\* Slip: the task runs on after its outcome was recorded.
RecordSuccessKept(j) ==
    /\ j.phase = "sent"
    /\ invites' = [invites EXCEPT ![setLinks[j.link].invite].sent = @ + 1]
    /\ UNCHANGED <<accountVars, windows, mail, forms, receipts, stops>>

RecordSuccess(j) ==
    /\ j.phase = "sent"
    /\ mail' = mail \ {j}
    /\ invites' = [invites EXCEPT ![setLinks[j.link].invite].sent = @ + 1]
    /\ UNCHANGED <<accountVars, windows, forms, receipts, stops>>

\* The link is revoked, even one that was completed meanwhile.
RecordFailure(j) ==
    /\ j.phase = "refused"
    /\ mail' = mail \ {j}
    /\ setLinks' = [setLinks EXCEPT ![j.link].revoked = TRUE]
    /\ invites' = [invites EXCEPT ![setLinks[j.link].invite].failed = @ + 1]
    /\ UNCHANGED <<bound, now, golfers, users, userLinks, cookies, windows, forms, receipts, stops>>

\* The outcome's own transaction fails and is only logged.
RecordingFails(j) ==
    /\ j.phase # "queued"
    /\ mail' = mail \ {j}
    /\ UNCHANGED <<accountVars, invites, windows, forms, receipts, stops>>

\* Slip: the address is compared with nothing once the link was issued.
CompletableAnyAddress(l) ==
    LET k == setLinks[l] IN
    /\ Usable(k) /\ Live(k.invite)
    /\ golfers[k.golfer].active
    /\ IdentityAgrees(k.golfer, k.email)
    /\ AccountOf(k.golfer, k.email) = k.user

\* peek_set_password_token
Completable(l) ==
    LET k == setLinks[l] IN
    /\ Usable(k) /\ Live(k.invite)
    /\ golfers[k.golfer].active /\ golfers[k.golfer].email = k.email
    /\ IdentityAgrees(k.golfer, k.email)
    /\ AccountOf(k.golfer, k.email) = k.user

\* complete_set_password: a new account, or a new password; then a session.
CompleteSet(l, p, b) ==
    LET k == setLinks[l]
        u == IF k.user = NoUser THEN Len(users) + 1 ELSE k.user
    IN
    /\ k.held /\ Completable(l)
    /\ RoomFor(k.user)
    /\ users' = IF k.user = NoUser THEN Append(users, NewUser(k.email, k.golfer, p, TRUE))
                ELSE [users EXCEPT ![u].password = p, ![u].verified = TRUE, ![u].version = @ + 1]
    /\ setLinks' = SetLinksRevoked([setLinks EXCEPT ![l].consumed = TRUE], k.golfer)
    /\ userLinks' = UserLinksRevoked(userLinks, u)
    /\ cookies' = WithCookie(b, CookieFor(users', u))
    /\ UNCHANGED <<bound, now, golfers, inviteVars>>

\* The process stops and is started again: what it held in memory is gone.
ProcessStops ==
    /\ stops < bound.stops
    /\ stops' = stops + 1
    /\ mail' = {}
    /\ receipts' = {}
    /\ forms' = [f \in DOMAIN forms |-> [forms[f] EXCEPT !.known = FALSE]]
    /\ UNCHANGED <<invites, windows>>

--------------------------------------------------------------------------------

Init ==
    /\ AccountsInit
    /\ invites = FirstInvites
    /\ windows = << >>
    /\ mail = {}
    /\ forms = <<>>
    /\ receipts = {}
    /\ stops = 0

AdminNext ==
    \/ OpenForm
    \/ \E f \in DOMAIN forms, label \in Labels : PostForm(f, label, InviteTTL)
    \/ \E f \in DOMAIN forms : FormShownAgain(f)
    \/ \E r \in receipts : ShowReceipt(r)
    \/ \E n \in DOMAIN invites : RevokeInvite(n) \/ RotateInvite(n)

JoinNext ==
    \/ \E n \in DOMAIN invites, e \in Emails, ip \in Addresses : Suppress(n, e, ip) \/ Admit(n, e, ip)
    \/ \E l \in DOMAIN setLinks, p \in bound.passwords, b \in Anywhere : CompleteSet(l, p, b)

MailNext ==
    \E j \in mail : \/ SendMail(j) \/ SendFails(j)
                    \/ RecordSuccess(j) \/ RecordFailure(j) \/ RecordingFails(j)

StopNext ==
    \/ ProcessStops /\ UNCHANGED accountVars
    \/ ProcessStops /\ \E i \in DOMAIN userLinks : VerifyCutShort(i)

Next ==
    \/ AccountsNext /\ UNCHANGED inviteVars
    \/ AdminNext
    \/ JoinNext
    \/ MailNext
    \/ StopNext

Spec == Init /\ [][Next]_vars

--------------------------------------------------------------------------------
(* Properties. *)

\* The tables and the process hold records of their kind, pointing at rows that exist.
TypeOK ==
    /\ AccountsTypeOK
    /\ invites \in Seq(Invite)
    /\ \A k \in DOMAIN windows : windows[k].start \in 0..now /\ windows[k].count \in 1..Limit[k[1]]
    /\ mail \subseteq Job /\ forms \in Seq(Form) /\ receipts \subseteq Receipt
    /\ \A j \in mail : j.link \in DOMAIN setLinks
    /\ \A r \in receipts : r.invite \in DOMAIN invites
    /\ \A l \in DOMAIN setLinks : setLinks[l].invite \in DOMAIN invites
    /\ stops \in 0..bound.stops

\* Revoking or rotating an invitation leaves no link of it that could be completed,
\* also none whose mail is still on its way (revoke_invite's cascade).
RevokedInvitesHaveNoLinks ==
    \A l \in DOMAIN setLinks : Open(setLinks[l]) => ~invites[setLinks[l].invite].revoked

\* Every link that could be completed is the one its holder should have: the newest of
\* its kind, for an account and address as they are now, under a live invitation.
LinksHold == OneOpenLink /\ LinksAreCurrent /\ RevokedInvitesHaveNoLinks

CountsOf(l, k) == k \in Keys(setLinks[l].email, setLinks[l].ip, setLinks[l].invite)
IssuedAt(k) == {setLinks[l].created : l \in {m \in DOMAIN setLinks : CountsOf(m, k)}}
\* When the windows began that the links issued at these times fall into, one each.
Began(issued, span) == CHOOSE S \in SUBSET issued :
    \A c \in issued : \E s \in S : \A r \in S : (r <= c /\ c < r + span) <=> r = s

\* The four windows are what the links issued so far make them: the running one of
\* every address, client, invitation and of all began with the link it should have
\* and counts every link since, so a request raised all four or none, across expiry,
\* pruning, rotation and restarts (admit_join_send).
QuotasCountLinks ==
    \A k \in UNION {Keys(setLinks[l].email, setLinks[l].ip, setLinks[l].invite) :
                        l \in DOMAIN setLinks} :
        LET issued == IssuedAt(k)
            began == Began(issued, Span[k[1]])
            start == CHOOSE s \in began : \A r \in began : r <= s
        IN  now - start < Span[k[1]] =>
                WindowAt(k) = [start |-> start, count |-> Cardinality({l \in DOMAIN setLinks :
                    CountsOf(l, k) /\ setLinks[l].created >= start})]

\* What a fixed half-open window promises at its boundary: within any time as long as
\* a window, no more than twice the limit less one (check_window).
QuotaOverAnySpan ==
    \A t \in Tiers, l \in DOMAIN setLinks :
        LET k == Key(t, setLinks[l].email, setLinks[l].ip, setLinks[l].invite)
            from == setLinks[l].created
        IN  Cardinality({m \in DOMAIN setLinks :
                CountsOf(m, k) /\ setLinks[m].created \in from..(from + Span[t] - 1)})
                <= 2 * Limit[t] - 1

\* Nothing passes the quotas that they should stop, and they stop nothing else.
QuotasHold == QuotasCountLinks /\ QuotaOverAnySpan

\* Accounts made by links respect the cap however many links were issued below it
\* and completed later; registration has its own (complete_set_password).
AccountsCapped ==
    Len(users) <= IF MaxUsers > InviteCap THEN MaxUsers ELSE InviteCap

\* A golfer and an address belong to one account each, whatever registration, links
\* and changed addresses do in between.
AccountsApart ==
    \A u, v \in DOMAIN users : u # v =>
        users[u].email # users[v].email /\ (users[u].golfer # NoOne => users[u].golfer # users[v].golfer)

\* However accounts come about, by registration or by link, they are apart, within the
\* cap, and verified only by a mail that reached their address.
AccountsHold == AccountsCapped /\ AccountsApart /\ VerifiedByItsMail

\* The counters of an invitation never tell of more mails than were issued under it
\* and have ended; a stop or a failed recording may lose some, none counts twice.
OutcomesCounted ==
    \A n \in DOMAIN invites :
        invites[n].sent + invites[n].failed + Cardinality({j \in mail : setLinks[j.link].invite = n})
            <= Cardinality({l \in DOMAIN setLinks : setLinks[l].invite = n})

\* A create form makes one invitation at most, however often it is posted, and its
\* URL is shown once (InviteFormNonceStore, InviteReceiptStore).
FormOnce ==
    /\ \A m, n \in DOMAIN invites :
          invites[m].form = invites[n].form /\ invites[m].form # 0 => m = n
    /\ \A n \in DOMAIN invites : invites[n].shown <= 1

\* Going back and posting a fresh form makes no second live invitation of the same
\* label within the span (has_recent_live_twin); a rotation may.
TwinsApart ==
    \A m, n \in DOMAIN invites :
        m < n /\ invites[n].form # 0 /\ invites[m].label = invites[n].label /\ Live(m)
        => invites[n].created - invites[m].created >= TwinSpan

\* Posting and going back, twice or at once, makes no second invitation.
InvitesApart == FormOnce /\ TwinsApart

\* A set-password link is completed at most once, and then as the newest link of its
\* golfer, mailed, under an invitation that is still live, by the roster entry it was
\* issued for: never after a revocation, a newer link, a changed address or account.
CompletedAsIssued ==
    [][\A l \in DOMAIN setLinks : setLinks'[l].consumed # setLinks[l].consumed =>
          LET k == setLinks[l] IN
          /\ ~k.consumed /\ ~k.revoked /\ k.held /\ Live(k.invite) /\ k.expires > now
          /\ \A m \in DOMAIN setLinks : setLinks[m].golfer = k.golfer => m <= l
          /\ golfers[k.golfer].email = k.email /\ golfers[k.golfer].active
          /\ IF k.user = NoUser THEN AccountsOf(k.golfer) = {} ELSE k.version = users[k.user].version]_vars

=============================================================================
