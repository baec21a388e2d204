--------------------------- MODULE ScorecardDrafts ---------------------------
(***************************************************************************)
(* Scorecard drafts: services/scorecard_drafts.py, the shared pages of     *)
(* routers/scorecard_flow.py and the startup and shutdown of app.py.  A    *)
(* draft is a row and, for a photo card, a file; one background worker     *)
(* reads photos in order.  Handlers run one at a time on the event loop    *)
(* and give way only where they await; the worker is a thread of its own,  *)
(* and the process can stop or die at any moment.                          *)
(***************************************************************************)
EXTENDS Naturals, Sequences, FiniteSets

CONSTANTS
    Players, Admins,
    Uploads,      \* photo uploads, each made once; also the photo's file name
    UploaderOf,   \* the account that makes each upload
    BusyAt,       \* a player's upload is refused when this many cards wait
    Lifetime,     \* how long a draft is kept, in ticks of the clock
    MaxDrafts,    \* bound: drafts ever created
    MaxNow,       \* bound: ticks of the clock
    Scopes,       \* bound: the uploads of a behaviour, what may fail in it, and
                  \* how often the process stops or dies
    NoPhoto, NoDraft

Users == Players \cup Admins
Ids == 1..MaxDrafts

ASSUME DraftsAssumption ==
    /\ Players \cap Admins = {}
    /\ UploaderOf \in [Uploads -> Users]
    /\ {BusyAt, Lifetime} \subseteq Nat \ {0}
    /\ {MaxDrafts, MaxNow} \subseteq Nat
    /\ \A scope \in Scopes :
          /\ scope.uploads \subseteq Uploads /\ scope.stops \in Nat
          /\ scope.faults \subseteq {"commit", "unlink", "store", "cleanup"}
    /\ NoPhoto \notin Uploads

VARIABLES
    up,       \* the process is running
    now,      \* the clock
    week,     \* whether the week takes cards, does not, or is deleted
    upload,   \* how far each upload has come
    drafts,   \* scorecard_drafts rows by id
    made,     \* cards created so far
    photos,   \* files in the scorecard directory
    wrote,    \* their modification times
    queue,    \* drafts waiting for the background worker
    job,      \* what the worker is doing
    view,     \* the draft page each user has open
    saved,    \* cards whose scores were saved
    stranded, \* drafts a failed write left as being read, with nobody reading them
    stops,
    scope     \* which of Scopes this behaviour stays within

vars == <<up, now, week, upload, drafts, made, photos, wrote, queue, job, view,
          saved, stranded, stops, scope>>

Draft == [owner : Users, status : {"extracting", "ready", "failed"},
          photo : Uploads \cup {NoPhoto}, at : 0..MaxNow, card : Ids]
Idle == [phase |-> "idle", id |-> 0, answer |-> "none"]
NoPage == [id |-> 0, card |-> 0]

Existing == {d \in Ids : drafts[d] # NoDraft}
Expired(d) == drafts[d].at + Lifetime <= now
Open == {d \in Existing : ~Expired(d)}
Extracting(d) == drafts[d] # NoDraft /\ drafts[d].status = "extracting"
Waiting == {d \in Open : Extracting(d)}
PhotoCards(user) == {d \in Open : drafts[d].owner = user /\ drafts[d].photo # NoPhoto}

MayOpen(user, d) == user \in Admins \/ drafts[d].owner = user

\* The lock one upload holds from its admission until its row is committed.
Preparing == {u \in Uploads : upload[u] \in {"preparing", "written"}}
\* Photo written to row committed to read queued: no await in between, so no
\* other handler runs.
Free == up /\ \A u \in Uploads : upload[u] \notin {"written", "stored"}

-----------------------------------------------------------------------------
(* Housekeeping: expired drafts and stray photos.                           *)

PhotosOf(D) == {drafts[d].photo : d \in D}
Young(f) == wrote[f] + Lifetime > now

\* purge_expired over the given rows: each expired row goes, with its photo or
\* without; then every photo no row refers to that is a day old.  A photo that
\* cannot be removed stays for the next sweep.
Purge(row) ==
    \E stuck \in SUBSET (IF "unlink" \in scope.faults THEN photos ELSE {}) :
        /\ drafts' = [d \in Ids |-> IF d \in Open THEN row[d] ELSE NoDraft]
        /\ photos' = {f \in photos : f \in PhotosOf(Open) \/ Young(f) \/ f \in stuck}

\* A commit fails on the way: some drafts are gone, one has lost its photo.
PurgePartly(row) ==
    /\ "commit" \in scope.faults
    /\ \E gone \in SUBSET (Existing \ Open) : \E last \in (Existing \ Open) \ gone :
          /\ drafts' = [d \in Ids |-> IF d \in gone THEN NoDraft ELSE row[d]]
          /\ photos' = photos \ PhotosOf(gone \cup {last})

\* What every page that lists or opens drafts does first; it never fails the page.
Housekeeping == Purge(drafts) \/ PurgePartly(drafts)

-----------------------------------------------------------------------------
(* Starting a card.                                                         *)

\* The week is checked before the photo's bytes are awaited.
Arrive(u) ==
    /\ Free /\ week = "open"
    /\ upload[u] = "new"
    /\ upload' = [upload EXCEPT ![u] = "waiting"]
    /\ UNCHANGED <<up, now, week, drafts, made, photos, wrote, queue, job, view, saved, stranded, stops, scope>>

\* Slip: one card too many is let in.
AdmissibleLate(user) == PhotoCards(user) = {} /\ Cardinality(Waiting) <= BusyAt

Admissible(user) == PhotoCards(user) = {} /\ Cardinality(Waiting) < BusyAt

\* Slip: the lock is only taken for the decode, after the limits were checked.
AdmitUnlocked(u) ==
    /\ Free /\ upload[u] = "waiting"
    /\ IF UploaderOf[u] \in Admins
       THEN /\ upload' = [upload EXCEPT ![u] = "preparing"]
            /\ UNCHANGED <<drafts, photos>>
       ELSE /\ Housekeeping
            /\ \E within \in BOOLEAN :
                  upload' = [upload EXCEPT ![u] =
                      IF Admissible(UploaderOf[u]) /\ within THEN "preparing" ELSE "done"]
    /\ UNCHANGED <<up, now, week, made, wrote, queue, job, view, saved, stranded, stops, scope>>

\* Admission under the prepare lock: an admin's upload always, a player's when
\* it is within the hourly limit, the only open photo card and the queue short.
Admit(u) ==
    /\ Free /\ upload[u] = "waiting" /\ Preparing = {}
    /\ IF UploaderOf[u] \in Admins
       THEN /\ upload' = [upload EXCEPT ![u] = "preparing"]
            /\ UNCHANGED <<drafts, photos>>
       ELSE /\ Housekeeping
            /\ \E within \in BOOLEAN :
                  upload' = [upload EXCEPT ![u] =
                      IF Admissible(UploaderOf[u]) /\ within THEN "preparing" ELSE "done"]
    /\ UNCHANGED <<up, now, week, made, wrote, queue, job, view, saved, stranded, stops, scope>>

\* The image is refused, the week no longer takes cards, or the client left.
Refuse(u) ==
    /\ Free /\ upload[u] \in {"waiting", "preparing"}
    /\ upload' = [upload EXCEPT ![u] = "done"]
    /\ UNCHANGED <<up, now, week, drafts, made, photos, wrote, queue, job, view, saved, stranded, stops, scope>>

\* The decode is over: the week is checked again and the photo written.
WritePhoto(u) ==
    /\ Free /\ week = "open" /\ made < MaxDrafts
    /\ upload[u] = "preparing"
    /\ upload' = [upload EXCEPT ![u] = "written"]
    /\ photos' = photos \cup {u}
    /\ wrote' = [wrote EXCEPT ![u] = now]
    /\ UNCHANGED <<up, now, week, drafts, made, queue, job, view, saved, stranded, stops, scope>>

\* Slip: the id of a deleted draft is given again.
NewIdReused == CHOOSE d \in Ids \ Existing : \A e \in Ids \ Existing : d <= e

\* AUTOINCREMENT: never the id of an earlier draft.
NewId == made + 1

NewDraft(user, status, photo) ==
    /\ made < MaxDrafts
    /\ made' = made + 1
    /\ drafts' = [drafts EXCEPT ![NewId] =
          [owner |-> user, status |-> status, photo |-> photo, at |-> now, card |-> made + 1]]

StoreDraft(u) ==
    /\ up /\ upload[u] = "written"
    /\ NewDraft(UploaderOf[u], "extracting", u)
    /\ upload' = [upload EXCEPT ![u] = "stored"]
    /\ UNCHANGED <<up, now, week, photos, wrote, queue, job, view, saved, stranded, stops, scope>>

\* The row cannot be saved: the photo is removed again.
StoreDraftFails(u) ==
    /\ up /\ upload[u] = "written" /\ "commit" \in scope.faults
    /\ photos' = photos \ {u}
    /\ upload' = [upload EXCEPT ![u] = "done"]
    /\ UNCHANGED <<up, now, week, drafts, made, wrote, queue, job, view, saved, stranded, stops, scope>>

StartExtraction(u) ==
    /\ up /\ upload[u] = "stored"
    /\ \E d \in Existing : drafts[d].photo = u /\ queue' = Append(queue, d)
    /\ upload' = [upload EXCEPT ![u] = "done"]
    /\ UNCHANGED <<up, now, week, drafts, made, photos, wrote, job, view, saved, stranded, stops, scope>>

CreateManual(user) ==
    /\ Free /\ week = "open"
    /\ NewDraft(user, "ready", NoPhoto)
    /\ UNCHANGED <<up, now, week, upload, photos, wrote, queue, job, view, saved, stranded, stops, scope>>

-----------------------------------------------------------------------------
(* The background worker.                                                   *)

\* Slip: a read whose photo is gone ends without an answer.
TakeJobUnanswered ==
    /\ up /\ queue # <<>> /\ job = Idle
    /\ LET d == Head(queue) IN
          job' = IF ~Extracting(d) THEN Idle
                 ELSE IF drafts[d].photo \in photos
                      THEN [phase |-> "reading", id |-> d, answer |-> "none"]
                      ELSE [phase |-> "answered", id |-> d, answer |-> "none"]
    /\ queue' = Tail(queue)
    /\ UNCHANGED <<up, now, week, upload, drafts, made, photos, wrote, view, saved, stranded, stops, scope>>

\* Take the next draft, unless it was discarded, purged or read meanwhile; one
\* whose photo is gone cannot be read.
TakeJob ==
    /\ up /\ queue # <<>> /\ job = Idle
    /\ LET d == Head(queue) IN
          job' = IF ~Extracting(d) THEN Idle
                 ELSE IF drafts[d].photo \in photos
                      THEN [phase |-> "reading", id |-> d, answer |-> "none"]
                      ELSE [phase |-> "answered", id |-> d, answer |-> "failed"]
    /\ queue' = Tail(queue)
    /\ UNCHANGED <<up, now, week, upload, drafts, made, photos, wrote, view, saved, stranded, stops, scope>>

\* The provider answers, or fails within its own time limit.
ReadPhoto(answer) ==
    /\ job.phase = "reading"
    /\ job' = [job EXCEPT !.phase = "answered", !.answer = answer]
    /\ UNCHANGED <<up, now, week, upload, drafts, made, photos, wrote, queue, view, saved, stranded, stops, scope>>

\* The result is stored unless the draft was discarded or purged meanwhile.
StoreResult ==
    /\ job.phase = "answered"
    /\ drafts' = [drafts EXCEPT ![job.id] =
          IF Extracting(job.id) THEN [@ EXCEPT !.status = job.answer] ELSE @]
    /\ job' = Idle
    /\ UNCHANGED <<up, now, week, upload, made, photos, wrote, queue, view, saved, stranded, stops, scope>>

\* The single writer stays busy for all three attempts.
StoreResultFails ==
    /\ job.phase = "answered" /\ "store" \in scope.faults
    /\ job' = Idle
    /\ stranded' = stranded \cup ({job.id} \cap Existing)
    /\ UNCHANGED <<up, now, week, upload, drafts, made, photos, wrote, queue, view, saved, stops, scope>>

-----------------------------------------------------------------------------
(* The draft pages.                                                         *)

\* A page that lists or opens drafts cleans up first; then a card, or none.
OpenPage(user) ==
    /\ Free /\ Housekeeping
    /\ \E d \in Open : MayOpen(user, d) /\
          view' = [view EXCEPT ![user] = [id |-> d, card |-> drafts[d].card]]
    /\ UNCHANGED <<up, now, week, upload, made, wrote, queue, job, saved, stranded, stops, scope>>

ListDrafts ==
    /\ Free /\ Housekeeping
    /\ UNCHANGED <<up, now, week, upload, made, wrote, queue, job, view, saved, stranded, stops, scope>>

Submittable(user, d) ==
    d \in Open /\ MayOpen(user, d) /\ ~Extracting(d) /\ week = "open"

\* Slip: the draft is not looked up again after the scores went in, and stays.
SubmitKeeping(user, d) ==
    /\ Free /\ Submittable(user, d)
    /\ saved' = saved \cup {drafts[d].card}
    /\ photos' = photos \ {drafts[d].photo}
    /\ UNCHANGED <<up, now, week, upload, drafts, made, wrote, queue, job, view, stranded, stops, scope>>

\* The scores are saved and the draft and its photo deleted in one transaction;
\* d is the id of the page that posts.
Submit(user, d) ==
    /\ Free /\ Submittable(user, d)
    /\ saved' = saved \cup {drafts[d].card}
    /\ drafts' = [drafts EXCEPT ![d] = NoDraft]
    /\ photos' = photos \ {drafts[d].photo}
    /\ UNCHANGED <<up, now, week, upload, made, wrote, queue, job, view, stranded, stops, scope>>

\* The commit fails after the photo was removed: nothing is saved, the draft
\* stays without its photo.
SubmitFails(user, d) ==
    /\ Free /\ Submittable(user, d) /\ "commit" \in scope.faults
    /\ photos' = photos \ {drafts[d].photo}
    /\ UNCHANGED <<up, now, week, upload, drafts, made, wrote, queue, job, view, saved, stranded, stops, scope>>

\* A card can be discarded while it is read, and after it expired.
Discard(user, d) ==
    /\ Free /\ d \in Existing /\ MayOpen(user, d)
    /\ photos' = photos \ {drafts[d].photo}
    /\ \/ drafts' = [drafts EXCEPT ![d] = NoDraft]
       \/ "commit" \in scope.faults /\ UNCHANGED drafts
    /\ UNCHANGED <<up, now, week, upload, made, wrote, queue, job, view, saved, stranded, stops, scope>>

-----------------------------------------------------------------------------
(* The week, the clock and the process.                                     *)

\* The week is played on another date, edited, or opens again.
OpenOrCloseWeek ==
    /\ Free /\ week # "deleted"
    /\ week' = IF week = "open" THEN "closed" ELSE "open"
    /\ UNCHANGED <<up, now, upload, drafts, made, photos, wrote, queue, job, view, saved, stranded, stops, scope>>

\* Deleting a week that lost its matches takes the rows of its drafts along,
\* and leaves their photos.
DeleteWeek ==
    /\ Free /\ week = "closed"
    /\ week' = "deleted"
    /\ drafts' = [d \in Ids |-> NoDraft]
    /\ UNCHANGED <<up, now, upload, made, photos, wrote, queue, job, view, saved, stranded, stops, scope>>

Tick ==
    /\ Free /\ now < MaxNow
    /\ now' = now + 1
    /\ UNCHANGED <<up, week, upload, drafts, made, photos, wrote, queue, job, view, saved, stranded, stops, scope>>

\* Shutdown: requests end, queued reads are cancelled, the one in flight goes on.
Stop ==
    /\ Free /\ stops < scope.stops
    /\ \A u \in Uploads : upload[u] \in {"new", "done"}
    /\ up' = FALSE /\ queue' = <<>> /\ stops' = stops + 1
    /\ UNCHANGED <<now, week, upload, drafts, made, photos, wrote, job, view, saved, stranded, scope>>

\* The process dies wherever it is.
Kill ==
    /\ up \/ job # Idle
    /\ stops < scope.stops
    /\ up' = FALSE /\ queue' = <<>> /\ job' = Idle /\ stops' = stops + 1
    /\ upload' = [u \in Uploads |-> IF upload[u] = "new" THEN "new" ELSE "done"]
    /\ UNCHANGED <<now, week, drafts, made, photos, wrote, view, saved, stranded, scope>>

\* Slip: every draft is failed, the ones being reviewed as well.
InterruptedAll(d) == IF d \in Existing
                     THEN [drafts[d] EXCEPT !.status = "failed"] ELSE NoDraft

\* Slip: startup leaves interrupted reads as they are.
InterruptedNone(d) == drafts[d]

\* A draft still being read when the process stopped is failed.
Interrupted(d) == IF Extracting(d)
                  THEN [drafts[d] EXCEPT !.status = "failed"] ELSE drafts[d]

\* Startup, once the old process is gone: fail interrupted reads, then purge.
\* A failing cleanup is logged and never stops the startup.
Startup ==
    /\ ~up /\ job = Idle
    /\ up' = TRUE
    /\ LET marked == [d \in Ids |-> Interrupted(d)] IN
          \/ (Purge(marked) \/ PurgePartly(marked)) /\ stranded' = {}
          \/ /\ "cleanup" \in scope.faults
             /\ stranded' = {d \in Ids : Extracting(d)}
             /\ UNCHANGED <<drafts, photos>>
    /\ UNCHANGED <<now, week, upload, made, wrote, queue, job, view, saved, stops, scope>>

-----------------------------------------------------------------------------
Init ==
    /\ up = TRUE /\ now = 0 /\ week = "open"
    /\ upload = [u \in Uploads |-> "new"]
    /\ drafts = [d \in Ids |-> NoDraft] /\ made = 0
    /\ photos = {} /\ wrote = [u \in Uploads |-> 0]
    /\ queue = <<>> /\ job = Idle
    /\ view = [user \in Users |-> NoPage]
    /\ saved = {} /\ stranded = {} /\ stops = 0 /\ scope \in Scopes

\* Steps of a handler once it has the prepare lock; no await keeps them apart
\* after WritePhoto.
Storing(u) == StoreDraft(u) \/ StoreDraftFails(u) \/ StartExtraction(u)

Worker ==
    \/ TakeJob
    \/ \E answer \in {"ready", "failed"} : ReadPhoto(answer)
    \/ StoreResult
    \/ StoreResultFails

UploadNext ==
    \E u \in scope.uploads : Arrive(u) \/ Admit(u) \/ Refuse(u) \/ WritePhoto(u) \/ Storing(u)

PageNext ==
    \/ ListDrafts
    \/ \E user \in {UploaderOf[u] : u \in scope.uploads} :
        \/ CreateManual(user)
        \/ OpenPage(user)
        \/ LET d == view[user].id IN
              d # 0 /\ (Submit(user, d) \/ SubmitFails(user, d) \/ Discard(user, d))

ProcessNext == OpenOrCloseWeek \/ DeleteWeek \/ Tick \/ Stop \/ Kill \/ Startup

Next == UploadNext \/ Worker \/ PageNext \/ ProcessNext

\* The handlers that hold the event loop and the worker thread run on; the
\* operator's container starts again after it stopped.
Spec == Init /\ [][Next]_vars
        /\ WF_vars(\E u \in Uploads : Storing(u)) /\ WF_vars(Worker) /\ WF_vars(Startup)

-----------------------------------------------------------------------------
(* Properties.                                                              *)

TypeOK ==
    /\ up \in BOOLEAN /\ now \in 0..MaxNow
    /\ week \in {"open", "closed", "deleted"}
    /\ upload \in [Uploads -> {"new", "waiting", "preparing", "written", "stored", "done"}]
    /\ drafts \in [Ids -> Draft \cup {NoDraft}] /\ made \in 0..MaxDrafts
    /\ photos \subseteq Uploads /\ wrote \in [Uploads -> 0..MaxNow]
    /\ queue \in Seq(Ids)
    /\ job \in [phase : {"idle", "reading", "answered"}, id : 0..MaxDrafts,
                answer : {"none", "ready", "failed"}]
    /\ view \in [Users -> [id : 0..MaxDrafts, card : 0..MaxDrafts]]
    /\ saved \subseteq Ids /\ stranded \subseteq Ids /\ stops \in 0..scope.stops

\* A player never has two photo cards open, however uploads overlap, and no
\* upload of a player makes the worker's queue longer than BUSY_AT: the limits
\* of _start's admit are checked and the draft stored under one lock.
LimitsHold ==
    [][/\ \A p \in Players : Cardinality(PhotoCards(p)') <= 1
       /\ \A d \in Existing' \ Existing :
             drafts'[d].owner \in Players /\ drafts'[d].status = "extracting"
                 => Cardinality(Waiting') <= BusyAt]_vars

\* A page saves the card it showed, never another that came to have its id; and
\* a card whose scores were saved is gone for good: a second post of the same
\* page, or of the same card from another page, saves nothing.
SavedOnceAsShown ==
    [][/\ \A c \in saved' \ saved : \E user \in Users : view[user].card = c
       /\ \A d \in Existing' : drafts'[d].card \notin saved']_vars

\* A reading under review, or a failure shown, is never changed by a late
\* answer or by a restart; only the card's own end removes it.
ReviewSettled ==
    [][\A d \in Existing : ~Extracting(d) => drafts'[d] \in {drafts[d], NoDraft}]_vars

\* Every card that waits to be read stops waiting: it is read, fails, is marked
\* interrupted by the next startup, or goes; only one stranded by a failed write
\* may say so until somebody opens a page after it expired.
ReadsEnd == \A d \in Ids : Extracting(d) ~> (~Extracting(d) \/ d \in stranded)
=============================================================================
