------------------------ MODULE ScorecardDrafts_proofs ------------------------
(***************************************************************************)
(* What is proved of ScorecardDrafts for any accounts, uploads, limits,    *)
(* bounds and faults: a player's one open photo card and the short queue,  *)
(* cards saved once and as shown, and reviewed cards that stay, under      *)
(* every interleaving of pages, uploads, worker, clock and process.  That  *)
(* reads end (ReadsEnd) rests on fairness and is left to TLC.              *)
(***************************************************************************)
EXTENDS ScorecardDrafts, TLAPS, FiniteSetTheorems, SequenceTheorems

-----------------------------------------------------------------------------
(* The invariant.                                                           *)

\* A card keeps the id it was given, in its row, in the pages that show it, and
\* among the cards whose scores were saved; those have no row any more.
CardsInv ==
    /\ \A d \in Existing : d <= made /\ drafts[d].card = d
    /\ \A user \in Users : view[user].card = view[user].id
    /\ \A c \in saved : c <= made /\ c \notin Existing

\* The worker holds a draft while it reads, and an answer once there is one.
JobInv ==
    /\ job.phase = "idle" <=> job = Idle
    /\ job.phase # "idle" => job.id \in Ids
    /\ job.phase = "answered" => job.answer \in {"ready", "failed"}

\* One upload holds the prepare lock; while it does, what admitted it stays so.
LockInv ==
    /\ \A u, v \in Preparing : u = v
    /\ \A u \in Preparing : UploaderOf[u] \in Players =>
          PhotoCards(UploaderOf[u]) = {} /\ Cardinality(Waiting) < BusyAt

OneCard == \A p \in Players : \A d, e \in PhotoCards(p) : d = e

DInv == TypeOK /\ scope \in Scopes /\ CardsInv /\ JobInv /\ LockInv /\ OneCard

-----------------------------------------------------------------------------
(* Drafts that only go or stop being read.                                  *)

Settles(row) ==
    /\ row \in [Ids -> Draft \cup {NoDraft}]
    /\ \A d \in Ids :
          \/ row[d] = NoDraft
          \/ row[d] = drafts[d]
          \/ /\ drafts[d] # NoDraft /\ drafts[d].status = "extracting"
             /\ row[d].owner = drafts[d].owner /\ row[d].photo = drafts[d].photo
             /\ row[d].at = drafts[d].at /\ row[d].card = drafts[d].card
             /\ row[d].status # "extracting"

LEMMA IdsFinite == IsFiniteSet(Ids) /\ Ids \subseteq Nat \ {0}
<1>1. MaxDrafts \in Nat
  BY DraftsAssumption DEF DraftsAssumption
<1> QED  BY <1>1, FS_Interval DEF Ids

LEMMA SmallerSets ==
    ASSUME NEW S \in SUBSET Ids, NEW T \in SUBSET S
    PROVE  Cardinality(T) \in Nat /\ Cardinality(S) \in Nat /\ Cardinality(T) <= Cardinality(S)
BY IdsFinite, FS_Subset, FS_CardinalityType

\* Fewer cards are open, and fewer wait.
LEMMA SettledNarrow ==
    ASSUME TypeOK, Settles(drafts'), now' \in 0..MaxNow, now' >= now
    PROVE  /\ Existing' \subseteq Existing /\ Waiting' \subseteq Waiting
           /\ \A p : PhotoCards(p)' \subseteq PhotoCards(p)
           /\ \A d \in Existing' : drafts'[d].card = drafts[d].card
<1>1. MaxNow \in Nat /\ Lifetime \in Nat /\ now \in 0..MaxNow
  BY DraftsAssumption DEF DraftsAssumption, TypeOK
<1>2. \A d \in Existing : drafts[d].at \in 0..MaxNow
  BY DEF TypeOK, Existing, Draft
<1>3. ASSUME NEW d \in Existing'
      PROVE  /\ d \in Existing /\ drafts'[d].owner = drafts[d].owner
             /\ drafts'[d].photo = drafts[d].photo /\ drafts'[d].at = drafts[d].at
             /\ drafts'[d].card = drafts[d].card
             /\ drafts'[d].status = "extracting" => drafts[d].status = "extracting"
  BY <1>3 DEF Existing, Settles
<1>4. ASSUME NEW d \in Open' PROVE d \in Open
  <2>1. d \in Existing' /\ ~(drafts'[d].at + Lifetime <= now')
    BY DEF Open, Expired
  <2>2. d \in Existing /\ drafts'[d].at = drafts[d].at
    BY <2>1, <1>3
  <2>3. ~(drafts[d].at + Lifetime <= now)
    BY <2>1, <2>2, <1>1, <1>2
  <2> QED  BY <2>2, <2>3 DEF Open, Expired
<1>5. Waiting' \subseteq Waiting
  BY <1>3, <1>4 DEF Waiting, Extracting, Open, Existing
<1>6. \A p : PhotoCards(p)' \subseteq PhotoCards(p)
  BY <1>3, <1>4 DEF PhotoCards, Open
<1> QED  BY <1>3, <1>5, <1>6

LEMMA NothingSettles ==
    ASSUME TypeOK, drafts' = drafts
    PROVE  Settles(drafts')
BY DEF Settles, TypeOK

\* What such a step keeps, whatever becomes of uploads that leave the lock.
LEMMA SettledKeeps ==
    ASSUME DInv, Settles(drafts'), now' \in 0..MaxNow, now' >= now,
           made' = made, saved' = saved, Preparing' \subseteq Preparing
    PROVE  LockInv' /\ OneCard'
           /\ (\A d \in Existing' : d <= made' /\ drafts'[d].card = d)
           /\ (\A c \in saved' : c <= made' /\ c \notin Existing')
<1>1. /\ Existing' \subseteq Existing /\ Waiting' \subseteq Waiting
      /\ \A p : PhotoCards(p)' \subseteq PhotoCards(p)
      /\ \A d \in Existing' : drafts'[d].card = drafts[d].card
  BY SettledNarrow DEF DInv
<1>2. BusyAt \in Nat
  BY DraftsAssumption DEF DraftsAssumption
<1>3. Waiting \in SUBSET Ids
  BY DEF Waiting, Open, Existing
<1>4. /\ Cardinality(Waiting') \in Nat /\ Cardinality(Waiting) \in Nat
      /\ Cardinality(Waiting') <= Cardinality(Waiting)
  BY <1>1, <1>3, SmallerSets
<1>5. LockInv'
  <2> SUFFICES ASSUME NEW u \in Preparing', NEW v \in Preparing'
      PROVE  /\ u = v
             /\ UploaderOf[u] \in Players =>
                   PhotoCards(UploaderOf[u])' = {} /\ Cardinality(Waiting') < BusyAt
    BY DEF LockInv
  <2>1. u = v /\ (UploaderOf[u] \in Players =>
                     PhotoCards(UploaderOf[u]) = {} /\ Cardinality(Waiting) < BusyAt)
    BY DEF DInv, LockInv
  <2> QED  BY <2>1, <1>1, <1>2, <1>4
<1>6. OneCard'
  BY <1>1 DEF DInv, OneCard
<1> QED  BY <1>1, <1>5, <1>6 DEF DInv, CardsInv


\* purge_expired only removes rows, or what startup has marked before.
LEMMA PurgeSettles ==
    ASSUME TypeOK, NEW row, Settles(row), Purge(row) \/ PurgePartly(row)
    PROVE  Settles(drafts') /\ photos' \subseteq photos
<1>1. photos' \subseteq photos
  BY DEF Purge, PurgePartly
<1>2. CASE Purge(row)
  <2>1. drafts' = [d \in Ids |-> IF d \in Open THEN row[d] ELSE NoDraft]
    BY <1>2 DEF Purge
  <2> QED  BY <1>1, <2>1 DEF Settles
<1>3. CASE PurgePartly(row)
  <2>1. PICK gone \in SUBSET (Existing \ Open) :
           drafts' = [d \in Ids |-> IF d \in gone THEN NoDraft ELSE row[d]]
    BY <1>3 DEF PurgePartly
  <2> QED  BY <1>1, <2>1 DEF Settles
<1> QED  BY <1>2, <1>3

LEMMA HousekeepingSettles ==
    ASSUME TypeOK, Housekeeping
    PROVE  Settles(drafts') /\ photos' \subseteq photos
<1>1. Settles(drafts)
  BY DEF Settles, TypeOK
<1> QED  BY <1>1, PurgeSettles DEF Housekeeping

LEMMA InterruptedSettles ==
    ASSUME TypeOK
    PROVE  Settles([d \in Ids |-> Interrupted(d)])
<1> SUFFICES ASSUME NEW d \in Ids
    PROVE  /\ Interrupted(d) \in Draft \cup {NoDraft}
           /\ \/ Interrupted(d) = drafts[d]
              \/ /\ drafts[d] # NoDraft /\ drafts[d].status = "extracting"
                 /\ Interrupted(d).owner = drafts[d].owner /\ Interrupted(d).photo = drafts[d].photo
                 /\ Interrupted(d).at = drafts[d].at /\ Interrupted(d).card = drafts[d].card
                 /\ Interrupted(d).status # "extracting"
  BY DEF Settles
<1>1. drafts[d] \in Draft \cup {NoDraft}
  BY DEF TypeOK
<1>2. CASE Extracting(d)
  <2>1. Interrupted(d) = [drafts[d] EXCEPT !.status = "failed"] /\ drafts[d] \in Draft
    BY <1>1, <1>2 DEF Interrupted, Extracting
  <2> QED  BY <1>2, <2>1 DEF Draft, Extracting
<1>3. CASE ~Extracting(d)
  BY <1>1, <1>3 DEF Interrupted
<1> QED  BY <1>2, <1>3

\* One row goes, and nothing else.
LEMMA OneGoes ==
    ASSUME TypeOK, NEW d \in Ids, drafts' = [drafts EXCEPT ![d] = NoDraft]
    PROVE  Settles(drafts') /\ d \notin Existing'
BY DEF Settles, TypeOK, Existing

-----------------------------------------------------------------------------
(* What every step promises.                                                *)

\* The bodies of LimitsHold, SavedOnceAsShown and ReviewSettled.
StepLimits ==
    /\ \A p \in Players : Cardinality(PhotoCards(p)') <= 1
    /\ \A d \in Existing' \ Existing :
          drafts'[d].owner \in Players /\ drafts'[d].status = "extracting"
              => Cardinality(Waiting') <= BusyAt
StepSaves ==
    /\ \A c \in saved' \ saved : \E user \in Users : view[user].card = c
    /\ \A d \in Existing' : drafts'[d].card \notin saved'
StepSettles == \A d \in Existing : ~Extracting(d) => drafts'[d] \in {drafts[d], NoDraft}
StepHolds == StepLimits /\ StepSaves /\ StepSettles

LEMMA AtMostOne ==
    ASSUME NEW S \in SUBSET Ids, \A d, e \in S : d = e
    PROVE  Cardinality(S) <= 1
<1>1. CASE S = {}
  BY <1>1, FS_EmptySet
<1>2. CASE S # {}
  <2>1. PICK d : S = {d}
    BY <1>2
  <2> QED  BY <2>1, FS_Singleton
<1> QED  BY <1>1, <1>2

LEMMA PlayersLimits ==
    ASSUME OneCard'
    PROVE  \A p \in Players : Cardinality(PhotoCards(p)') <= 1
<1> SUFFICES ASSUME NEW p \in Players PROVE Cardinality(PhotoCards(p)') <= 1
  OBVIOUS
<1>1. PhotoCards(p)' \in SUBSET Ids
  BY DEF PhotoCards, Open, Existing
<1>2. \A d, e \in PhotoCards(p)' : d = e
  BY DEF OneCard
<1> QED  BY <1>1, <1>2, AtMostOne

LEMMA SettledPromises ==
    ASSUME DInv, CardsInv', OneCard', Settles(drafts'), now' \in 0..MaxNow, now' >= now,
           \A c \in saved' \ saved : \E user \in Users : view[user].card = c
    PROVE  StepHolds
<1>1. Existing' \subseteq Existing
  BY SettledNarrow DEF DInv
<1>2. StepLimits
  BY <1>1, PlayersLimits DEF StepLimits
<1>3. StepSaves
  BY DEF StepSaves, CardsInv
<1>4. StepSettles
  BY DEF StepSettles, Settles, Existing, Extracting
<1> QED  BY <1>2, <1>3, <1>4 DEF StepHolds

\* A step that settles drafts, opens no page of another card and saves none.
LEMMA SettledStep ==
    ASSUME DInv, TypeOK', Settles(drafts'), now' >= now,
           made' = made, saved' = saved, Preparing' \subseteq Preparing, JobInv',
           \A user \in Users : view'[user].card = view'[user].id, scope' = scope
    PROVE  DInv' /\ StepHolds
<1>1. now' \in 0..MaxNow
  BY DEF TypeOK
<1>2. LockInv' /\ OneCard'
      /\ (\A d \in Existing' : d <= made' /\ drafts'[d].card = d)
      /\ (\A c \in saved' : c <= made' /\ c \notin Existing')
  BY <1>1, SettledKeeps
<1>3. CardsInv'
  BY <1>2 DEF CardsInv
<1>4. StepHolds
  BY <1>1, <1>2, <1>3, SettledPromises
<1> QED  BY <1>2, <1>3, <1>4 DEF DInv


-----------------------------------------------------------------------------
(* Uploads.                                                                 *)

Progress == {"new", "waiting", "preparing", "written", "stored", "done"}

LEMMA UploadMoved ==
    ASSUME TypeOK, NEW u \in Uploads, NEW s \in Progress, upload' = [upload EXCEPT ![u] = s]
    PROVE  /\ upload' \in [Uploads -> Progress]
           /\ upload'[u] = s
           /\ Preparing' \subseteq Preparing \cup {u}
           /\ s \notin {"preparing", "written"} => Preparing' \subseteq Preparing \ {u}
BY DEF TypeOK, Progress, Preparing

LEMMA ScopeFits ==
    ASSUME DInv
    PROVE  /\ scope.uploads \subseteq Uploads /\ scope.stops \in Nat
           /\ \A u \in scope.uploads : UploaderOf[u] \in Users
BY DraftsAssumption DEF DInv, DraftsAssumption

LEMMA ArriveKeeps ==
    ASSUME DInv, NEW u \in Uploads, Arrive(u) \/ Refuse(u)
    PROVE  DInv' /\ StepHolds
<1>1. /\ upload' \in [Uploads -> Progress] /\ Preparing' \subseteq Preparing
      /\ drafts' = drafts /\ now' = now /\ made' = made /\ job' = job /\ view' = view
      /\ UNCHANGED <<up, week, photos, wrote, queue, saved, stranded, stops, scope>>
  BY UploadMoved DEF Arrive, Refuse, Progress, DInv
<1>2. TypeOK' /\ now' >= now
  BY <1>1 DEF DInv, TypeOK, Progress
<1>3. JobInv' /\ \A user \in Users : view'[user].card = view'[user].id
  BY <1>1 DEF DInv, JobInv, CardsInv
<1> QED  BY <1>1, <1>2, <1>3, NothingSettles, SettledStep DEF DInv

\* What admitted an upload holds until its row is stored: nothing else adds a card
\* while the lock is held.
LEMMA AdmitKeeps ==
    ASSUME DInv, NEW u \in Uploads, Admit(u)
    PROVE  DInv' /\ StepHolds
<1>1. /\ Preparing = {} /\ UNCHANGED <<up, now, week, made, wrote, queue, job, view>>
      /\ UNCHANGED <<saved, stranded, stops, scope>>
  BY DEF Admit
<1>2. Settles(drafts') /\ photos' \subseteq photos
  BY HousekeepingSettles, NothingSettles DEF Admit, DInv
<1>3. PICK s \in {"preparing", "done"} :
         /\ upload' = [upload EXCEPT ![u] = s]
         /\ s = "preparing" /\ UploaderOf[u] \notin Admins => Admissible(UploaderOf[u])
  BY DEF Admit
<1>4. /\ upload' \in [Uploads -> Progress] /\ Preparing' \subseteq {u} /\ upload'[u] = s
  BY <1>1, <1>3, UploadMoved DEF Progress, DInv
<1>5. TypeOK' /\ now' >= now /\ now' \in 0..MaxNow
  BY <1>1, <1>2, <1>4 DEF DInv, TypeOK, Progress, Settles
<1>6. JobInv' /\ \A user \in Users : view'[user].card = view'[user].id
  BY <1>1 DEF DInv, JobInv, CardsInv
<1>7. /\ Existing' \subseteq Existing /\ Waiting' \subseteq Waiting
      /\ \A p : PhotoCards(p)' \subseteq PhotoCards(p)
      /\ \A d \in Existing' : drafts'[d].card = drafts[d].card
  BY <1>2, <1>5, SettledNarrow DEF DInv
<1>8. OneCard' /\ CardsInv'
  BY <1>1, <1>6, <1>7 DEF DInv, OneCard, CardsInv
<1>9. LockInv'
  <2> SUFFICES ASSUME u \in Preparing', UploaderOf[u] \in Players
      PROVE  PhotoCards(UploaderOf[u])' = {} /\ Cardinality(Waiting') < BusyAt
    BY <1>4 DEF LockInv
  <2>1. s = "preparing"
    BY <1>3, <1>4 DEF Preparing
  <2>2. UploaderOf[u] \notin Admins
    BY DraftsAssumption DEF DraftsAssumption
  <2>3. PhotoCards(UploaderOf[u]) = {} /\ Cardinality(Waiting) < BusyAt
    BY <2>1, <2>2, <1>3 DEF Admissible
  <2>4. Waiting \in SUBSET Ids /\ BusyAt \in Nat
    BY DraftsAssumption DEF Waiting, Open, Existing, DraftsAssumption
  <2>5. Cardinality(Waiting') \in Nat /\ Cardinality(Waiting) \in Nat
        /\ Cardinality(Waiting') <= Cardinality(Waiting)
    BY <2>4, <1>7, SmallerSets
  <2> QED  BY <2>3, <2>4, <2>5, <1>7
<1>10. StepHolds
  BY <1>1, <1>2, <1>5, <1>8, SettledPromises
<1> QED  BY <1>1, <1>5, <1>6, <1>8, <1>9, <1>10 DEF DInv

LEMMA WritePhotoKeeps ==
    ASSUME DInv, NEW u \in Uploads, WritePhoto(u)
    PROVE  DInv' /\ StepHolds
<1>1. /\ upload' = [upload EXCEPT ![u] = "written"] /\ upload[u] = "preparing"
      /\ photos' = photos \cup {u} /\ wrote' = [wrote EXCEPT ![u] = now]
      /\ UNCHANGED <<up, now, week, drafts, made, queue, job, view>>
      /\ UNCHANGED <<saved, stranded, stops, scope>>
  BY DEF WritePhoto
<1>2. upload' \in [Uploads -> Progress] /\ Preparing' \subseteq Preparing
  <2>1. upload' \in [Uploads -> Progress] /\ Preparing' \subseteq Preparing \cup {u}
    BY <1>1, UploadMoved DEF Progress, DInv
  <2>2. u \in Preparing
    BY <1>1 DEF Preparing
  <2> QED  BY <2>1, <2>2
<1>3. TypeOK' /\ now' >= now
  <2>1. wrote' \in [Uploads -> 0..MaxNow] /\ now' >= now
    BY <1>1 DEF DInv, TypeOK
  <2> QED  BY <1>1, <1>2, <2>1 DEF DInv, TypeOK, Progress
<1>4. JobInv' /\ \A user \in Users : view'[user].card = view'[user].id
  BY <1>1 DEF DInv, JobInv, CardsInv
<1>5. Settles(drafts')
  BY <1>1, NothingSettles DEF DInv
<1> QED  BY <1>1, <1>2, <1>3, <1>4, <1>5, SettledStep

LEMMA StoreDraftFailsKeeps ==
    ASSUME DInv, NEW u \in Uploads, StoreDraftFails(u)
    PROVE  DInv' /\ StepHolds
<1>1. /\ upload' = [upload EXCEPT ![u] = "done"] /\ photos' = photos \ {u}
      /\ UNCHANGED <<up, now, week, drafts, made, wrote, queue, job, view>>
      /\ UNCHANGED <<saved, stranded, stops, scope>>
  BY DEF StoreDraftFails
<1>2. upload' \in [Uploads -> Progress] /\ Preparing' \subseteq Preparing
  BY <1>1, UploadMoved DEF Progress, DInv
<1>3. TypeOK' /\ now' >= now
  BY <1>1, <1>2 DEF DInv, TypeOK, Progress
<1>4. JobInv' /\ \A user \in Users : view'[user].card = view'[user].id
  BY <1>1 DEF DInv, JobInv, CardsInv
<1>5. Settles(drafts')
  BY <1>1, NothingSettles DEF DInv
<1> QED  BY <1>1, <1>2, <1>3, <1>4, <1>5, SettledStep

LEMMA StartExtractionKeeps ==
    ASSUME DInv, NEW u \in Uploads, StartExtraction(u)
    PROVE  DInv' /\ StepHolds
<1>1. PICK d \in Existing : queue' = Append(queue, d)
  BY DEF StartExtraction
<1>2. /\ upload' = [upload EXCEPT ![u] = "done"]
      /\ UNCHANGED <<up, now, week, drafts, made, photos, wrote, job, view>>
      /\ UNCHANGED <<saved, stranded, stops, scope>>
  BY DEF StartExtraction
<1>3. upload' \in [Uploads -> Progress] /\ Preparing' \subseteq Preparing
  BY <1>2, UploadMoved DEF Progress, DInv
<1>4. queue' \in Seq(Ids)
  <2>1. d \in Ids /\ queue \in Seq(Ids)
    BY DEF Existing, DInv, TypeOK
  <2> QED  BY <2>1, <1>1
<1>5. TypeOK' /\ now' >= now
  BY <1>2, <1>3, <1>4 DEF DInv, TypeOK, Progress
<1>6. JobInv' /\ \A user \in Users : view'[user].card = view'[user].id
  BY <1>2 DEF DInv, JobInv, CardsInv
<1>7. Settles(drafts')
  BY <1>2, NothingSettles DEF DInv
<1> QED  BY <1>2, <1>3, <1>5, <1>6, <1>7, SettledStep


\* A new card takes an id no card had.
LEMMA CardAdded ==
    ASSUME DInv, NEW user \in Users, NEW status \in {"extracting", "ready"},
           NEW photo \in Uploads \cup {NoPhoto}, NewDraft(user, status, photo),
           now' = now, saved' = saved, view' = view
    PROVE  /\ NewId \in Ids /\ NewId \notin Existing /\ made' = NewId /\ made' \in 0..MaxDrafts
           /\ drafts' \in [Ids -> Draft \cup {NoDraft}]
           /\ drafts'[NewId] = [owner |-> user, status |-> status, photo |-> photo,
                                at |-> now, card |-> NewId]
           /\ \A d \in Ids : d # NewId => drafts'[d] = drafts[d]
           /\ CardsInv' /\ StepSaves /\ StepSettles
<1> DEFINE row == [owner |-> user, status |-> status, photo |-> photo, at |-> now, card |-> NewId]
<1>1. /\ MaxDrafts \in Nat /\ made \in Nat /\ made < MaxDrafts /\ made' = NewId
      /\ drafts' = [drafts EXCEPT ![NewId] = row]
  BY DraftsAssumption DEF DraftsAssumption, DInv, TypeOK, NewDraft, NewId
<1>2. NewId \in Ids /\ made' \in 0..MaxDrafts /\ NewId \in Nat /\ NewId > made
  BY <1>1 DEF Ids, NewId
<1>3. row \in Draft
  BY <1>2 DEF Draft, DInv, TypeOK
<1>4. row.card = NewId
  OBVIOUS
<1> HIDE DEF row
<1>5. /\ drafts' \in [Ids -> Draft \cup {NoDraft}] /\ drafts'[NewId] = row
      /\ \A d \in Ids : d # NewId => drafts'[d] = drafts[d]
  BY <1>1, <1>2, <1>3 DEF DInv, TypeOK
<1>6. \A d \in Existing : d \in Ids /\ d \in Nat /\ d <= made /\ drafts[d].card = d
  BY IdsFinite DEF DInv, CardsInv, Existing
<1>7. NewId \notin Existing
  BY <1>1, <1>2, <1>6
<1>8. \A d \in Existing' : d = NewId \/ d \in Existing
  BY <1>5 DEF Existing
<1>9. CardsInv'
  <2>1. ASSUME NEW d \in Existing' PROVE d <= made' /\ drafts'[d].card = d
    <3>1. CASE d = NewId
      BY <3>1, <1>1, <1>2, <1>4, <1>5
    <3>2. CASE d # NewId
      BY <3>2, <1>1, <1>2, <1>5, <1>6, <1>8
    <3> QED  BY <3>1, <3>2
  <2>2. ASSUME NEW c \in saved' PROVE c <= made' /\ c \notin Existing'
    <3>1. c \in saved /\ c \in Nat /\ c <= made /\ c \notin Existing
      BY IdsFinite DEF DInv, CardsInv, TypeOK
    <3> QED  BY <3>1, <1>1, <1>2, <1>8
  <2>3. \A v \in Users : view'[v].card = view'[v].id
    BY DEF DInv, CardsInv
  <2> QED  BY <2>1, <2>2, <2>3 DEF CardsInv
<1>10. StepSaves
  BY <1>9 DEF CardsInv, StepSaves
<1>11. StepSettles
  BY <1>5, <1>6, <1>7 DEF StepSettles
<1> QED  BY <1>1, <1>2, <1>5, <1>7, <1>9, <1>10, <1>11 DEF row

\* The one lock's holder leaves it with its card stored, so the card it was
\* admitted for is the first photo card of its player, and the queue was short.
LEMMA StoreDraftKeeps ==
    ASSUME DInv, NEW u \in Uploads, UploaderOf[u] \in Users, StoreDraft(u)
    PROVE  DInv' /\ StepHolds
<1> DEFINE user == UploaderOf[u]
<1>1. /\ upload[u] = "written" /\ upload' = [upload EXCEPT ![u] = "stored"]
      /\ NewDraft(user, "extracting", u)
      /\ UNCHANGED <<up, now, week, photos, wrote, queue, job, view>>
      /\ UNCHANGED <<saved, stranded, stops, scope>>
  BY DEF StoreDraft
<1>2. u \in Preparing /\ \A v \in Preparing : u = v
  BY <1>1 DEF Preparing, DInv, LockInv
<1>3. upload' \in [Uploads -> Progress] /\ Preparing' = {}
  <2>1. upload' \in [Uploads -> Progress] /\ Preparing' \subseteq Preparing \ {u}
    BY <1>1, UploadMoved DEF Progress, DInv
  <2> QED  BY <2>1, <1>2
<1> HIDE DEF user
<1>4. user \in Users /\ u \in Uploads \cup {NoPhoto}
  BY DEF user
<1>5. /\ NewId \in Ids /\ NewId \notin Existing /\ made' = NewId /\ made' \in 0..MaxDrafts
      /\ drafts' \in [Ids -> Draft \cup {NoDraft}]
      /\ drafts'[NewId] = [owner |-> user, status |-> "extracting", photo |-> u,
                           at |-> now, card |-> NewId]
      /\ \A d \in Ids : d # NewId => drafts'[d] = drafts[d]
      /\ CardsInv' /\ StepSaves /\ StepSettles
  BY <1>1, <1>4, CardAdded
<1>6. TypeOK'
  BY <1>1, <1>3, <1>5 DEF DInv, TypeOK, Progress
<1>7. JobInv'
  BY <1>1 DEF DInv, JobInv
<1>8. LockInv'
  BY <1>3 DEF LockInv
<1>9. Existing' \subseteq Existing \cup {NewId} /\ Open' \subseteq Open \cup {NewId}
      /\ Waiting' \subseteq Waiting \cup {NewId}
  BY <1>1, <1>5 DEF Existing, Open, Expired, Waiting, Extracting
<1>10. ASSUME NEW p, NEW d \in PhotoCards(p)'
       PROVE  d \in PhotoCards(p) \/ (d = NewId /\ p = user)
  <2>1. d \in Open' /\ d \in Ids /\ drafts'[d].owner = p /\ drafts'[d].photo # NoPhoto
    BY DEF PhotoCards, Open, Existing
  <2>2. CASE d = NewId
    BY <2>1, <2>2, <1>5
  <2>3. CASE d # NewId
    BY <2>1, <2>3, <1>5, <1>9 DEF PhotoCards
  <2> QED  BY <2>2, <2>3
<1>11. user \in Players => PhotoCards(user) = {} /\ Cardinality(Waiting) < BusyAt
  BY <1>2 DEF DInv, LockInv, user
<1>12. OneCard'
  <2> SUFFICES ASSUME NEW p \in Players, NEW d \in PhotoCards(p)', NEW e \in PhotoCards(p)'
      PROVE  d = e
    BY DEF OneCard
  <2>1. CASE p = user
    BY <2>1, <1>10, <1>11
  <2>2. CASE p # user
    BY <2>2, <1>10 DEF DInv, OneCard
  <2> QED  BY <2>1, <2>2
<1>13. StepLimits
  <2>1. ASSUME NEW d \in Existing' \ Existing, drafts'[d].owner \in Players
        PROVE  Cardinality(Waiting') <= BusyAt
    <3>1. user \in Players
      BY <2>1, <1>5, <1>9
    <3>2. Waiting \in SUBSET Ids /\ BusyAt \in Nat /\ NewId \notin Waiting
      BY <1>5, DraftsAssumption DEF Waiting, Open, Existing, DraftsAssumption
    <3>3. Waiting \cup {NewId} \in SUBSET Ids
      BY <3>2, <1>5
    <3>4. IsFiniteSet(Waiting)
      BY <3>2, IdsFinite, FS_Subset
    <3>5. Cardinality(Waiting \cup {NewId}) = Cardinality(Waiting) + 1
      BY <3>2, <3>4, FS_AddElement
    <3>6. /\ Cardinality(Waiting') \in Nat /\ Cardinality(Waiting \cup {NewId}) \in Nat
          /\ Cardinality(Waiting') <= Cardinality(Waiting \cup {NewId})
      BY <3>3, <1>9, SmallerSets
    <3>7. Cardinality(Waiting) \in Nat
      BY <3>4, FS_CardinalityType
    <3> QED  BY <3>1, <3>2, <3>5, <3>6, <3>7, <1>11
  <2> QED  BY <2>1, <1>12, PlayersLimits DEF StepLimits
<1> QED  BY <1>1, <1>5, <1>6, <1>7, <1>8, <1>12, <1>13 DEF DInv, StepHolds

\* A card started by hand neither waits nor has a photo.
LEMMA CreateManualKeeps ==
    ASSUME DInv, NEW user \in Users, CreateManual(user)
    PROVE  DInv' /\ StepHolds
<1>1. /\ NewDraft(user, "ready", NoPhoto)
      /\ UNCHANGED <<up, now, week, upload, photos, wrote, queue, job, view>>
      /\ UNCHANGED <<saved, stranded, stops, scope>>
  BY DEF CreateManual
<1>2. NoPhoto \in Uploads \cup {NoPhoto}
  OBVIOUS
<1>3. /\ NewId \in Ids /\ NewId \notin Existing /\ made' = NewId /\ made' \in 0..MaxDrafts
      /\ drafts' \in [Ids -> Draft \cup {NoDraft}]
      /\ drafts'[NewId] = [owner |-> user, status |-> "ready", photo |-> NoPhoto,
                           at |-> now, card |-> NewId]
      /\ \A d \in Ids : d # NewId => drafts'[d] = drafts[d]
      /\ CardsInv' /\ StepSaves /\ StepSettles
  BY <1>1, <1>2, CardAdded
<1>4. TypeOK' /\ JobInv'
  BY <1>1, <1>3 DEF DInv, TypeOK, JobInv
<1>5. Existing' \subseteq Existing \cup {NewId} /\ Open' \subseteq Open \cup {NewId}
  BY <1>1, <1>3 DEF Existing, Open, Expired
<1>6. ASSUME NEW d \in Waiting' PROVE d \in Waiting
  <2>1. d \in Open' /\ d \in Ids /\ drafts'[d].status = "extracting"
    BY DEF Waiting, Extracting, Open, Existing
  <2>2. d # NewId
    BY <2>1, <1>3
  <2>3. d \in Open /\ drafts[d] = drafts'[d]
    BY <2>1, <2>2, <1>3, <1>5
  <2> QED  BY <2>1, <2>3 DEF Waiting, Extracting, Open, Existing
<1>7. ASSUME NEW p, NEW d \in PhotoCards(p)' PROVE d \in PhotoCards(p)
  <2>1. d \in Open' /\ d \in Ids /\ drafts'[d].owner = p /\ drafts'[d].photo # NoPhoto
    BY DEF PhotoCards, Open, Existing
  <2>2. d # NewId
    BY <2>1, <1>3
  <2>3. d \in Open /\ drafts[d] = drafts'[d]
    BY <2>1, <2>2, <1>3, <1>5
  <2> QED  BY <2>1, <2>3 DEF PhotoCards
<1>8. Waiting' \subseteq Waiting /\ \A p : PhotoCards(p)' \subseteq PhotoCards(p)
  BY <1>6, <1>7
<1>9. OneCard'
  BY <1>8 DEF DInv, OneCard
<1>10. LockInv'
  <2> SUFFICES ASSUME NEW u \in Preparing', NEW v \in Preparing'
      PROVE  /\ u = v
             /\ UploaderOf[u] \in Players =>
                   PhotoCards(UploaderOf[u])' = {} /\ Cardinality(Waiting') < BusyAt
    BY DEF LockInv
  <2>1. u \in Preparing /\ v \in Preparing
    BY <1>1 DEF Preparing
  <2>2. u = v /\ (UploaderOf[u] \in Players =>
                     PhotoCards(UploaderOf[u]) = {} /\ Cardinality(Waiting) < BusyAt)
    BY <2>1 DEF DInv, LockInv
  <2>3. Waiting \in SUBSET Ids /\ BusyAt \in Nat
    BY DraftsAssumption DEF Waiting, Open, Existing, DraftsAssumption
  <2>4. /\ Cardinality(Waiting') \in Nat /\ Cardinality(Waiting) \in Nat
        /\ Cardinality(Waiting') <= Cardinality(Waiting)
    BY <2>3, <1>8, SmallerSets
  <2> QED  BY <2>2, <2>3, <2>4, <1>8
<1>11. StepLimits
  <2>1. \A d \in Existing' \ Existing : drafts'[d].status # "extracting"
    BY <1>3, <1>5
  <2> QED  BY <2>1, <1>9, PlayersLimits DEF StepLimits
<1> QED  BY <1>1, <1>3, <1>4, <1>9, <1>10, <1>11 DEF DInv, StepHolds


-----------------------------------------------------------------------------
(* The worker.                                                              *)

LEMMA TakeJobKeeps ==
    ASSUME DInv, TakeJob
    PROVE  DInv' /\ StepHolds
<1> DEFINE d == Head(queue)
<1>1. /\ queue # <<>> /\ job = Idle /\ queue' = Tail(queue)
      /\ job' = IF ~Extracting(d) THEN Idle
                ELSE IF drafts[d].photo \in photos
                     THEN [phase |-> "reading", id |-> d, answer |-> "none"]
                     ELSE [phase |-> "answered", id |-> d, answer |-> "failed"]
      /\ UNCHANGED <<up, now, week, upload, drafts, made, photos, wrote, view>>
      /\ UNCHANGED <<saved, stranded, stops, scope>>
  BY DEF TakeJob
<1>2. d \in Ids /\ queue' \in Seq(Ids)
  BY <1>1, HeadTailProperties DEF DInv, TypeOK
<1> HIDE DEF d
<1>3. d \in 0..MaxDrafts /\ 0 \in 0..MaxDrafts
  BY <1>2, DraftsAssumption DEF Ids, DraftsAssumption
<1>4. JobInv' /\ job' \in [phase : {"idle", "reading", "answered"}, id : 0..MaxDrafts,
                           answer : {"none", "ready", "failed"}]
  <2>1. CASE job' = Idle
    BY <2>1, <1>3 DEF JobInv, Idle
  <2>2. CASE job' = [phase |-> "reading", id |-> d, answer |-> "none"]
    BY <2>2, <1>2, <1>3 DEF JobInv, Idle
  <2>3. CASE job' = [phase |-> "answered", id |-> d, answer |-> "failed"]
    BY <2>3, <1>2, <1>3 DEF JobInv, Idle
  <2> QED  BY <2>1, <2>2, <2>3, <1>1
<1>5. TypeOK' /\ now' >= now
  BY <1>1, <1>2, <1>4 DEF DInv, TypeOK
<1>6. Preparing' = Preparing /\ \A user \in Users : view'[user].card = view'[user].id
  BY <1>1 DEF DInv, CardsInv, Preparing
<1>7. Settles(drafts')
  BY <1>1, NothingSettles DEF DInv
<1> QED  BY <1>1, <1>4, <1>5, <1>6, <1>7, SettledStep

LEMMA ReadPhotoKeeps ==
    ASSUME DInv, NEW answer \in {"ready", "failed"}, ReadPhoto(answer)
    PROVE  DInv' /\ StepHolds
<1>1. /\ job.phase = "reading" /\ job' = [job EXCEPT !.phase = "answered", !.answer = answer]
      /\ UNCHANGED <<up, now, week, upload, drafts, made, photos, wrote, queue, view>>
      /\ UNCHANGED <<saved, stranded, stops, scope>>
  BY DEF ReadPhoto
<1>2. job \in [phase : {"idle", "reading", "answered"}, id : 0..MaxDrafts,
               answer : {"none", "ready", "failed"}]
  BY DEF DInv, TypeOK
<1>3. job' = [phase |-> "answered", id |-> job.id, answer |-> answer] /\ job.id \in 0..MaxDrafts
  BY <1>1, <1>2
<1>4. JobInv' /\ job' \in [phase : {"idle", "reading", "answered"}, id : 0..MaxDrafts,
                           answer : {"none", "ready", "failed"}]
  BY <1>1, <1>3 DEF DInv, JobInv, Idle
<1>5. TypeOK' /\ now' >= now
  BY <1>1, <1>4 DEF DInv, TypeOK
<1>6. Preparing' = Preparing /\ \A user \in Users : view'[user].card = view'[user].id
  BY <1>1 DEF DInv, CardsInv, Preparing
<1>7. Settles(drafts')
  BY <1>1, NothingSettles DEF DInv
<1> QED  BY <1>1, <1>4, <1>5, <1>6, <1>7, SettledStep

\* An answer that comes after its draft was discarded, purged or marked
\* interrupted changes nothing.
LEMMA StoreResultKeeps ==
    ASSUME DInv, StoreResult
    PROVE  DInv' /\ StepHolds
<1> DEFINE d == job.id
           row == [drafts[d] EXCEPT !.status = job.answer]
<1>1. /\ job.phase = "answered" /\ job' = Idle
      /\ drafts' = [drafts EXCEPT ![d] = IF Extracting(d) THEN row ELSE drafts[d]]
      /\ UNCHANGED <<up, now, week, upload, made, photos, wrote, queue, view>>
      /\ UNCHANGED <<saved, stranded, stops, scope>>
  BY DEF StoreResult
<1>2. d \in Ids /\ job.answer \in {"ready", "failed"}
  BY <1>1 DEF DInv, JobInv
<1>3. drafts[d] \in Draft \cup {NoDraft} /\ drafts \in [Ids -> Draft \cup {NoDraft}]
  BY <1>2 DEF DInv, TypeOK
<1>4. Extracting(d) =>
         /\ row \in Draft /\ row.owner = drafts[d].owner /\ row.photo = drafts[d].photo
         /\ row.at = drafts[d].at /\ row.card = drafts[d].card /\ row.status # "extracting"
  BY <1>2, <1>3 DEF Extracting, Draft
<1> HIDE DEF d, row
<1>5. Settles(drafts')
  BY <1>1, <1>2, <1>3, <1>4 DEF Settles, Extracting
<1>6. JobInv' /\ job' \in [phase : {"idle", "reading", "answered"}, id : 0..MaxDrafts,
                           answer : {"none", "ready", "failed"}]
  BY <1>1, DraftsAssumption DEF JobInv, Idle, DraftsAssumption
<1>7. TypeOK' /\ now' >= now
  BY <1>1, <1>5, <1>6 DEF DInv, TypeOK, Settles
<1>8. Preparing' = Preparing /\ \A user \in Users : view'[user].card = view'[user].id
  BY <1>1 DEF DInv, CardsInv, Preparing
<1> QED  BY <1>1, <1>5, <1>6, <1>7, <1>8, SettledStep

LEMMA StoreResultFailsKeeps ==
    ASSUME DInv, StoreResultFails
    PROVE  DInv' /\ StepHolds
<1>1. /\ job' = Idle /\ stranded' = stranded \cup ({job.id} \cap Existing)
      /\ UNCHANGED <<up, now, week, upload, drafts, made, photos, wrote, queue, view>>
      /\ UNCHANGED <<saved, stops, scope>>
  BY DEF StoreResultFails
<1>2. JobInv' /\ job' \in [phase : {"idle", "reading", "answered"}, id : 0..MaxDrafts,
                           answer : {"none", "ready", "failed"}]
  BY <1>1, DraftsAssumption DEF JobInv, Idle, DraftsAssumption
<1>3. TypeOK' /\ now' >= now
  <2>1. stranded' \subseteq Ids /\ now' >= now
    BY <1>1 DEF DInv, TypeOK, Existing
  <2> QED  BY <1>1, <1>2, <2>1 DEF DInv, TypeOK
<1>4. Preparing' = Preparing /\ \A user \in Users : view'[user].card = view'[user].id
  BY <1>1 DEF DInv, CardsInv, Preparing
<1>5. Settles(drafts')
  BY <1>1, NothingSettles DEF DInv
<1> QED  BY <1>1, <1>2, <1>3, <1>4, <1>5, SettledStep

-----------------------------------------------------------------------------
(* The pages.                                                               *)

\* A page shows a card under its own id: no id is ever given twice.
LEMMA OpenPageKeeps ==
    ASSUME DInv, NEW user \in Users, OpenPage(user)
    PROVE  DInv' /\ StepHolds
<1>1. /\ Housekeeping
      /\ UNCHANGED <<up, now, week, upload, made, wrote, queue, job>>
      /\ UNCHANGED <<saved, stranded, stops, scope>>
  BY DEF OpenPage
<1>2. PICK d \in Open : view' = [view EXCEPT ![user] = [id |-> d, card |-> drafts[d].card]]
  BY DEF OpenPage
<1>3. d \in Ids /\ drafts[d].card = d /\ d \in 0..MaxDrafts
  BY DraftsAssumption DEF Open, Existing, Ids, DInv, CardsInv, DraftsAssumption
<1> DEFINE page == [id |-> d, card |-> d]
<1>4. page \in [id : 0..MaxDrafts, card : 0..MaxDrafts] /\ page.card = page.id
  BY <1>3
<1>5. view' = [view EXCEPT ![user] = page]
  BY <1>2, <1>3
<1> HIDE DEF page
<1>6. view' \in [Users -> [id : 0..MaxDrafts, card : 0..MaxDrafts]]
  BY <1>4, <1>5 DEF DInv, TypeOK
<1>7. \A other \in Users : view'[other].card = view'[other].id
  BY <1>4, <1>5 DEF DInv, TypeOK, CardsInv
<1>8. Settles(drafts') /\ photos' \subseteq photos
  BY <1>1, HousekeepingSettles DEF DInv
<1>9. TypeOK' /\ now' >= now
  BY <1>1, <1>6, <1>8 DEF DInv, TypeOK, Settles
<1>10. Preparing' = Preparing /\ JobInv'
  BY <1>1 DEF DInv, JobInv, Preparing
<1> QED  BY <1>1, <1>7, <1>8, <1>9, <1>10, SettledStep

LEMMA ListDraftsKeeps ==
    ASSUME DInv, ListDrafts
    PROVE  DInv' /\ StepHolds
<1>1. /\ UNCHANGED <<up, now, week, upload, made, wrote, queue, job, view>>
      /\ UNCHANGED <<saved, stranded, stops, scope>>
  BY DEF ListDrafts
<1>2. Settles(drafts') /\ photos' \subseteq photos
  BY HousekeepingSettles DEF DInv, ListDrafts
<1>3. TypeOK' /\ now' >= now
  BY <1>1, <1>2 DEF DInv, TypeOK, Settles
<1>4. Preparing' = Preparing /\ JobInv' /\ \A user \in Users : view'[user].card = view'[user].id
  BY <1>1 DEF DInv, JobInv, CardsInv, Preparing
<1> QED  BY <1>1, <1>2, <1>3, <1>4, SettledStep

\* The card saved is the one its page showed, and its row goes with it.
LEMMA SubmitKeeps ==
    ASSUME DInv, NEW user \in Users, Submit(user, view[user].id)
    PROVE  DInv' /\ StepHolds
<1> DEFINE d == view[user].id
<1>1. /\ d \in Open /\ saved' = saved \cup {drafts[d].card}
      /\ drafts' = [drafts EXCEPT ![d] = NoDraft] /\ photos' = photos \ {drafts[d].photo}
      /\ UNCHANGED <<up, now, week, upload, made, wrote, queue, job, view>>
      /\ UNCHANGED <<stranded, stops, scope>>
  BY DEF Submit, Submittable
<1>2. d = view[user].card
  BY DEF DInv, CardsInv
<1> HIDE DEF d
<1>3. d \in Ids /\ d <= made /\ drafts[d].card = d
  BY <1>1 DEF Open, Existing, DInv, CardsInv
<1>4. Settles(drafts') /\ d \notin Existing'
  BY <1>1, <1>3, OneGoes DEF DInv
<1>5. /\ Existing' \subseteq Existing /\ Waiting' \subseteq Waiting
      /\ \A p : PhotoCards(p)' \subseteq PhotoCards(p)
      /\ \A e \in Existing' : drafts'[e].card = drafts[e].card
  <2>1. now' \in 0..MaxNow /\ now' >= now
    BY <1>1 DEF DInv, TypeOK
  <2> QED  BY <2>1, <1>4, SettledNarrow DEF DInv
<1>6. saved' = saved \cup {d}
  BY <1>1, <1>3
<1>7. TypeOK' /\ now' >= now /\ now' \in 0..MaxNow
  BY <1>1, <1>3, <1>4, <1>6 DEF DInv, TypeOK, Settles
<1>8. CardsInv'
  <2>1. \A e \in Existing' : e <= made' /\ drafts'[e].card = e
    BY <1>1, <1>5 DEF DInv, CardsInv
  <2>2. \A c \in saved' : c <= made' /\ c \notin Existing'
    BY <1>1, <1>3, <1>4, <1>5, <1>6 DEF DInv, CardsInv
  <2>3. \A v \in Users : view'[v].card = view'[v].id
    BY <1>1 DEF DInv, CardsInv
  <2> QED  BY <2>1, <2>2, <2>3 DEF CardsInv
<1>9. OneCard'
  BY <1>5 DEF DInv, OneCard
<1>10. LockInv'
  <2> SUFFICES ASSUME NEW u \in Preparing', NEW v \in Preparing'
      PROVE  /\ u = v
             /\ UploaderOf[u] \in Players =>
                   PhotoCards(UploaderOf[u])' = {} /\ Cardinality(Waiting') < BusyAt
    BY DEF LockInv
  <2>1. u \in Preparing /\ v \in Preparing
    BY <1>1 DEF Preparing
  <2>2. u = v /\ (UploaderOf[u] \in Players =>
                     PhotoCards(UploaderOf[u]) = {} /\ Cardinality(Waiting) < BusyAt)
    BY <2>1 DEF DInv, LockInv
  <2>3. Waiting \in SUBSET Ids /\ BusyAt \in Nat
    BY DraftsAssumption DEF Waiting, Open, Existing, DraftsAssumption
  <2>4. /\ Cardinality(Waiting') \in Nat /\ Cardinality(Waiting) \in Nat
        /\ Cardinality(Waiting') <= Cardinality(Waiting)
    BY <2>3, <1>5, SmallerSets
  <2> QED  BY <2>2, <2>3, <2>4, <1>5
<1>11. \A c \in saved' \ saved : \E v \in Users : view[v].card = c
  BY <1>2, <1>6
<1>12. JobInv'
  BY <1>1 DEF DInv, JobInv
<1>13. StepHolds
  BY <1>4, <1>7, <1>8, <1>9, <1>11, SettledPromises
<1> QED  BY <1>1, <1>7, <1>8, <1>9, <1>10, <1>12, <1>13 DEF DInv

LEMMA DiscardKeeps ==
    ASSUME DInv, NEW user \in Users, NEW d, SubmitFails(user, d) \/ Discard(user, d)
    PROVE  DInv' /\ StepHolds
<1>1. /\ d \in Ids /\ photos' = photos \ {drafts[d].photo}
      /\ drafts' = [drafts EXCEPT ![d] = NoDraft] \/ drafts' = drafts
      /\ UNCHANGED <<up, now, week, upload, made, wrote, queue, job, view>>
      /\ UNCHANGED <<saved, stranded, stops, scope>>
  BY DEF SubmitFails, Submittable, Discard, Open, Existing
<1>2. Settles(drafts')
  BY <1>1, OneGoes, NothingSettles DEF DInv
<1>3. TypeOK' /\ now' >= now
  BY <1>1, <1>2 DEF DInv, TypeOK, Settles
<1>4. Preparing' = Preparing /\ JobInv' /\ \A v \in Users : view'[v].card = view'[v].id
  BY <1>1 DEF DInv, JobInv, CardsInv, Preparing
<1> QED  BY <1>1, <1>2, <1>3, <1>4, SettledStep

-----------------------------------------------------------------------------
(* The week, the clock and the process.                                     *)

LEMMA OutsideKeeps ==
    ASSUME DInv, OpenOrCloseWeek \/ DeleteWeek \/ Tick
    PROVE  DInv' /\ StepHolds
<1>1. /\ week' \in {"open", "closed", "deleted"}
      /\ UNCHANGED <<up, upload, made, photos, wrote, queue, job, view>>
      /\ UNCHANGED <<saved, stranded, stops, scope>>
  <2>1. CASE OpenOrCloseWeek
    BY <2>1 DEF OpenOrCloseWeek
  <2>2. CASE DeleteWeek
    BY <2>2 DEF DeleteWeek
  <2>3. CASE Tick
    BY <2>3 DEF Tick, DInv, TypeOK
  <2> QED  BY <2>1, <2>2, <2>3
<1>2. now' >= now /\ now' \in 0..MaxNow
  BY DraftsAssumption DEF OpenOrCloseWeek, DeleteWeek, Tick, DInv, TypeOK, DraftsAssumption
<1>3. drafts' = drafts \/ drafts' = [d \in Ids |-> NoDraft]
  BY DEF OpenOrCloseWeek, DeleteWeek, Tick
<1>4. Settles(drafts')
  BY <1>3, NothingSettles DEF DInv, Settles
<1>5. TypeOK'
  BY <1>1, <1>2, <1>4 DEF DInv, TypeOK, Settles
<1>6. Preparing' = Preparing /\ JobInv' /\ \A v \in Users : view'[v].card = view'[v].id
  BY <1>1 DEF DInv, JobInv, CardsInv, Preparing
<1> QED  BY <1>1, <1>2, <1>4, <1>5, <1>6, SettledStep

LEMMA EndKeeps ==
    ASSUME DInv, Stop \/ Kill
    PROVE  DInv' /\ StepHolds
<1>1. /\ up' = FALSE /\ queue' = <<>> /\ stops < scope.stops /\ stops' = stops + 1
      /\ job' = job \/ job' = Idle
      /\ UNCHANGED <<now, week, drafts, made, photos, wrote, view, saved, stranded, scope>>
  BY DEF Stop, Kill
<1>2. \/ upload' = upload
      \/ upload' = [u \in Uploads |-> IF upload[u] = "new" THEN "new" ELSE "done"]
  BY DEF Stop, Kill
<1>3. upload' \in [Uploads -> Progress] /\ Preparing' \subseteq Preparing
  BY <1>2 DEF DInv, TypeOK, Progress, Preparing
<1>4. JobInv' /\ job' \in [phase : {"idle", "reading", "answered"}, id : 0..MaxDrafts,
                           answer : {"none", "ready", "failed"}]
  <2>1. CASE job' = job
    BY <2>1 DEF DInv, TypeOK, JobInv
  <2>2. CASE job' = Idle
    BY <2>2, DraftsAssumption DEF JobInv, Idle, DraftsAssumption
  <2> QED  BY <2>1, <2>2, <1>1
<1>5. stops' \in 0..scope.stops /\ queue' \in Seq(Ids)
  <2>1. scope.stops \in Nat
    BY ScopeFits
  <2> QED  BY <2>1, <1>1 DEF DInv, TypeOK
<1>6. TypeOK' /\ now' >= now
  <2>1. now' >= now
    BY <1>1 DEF DInv, TypeOK
  <2>2. up' \in BOOLEAN
    BY <1>1
  <2> QED  BY <1>1, <1>3, <1>4, <1>5, <2>1, <2>2 DEF DInv, TypeOK, Progress
<1>7. \A v \in Users : view'[v].card = view'[v].id
  BY <1>1 DEF DInv, CardsInv
<1>8. Settles(drafts')
  BY <1>1, NothingSettles DEF DInv
<1> QED  BY <1>1, <1>3, <1>4, <1>6, <1>7, <1>8, SettledStep

\* Startup fails reads that were interrupted and touches no reviewed card.
LEMMA StartupKeeps ==
    ASSUME DInv, Startup
    PROVE  DInv' /\ StepHolds
<1> DEFINE marked == [d \in Ids |-> Interrupted(d)]
<1>1. /\ up' = TRUE
      /\ UNCHANGED <<now, week, upload, made, wrote, queue, job, view, saved, stops, scope>>
  BY DEF Startup
<1>2. Settles(marked)
  BY InterruptedSettles DEF DInv
<1>3. \/ Purge(marked) /\ stranded' = {}
      \/ PurgePartly(marked) /\ stranded' = {}
      \/ stranded' = {d \in Ids : Extracting(d)} /\ drafts' = drafts /\ photos' = photos
  BY DEF Startup
<1> HIDE DEF marked
<1>4. Settles(drafts') /\ photos' \subseteq photos /\ stranded' \subseteq Ids
  BY <1>2, <1>3, PurgeSettles, NothingSettles DEF DInv
<1>5. TypeOK' /\ now' >= now
  BY <1>1, <1>4 DEF DInv, TypeOK, Settles
<1>6. Preparing' = Preparing /\ JobInv' /\ \A v \in Users : view'[v].card = view'[v].id
  BY <1>1 DEF DInv, JobInv, CardsInv, Preparing
<1> QED  BY <1>1, <1>4, <1>5, <1>6, SettledStep


-----------------------------------------------------------------------------
(* The theorems.                                                            *)

LEMMA NextKeeps ==
    ASSUME DInv, Next
    PROVE  DInv' /\ StepHolds
<1>1. scope.uploads \subseteq Uploads /\ \A u \in scope.uploads : UploaderOf[u] \in Users
  BY ScopeFits
<1>2. CASE UploadNext
  <2>1. PICK u \in scope.uploads : Arrive(u) \/ Admit(u) \/ Refuse(u) \/ WritePhoto(u) \/ Storing(u)
    BY <1>2 DEF UploadNext
  <2>2. u \in Uploads /\ UploaderOf[u] \in Users
    BY <1>1, <2>1
  <2>3. CASE Arrive(u) \/ Refuse(u)
    BY <2>2, <2>3, ArriveKeeps
  <2>4. CASE Admit(u)
    BY <2>2, <2>4, AdmitKeeps
  <2>5. CASE WritePhoto(u)
    BY <2>2, <2>5, WritePhotoKeeps
  <2>6. CASE Storing(u)
    BY <2>2, <2>6, StoreDraftKeeps, StoreDraftFailsKeeps, StartExtractionKeeps DEF Storing
  <2> QED  BY <2>1, <2>3, <2>4, <2>5, <2>6
<1>3. CASE Worker
  BY <1>3, TakeJobKeeps, ReadPhotoKeeps, StoreResultKeeps, StoreResultFailsKeeps DEF Worker
<1>4. CASE PageNext
  <2>1. CASE ListDrafts
    BY <2>1, ListDraftsKeeps
  <2>2. ASSUME NEW user \in {UploaderOf[u] : u \in scope.uploads},
               CreateManual(user) \/ OpenPage(user)
        PROVE  DInv' /\ StepHolds
    BY <1>1, <2>2, CreateManualKeeps, OpenPageKeeps
  <2>3. ASSUME NEW user \in {UploaderOf[u] : u \in scope.uploads},
               LET d == view[user].id IN Submit(user, d) \/ SubmitFails(user, d) \/ Discard(user, d)
        PROVE  DInv' /\ StepHolds
    <3>1. user \in Users
      BY <1>1
    <3> QED  BY <3>1, <2>3, SubmitKeeps, DiscardKeeps
  <2> QED  BY <1>4, <2>1, <2>2, <2>3 DEF PageNext
<1>5. CASE ProcessNext
  BY <1>5, OutsideKeeps, EndKeeps, StartupKeeps DEF ProcessNext
<1> QED  BY <1>2, <1>3, <1>4, <1>5 DEF Next

LEMMA StutterKeeps ==
    ASSUME DInv, UNCHANGED vars
    PROVE  DInv'
<1>1. /\ UNCHANGED <<up, now, week, upload, drafts, made, photos, wrote, queue, job, view>>
      /\ UNCHANGED <<saved, stranded, stops, scope>>
  BY DEF vars
<1>2. TypeOK' /\ now' >= now
  BY <1>1 DEF DInv, TypeOK
<1>3. Preparing' = Preparing /\ JobInv' /\ \A v \in Users : view'[v].card = view'[v].id
  BY <1>1 DEF DInv, JobInv, CardsInv, Preparing
<1>4. Settles(drafts')
  BY <1>1, NothingSettles DEF DInv
<1> QED  BY <1>1, <1>2, <1>3, <1>4, SettledStep

LEMMA InitHolds ==
    ASSUME Init
    PROVE  DInv
<1>1. /\ MaxNow \in Nat /\ MaxDrafts \in Nat /\ scope.stops \in Nat /\ scope \in Scopes
      /\ 0 \in 0..MaxNow /\ 0 \in 0..MaxDrafts /\ 0 \in 0..scope.stops
  BY DraftsAssumption DEF DraftsAssumption, Init
<1>2. TypeOK
  <2>1. /\ view \in [Users -> [id : 0..MaxDrafts, card : 0..MaxDrafts]]
        /\ job \in [phase : {"idle", "reading", "answered"}, id : 0..MaxDrafts,
                    answer : {"none", "ready", "failed"}]
    BY <1>1 DEF Init, NoPage, Idle
  <2> QED  BY <1>1, <2>1 DEF Init, TypeOK
<1>3. Existing = {} /\ Preparing = {} /\ \A p : PhotoCards(p) = {}
  BY DEF Init, Existing, Preparing, PhotoCards, Open
<1>4. CardsInv
  BY <1>3 DEF Init, CardsInv, NoPage
<1>5. JobInv
  BY DEF Init, JobInv, Idle
<1> QED  BY <1>1, <1>2, <1>3, <1>4, <1>5 DEF DInv, LockInv, OneCard

LEMMA Invariance == Spec => []DInv
<1>1. Init => DInv
  BY InitHolds
<1>2. DInv /\ [Next]_vars => DInv'
  BY NextKeeps, StutterKeeps
<1> QED  BY <1>1, <1>2, PTL DEF Spec

\* Type correctness of the drafts, their files, the worker and the process.
THEOREM DraftsTypeCorrect == Spec => []TypeOK
<1>1. DInv => TypeOK
  BY DEF DInv
<1> QED  BY <1>1, Invariance, PTL

\* The limits of _start's admit hold for any number of players and uploads, any
\* BUSY_AT and lifetime, and whatever fails: one open photo card each, and no
\* player's upload lengthens the worker's queue beyond BUSY_AT.
THEOREM LimitsAlwaysHold == Spec => LimitsHold
<1>1. DInv /\ [Next]_vars =>
        [/\ \A p \in Players : Cardinality(PhotoCards(p)') <= 1
         /\ \A d \in Existing' \ Existing :
               drafts'[d].owner \in Players /\ drafts'[d].status = "extracting"
                   => Cardinality(Waiting') <= BusyAt]_vars
  BY NextKeeps DEF StepHolds, StepLimits
<1> QED  BY <1>1, Invariance, PTL DEF Spec, LimitsHold

\* Saving a card (submit) saves the one its page showed, and a saved card is gone
\* for good, through deletions, expiry, failures and restarts.
THEOREM SavedOnce == Spec => SavedOnceAsShown
<1>1. DInv /\ [Next]_vars =>
        [/\ \A c \in saved' \ saved : \E user \in Users : view[user].card = c
         /\ \A d \in Existing' : drafts'[d].card \notin saved']_vars
  BY NextKeeps DEF StepHolds, StepSaves
<1> QED  BY <1>1, Invariance, PTL DEF Spec, SavedOnceAsShown

\* A reading under review is changed by no late answer of the worker
\* (_store_result) and by no startup (mark_interrupted).
THEOREM ReviewsSettled == Spec => ReviewSettled
<1>1. DInv /\ [Next]_vars =>
        [\A d \in Existing : ~Extracting(d) => drafts'[d] \in {drafts[d], NoDraft}]_vars
  BY NextKeeps DEF StepHolds, StepSettles
<1> QED  BY <1>1, Invariance, PTL DEF Spec, ReviewSettled
=============================================================================
