------------------------------ MODULE Pictures ------------------------------
(***************************************************************************)
(* Posters, photos of actors and avatars: uploads, the Celery task that    *)
(* shrinks a picture to WEBP and derives a poster's card (core/images.py,  *)
(* drama/tasks.py), the import of a movie from TMDB, whose task downloads  *)
(* pictures (drama/services/tmdb.py), and the signals that delete a        *)
(* replaced avatar (users/signals.py).                                     *)
(*                                                                         *)
(* Files are what the bucket has by their names.  It overwrites: a picture *)
(* of a movie or an actor keeps the name it is uploaded under, shrunk or   *)
(* not, and whoever uploads another one under that name writes over it     *)
(* (config/custom_storage.py); an avatar gets a random name at every save. *)
(* Sizes and qualities are left out.                                       *)
(***************************************************************************)
EXTENDS Site

CONSTANTS
    Cast,      \* the actors of an imported movie
    Picture,   \* what editors and users upload: the names, without suffixes
    Optimizer, \* Celery workers
    Deletable, \* bound: the rows that may be deleted
    Backfilled, \* bound: the rows that optimize_images is run for
    MaxShrinks \* bound: optimisations of one row's picture waiting at a time

Row == Movie \cup Cast \cup User

ASSUME PicturesAssumption ==
    /\ MaxShrinks \in Nat \ {0} /\ Deletable \cup Backfilled \subseteq Row
    /\ Movie \cap Cast = {} /\ Movie \cap User = {} /\ Cast \cap User = {}
    /\ Picture \cap Row = {} /\ Optimizer \cap (Picture \cup Row) = {}

\* A file's name is that of the upload; of the row, for a download; none for the avatar
\* all new profiles share; and for an avatar, besides, the worker that has shrunk it.
File == [of : SUBSET (Picture \cup Row \cup Optimizer), form : {"raw", "webp", "card"}]
Default == [of |-> {}, form |-> "raw"]
NoFile == [of |-> {}, form |-> "none"]

Free == [job |-> "none"]

VARIABLES
    there,     \* per row: "no", "yes" or, once deleted, "gone"
    picture,   \* poster, image or avatar
    card,      \* Movie.poster_card
    deleted,   \* files deleted from the storage
    shrinks,   \* per row: waiting optimize_image_task
    downloads, \* waiting tmdb_download_images: a movie and the actors to fill
    doing,     \* per worker: its task
    editing,   \* requests that have loaded a row and will save all of it
    chosen,    \* history: per row, the picture last uploaded for it
    given,     \* history: per row, the pictures uploaded for it
    fetched,   \* history: rows a download was stored for
    rushed,    \* history: rows that got a picture while a task was busy with the last one
    spoilt,    \* history: rows an outdated or rolled back save has left a lost file on
    reused     \* history: rows with a name that was stored a second time

picturesVars == <<there, picture, card, deleted, shrinks, downloads, doing, editing,
                  chosen, given, fetched, rushed, spoilt, reused>>
rowVars == <<there, picture, card, deleted, shrinks>>
past == <<chosen, given, fetched, rushed, spoilt, reused>>

PicturesInit ==
    /\ there = [r \in Row |-> IF r \in User THEN "yes" ELSE "no"]
    /\ picture = [r \in Row |-> IF r \in User THEN Default ELSE NoFile]
    /\ card = [m \in Movie |-> NoFile]
    /\ deleted = {}
    /\ shrinks = [r \in Row |-> 0]
    /\ downloads = {} /\ editing = {}
    /\ doing = [w \in Optimizer |-> Free]
    /\ chosen = [r \in Row |-> {}] /\ given = [r \in Row |-> {}]
    /\ fetched = {} /\ rushed = {} /\ spoilt = {} /\ reused = {}

-----------------------------------------------------------------------------
(* Editors and users                                                       *)

\* A task holds a copy of the row, or is about to fill it.
Busy(r) == \E w \in Optimizer : doing[w].job # "none" /\ doing[w].row = r

\* A new upload: core/images.py queues its optimisation once the row is committed.
Queued(r, n) == shrinks[r] + n <= MaxShrinks /\ shrinks' = [shrinks EXCEPT ![r] = @ + n]

\* Mutant: whatever is saved, the avatar in the database goes.
Replaced_Always(r, file) == IF r \in User THEN {picture[r]} \ {Default, NoFile} ELSE {}

\* Saving a profile deletes the avatar in the database if it is not the one being saved,
\* but never the one all new profiles share.
Replaced(r, file) ==
    IF r \in User /\ picture[r] # file THEN {picture[r]} \ {Default, NoFile} ELSE {}

Loads(t) == ~\E e \in editing : e.tab = t

\* A change page of the admin or the settings form is submitted: the row is loaded.
Load(t, r) ==
    /\ Loads(t) /\ there[r] = "yes"
    /\ editing' = editing \cup {[tab |-> t, row |-> r, picture |-> picture[r],
                                 card |-> IF r \in Movie THEN card[r] ELSE NoFile]}
    /\ UNCHANGED <<rowVars, downloads, doing, past>>

SaveRow(e, file) ==
    /\ editing' = editing \ {e}
    /\ there[e.row] = "yes"
    /\ picture' = [picture EXCEPT ![e.row] = file]
    /\ card' = [m \in Movie |-> IF m = e.row THEN e.card ELSE card[m]]
    /\ UNCHANGED <<there, downloads, doing>>

\* The rows a picture of that name was uploaded for, which are of one directory.
Namesakes(p) == {r \in Row : p \in given[r]}
MayName(r, p) == \A s \in Namesakes(p) : {r, s} \subseteq Movie \/ {r, s} \subseteq Cast

\* With a new picture.  A file that is WEBP already needs a card at most.
Upload(e, p, form) ==
    LET file == [of |-> {p}, form |-> form] IN
    /\ MayName(e.row, p)
    /\ deleted' = (deleted \cup Replaced(e.row, file)) \ {file}
    /\ SaveRow(e, file)
    /\ Queued(e.row, 1)
    /\ chosen' = [chosen EXCEPT ![e.row] = {p}]
    /\ given' = [given EXCEPT ![e.row] = @ \cup {p}]
    /\ rushed' = IF Busy(e.row) THEN rushed \cup {e.row} ELSE rushed
    /\ reused' = IF Namesakes(p) = {} THEN reused ELSE reused \cup Namesakes(p) \cup {e.row}
    /\ UNCHANGED <<fetched, spoilt>>

\* The file is stored, then the save fails and is rolled back.
FailUpload(e, p, form) ==
    /\ Namesakes(p) # {} /\ MayName(e.row, p)
    /\ editing' = editing \ {e}
    /\ deleted' = deleted \ {[of |-> {p}, form |-> form]}
    /\ reused' = reused \cup Namesakes(p)
    /\ UNCHANGED <<there, picture, card, shrinks, downloads, doing, chosen, given, fetched,
                   rushed, spoilt>>

\* Without one: the row gets the picture that was loaded.  Only an avatar may be cleared;
\* a poster or a photo is required.
Keep(e, file) ==
    /\ file = e.picture \/ (e.row \in User /\ file = NoFile)
    /\ e.row \in User \/ file # NoFile
    /\ deleted' = deleted \cup Replaced(e.row, file)
    /\ SaveRow(e, file)
    /\ spoilt' = IF file \notin {picture[e.row], NoFile} THEN spoilt \cup {e.row} ELSE spoilt
    /\ chosen' = IF file = NoFile THEN [chosen EXCEPT ![e.row] = {}] ELSE chosen
    /\ UNCHANGED <<shrinks, given, fetched, rushed, reused>>

\* The save fails and is rolled back, or its row is gone.  An avatar it was to replace has
\* been deleted by then.
Fail(e) ==
    /\ editing' = editing \ {e}
    /\ \E lost \in {{}, Replaced(e.row, NoFile)} :
          /\ deleted' = deleted \cup lost
          /\ spoilt' = IF lost = {} THEN spoilt ELSE spoilt \cup {e.row}
    /\ UNCHANGED <<there, picture, card, shrinks, downloads, doing, chosen, given, fetched,
                   rushed, reused>>

\* The files of movies and actors stay behind, a deleted profile takes its avatar along.
Delete(r) ==
    /\ there[r] = "yes"
    /\ there' = [there EXCEPT ![r] = "gone"]
    /\ picture' = [picture EXCEPT ![r] = NoFile]
    /\ deleted' = deleted \cup Replaced(r, NoFile)
    /\ card' = [m \in Movie |-> IF m = r THEN NoFile ELSE card[m]]
    /\ UNCHANGED <<shrinks, downloads, doing, editing, past>>

-----------------------------------------------------------------------------
(* The import of a movie (tmdb_import_view, import_movie)                  *)

\* Of the cast TMDB lists (fetch_details), those no name is known of are created.
NewActors == {a \in Cast : there[a] = "no"}

Unpictured == {a \in Cast : there[a] # "gone" /\ picture[a] = NoFile}

\* The draft and its new actors in one transaction; the task is to fill the poster and the
\* photos that are missing.
import_movie(m) ==
    /\ there' = [r \in Row |-> IF r \in {m} \cup NewActors THEN "yes" ELSE there[r]]
    /\ downloads' = downloads \cup {[movie |-> m, actors |-> Unpictured]}
    /\ UNCHANGED <<picture, card, deleted, shrinks, doing, editing, past>>

\* An editor finds the movie at TMDB and imports it.  Of two imports of one movie the second
\* is refused, by the check or as tmdb_id is unique; TMDB's errors change nothing.
tmdb_import_view(m) == there[m] = "no" /\ import_movie(m)

-----------------------------------------------------------------------------
(* tmdb_download_images                                                    *)

StartDownload(w, d) ==
    /\ doing[w] = Free /\ d \in downloads
    /\ downloads' = downloads \ {d}
    /\ doing' = [doing EXCEPT ![w] =
                    IF there[d.movie] # "yes" THEN Free
                    ELSE [job |-> "download", row |-> d.movie, asked |-> d, at |-> "look",
                          left |-> d.actors]]
    /\ UNCHANGED <<rowVars, editing, past>>

\* The poster first, then the actors in turn.
NextRow(w) ==
    LET k == doing[w] IN
    IF k.left = {} THEN doing' = [doing EXCEPT ![w] = Free]
    ELSE \E a \in k.left :
            doing' = [doing EXCEPT ![w] = [k EXCEPT !.row = a, !.at = "look",
                                                    !.left = @ \ {a}]]

\* Mutant: an import replaces the pictures there are.
Missing_Any(r) == there[r] = "yes"

Missing(r) == there[r] = "yes" /\ picture[r] = NoFile

Look(w) ==
    LET k == doing[w] IN
    /\ k.job = "download" /\ k.at = "look"
    /\ IF Missing(k.row) THEN doing' = [doing EXCEPT ![w].at = "fetch"] ELSE NextRow(w)
    /\ UNCHANGED <<rowVars, downloads, editing, past>>

\* The picture is written over whatever the row has got meanwhile, under the row's name
\* (tmdb-<id>.jpg).
StoreDownload(w) ==
    LET k == doing[w]  r == k.row  file == [of |-> {r}, form |-> "raw"] IN
    /\ k.job = "download" /\ k.at = "fetch"
    /\ IF there[r] = "yes"
       THEN /\ picture' = [picture EXCEPT ![r] = file] /\ Queued(r, 1)
            /\ deleted' = deleted \ {file}
            /\ fetched' = fetched \cup {r}
            /\ reused' = IF r \in fetched THEN reused \cup {r} ELSE reused
       ELSE UNCHANGED <<picture, shrinks, deleted, fetched, reused>>
    /\ NextRow(w)
    /\ UNCHANGED <<there, card, downloads, editing, chosen, given, rushed, spoilt>>

\* The network: the task starts again later with what it was asked at first.
RetryDownload(w) ==
    /\ doing[w].job = "download" /\ doing[w].at = "fetch"
    /\ downloads' = downloads \cup {doing[w].asked}
    /\ doing' = [doing EXCEPT ![w] = Free]
    /\ UNCHANGED <<rowVars, editing, past>>

-----------------------------------------------------------------------------
(* optimize_image_task                                                     *)

\* manage.py optimize_images: each row whose picture is not WEBP yet, or has no card.
optimize_images(r) ==
    /\ there[r] = "yes" /\ picture[r] # NoFile
    /\ picture[r].form # "webp" \/ (r \in Movie /\ card[r] = NoFile)
    /\ Queued(r, 1)
    /\ UNCHANGED <<there, picture, card, deleted, downloads, doing, editing, past>>

optimize_image_task(w, r) ==
    LET k == [job |-> "shrink", row |-> r, seen |-> picture[r],
              card |-> IF r \in Movie THEN card[r] ELSE NoFile, at |-> "open"] IN
    /\ doing[w] = Free /\ shrinks[r] > 0
    /\ shrinks' = [shrinks EXCEPT ![r] = @ - 1]
    /\ doing' = [doing EXCEPT ![w] =
                    IF there[r] # "yes" \/ picture[r] = NoFile THEN Free
                    ELSE IF picture[r].form = "webp" THEN [k EXCEPT !.at = "card"] ELSE k]
    /\ UNCHANGED <<there, picture, card, deleted, downloads, editing, past>>

At(w, step) == doing[w].job = "shrink" /\ doing[w].at = step
Goto(w, step) == doing' = [doing EXCEPT ![w].at = step]

\* The suffix becomes .webp.  For avatars the name is new as well; the shared one shrunk is
\* the avatar of one row.
Shrunk(w) ==
    LET k == doing[w] IN
    [of |-> k.seen.of \cup (IF k.row \in User THEN {w} ELSE {})
                     \cup (IF k.seen = Default THEN {k.row} ELSE {}),
     form |-> "webp"]

\* The file is read, and the small one stored beside it.  What cannot be read is left.
Shrink(w) ==
    /\ At(w, "open")
    /\ \/ doing[w].seen \notin deleted /\ Goto(w, "update")
       \/ doing' = [doing EXCEPT ![w] = Free]
    /\ UNCHANGED <<rowVars, downloads, editing, past>>

\* update(): the row refers to the new file, whatever it has referred to.
UpdateRow(w) ==
    LET r == doing[w].row IN
    /\ At(w, "update")
    /\ picture' = IF there[r] = "yes" THEN [picture EXCEPT ![r] = Shrunk(w)] ELSE picture
    /\ Goto(w, "delete")
    /\ UNCHANGED <<there, card, deleted, shrinks, downloads, editing, past>>

DeleteOld(w) ==
    /\ At(w, "delete")
    /\ deleted' = deleted \cup {doing[w].seen}
    /\ doing' = [doing EXCEPT ![w].at = "card", ![w].seen = Shrunk(w)]
    /\ UNCHANGED <<there, picture, card, shrinks, downloads, editing, past>>

\* A poster without a card, as it was loaded, gets one.
MakeCard(w) ==
    LET k == doing[w] IN
    /\ At(w, "card")
    /\ \/ k.row \in Movie /\ k.card = NoFile /\ k.seen \notin deleted /\ Goto(w, "write")
       \/ doing' = [doing EXCEPT ![w] = Free]
    /\ UNCHANGED <<rowVars, downloads, editing, past>>

WriteCard(w) ==
    LET m == doing[w].row IN
    /\ At(w, "write")
    /\ card' = IF there[m] = "yes" THEN [card EXCEPT ![m] = [doing[w].seen EXCEPT !.form = "card"]]
               ELSE card
    /\ doing' = [doing EXCEPT ![w] = Free]
    /\ UNCHANGED <<there, picture, deleted, shrinks, downloads, editing, past>>

\* The storage, the database or the cache fails: the task is queued again.
Retry(w) ==
    /\ doing[w].job = "shrink" /\ (At(w, "open") => doing[w].seen \notin deleted)
    /\ Queued(doing[w].row, 1)
    /\ doing' = [doing EXCEPT ![w] = Free]
    /\ UNCHANGED <<there, picture, card, deleted, downloads, editing, past>>

\* A worker dies, or has retried three times: its task is lost.
Die(w) ==
    /\ doing[w] # Free
    /\ doing' = [doing EXCEPT ![w] = Free]
    /\ UNCHANGED <<rowVars, downloads, editing, past>>

-----------------------------------------------------------------------------
PicturesNext ==
    \/ \E t \in Tab, r \in Row : Load(t, r)
    \/ \E m \in Movie : tmdb_import_view(m)
    \/ \E e \in editing : \/ \E p \in Picture, form \in {"raw", "webp"} :
                                Upload(e, p, form) \/ FailUpload(e, p, form)
                          \/ \E file \in {e.picture, NoFile} : Keep(e, file)
                          \/ Fail(e)
    \/ \E r \in Deletable : Delete(r)
    \/ \E r \in Backfilled : optimize_images(r)
    \/ \E w \in Optimizer : \/ \E d \in downloads : StartDownload(w, d)
                           \/ Look(w) \/ StoreDownload(w) \/ RetryDownload(w)
                           \/ \E r \in Row : optimize_image_task(w, r)
                           \/ Shrink(w) \/ UpdateRow(w) \/ DeleteOld(w)
                           \/ MakeCard(w) \/ WriteCard(w) \/ Retry(w) \/ Die(w)

-----------------------------------------------------------------------------
(* Properties                                                              *)

PicturesTypeOK ==
    /\ there \in [Row -> {"no", "yes", "gone"}]
    /\ picture \in [Row -> File \cup {NoFile}]
    /\ card \in [Movie -> File \cup {NoFile}]
    /\ deleted \subseteq File
    /\ shrinks \in [Row -> 0..MaxShrinks]
    /\ chosen \in [Row -> SUBSET Picture] /\ given \in [Row -> SUBSET Picture]
    /\ fetched \cup rushed \cup spoilt \cup reused \subseteq Row

\* What lists and sliders show of a movie.
card_image(m) == IF card[m] = NoFile THEN picture[m] ELSE card[m]

\* No page shows a broken picture: the file a row refers to is in the bucket, whatever
\* the optimiser, uploads, downloads and dying workers do in between. Two things break it.
\* A save may write an outdated row, or be rolled back after the avatar it replaced has
\* been deleted (spoilt). And a name may be stored a second time, by a namesake or by the
\* import of a second movie with the same actor, while a task is still to delete the first
\* file of that name (reused).
\* The avatar all new profiles share is left out: optimize_images shrinks it as any other,
\* for one profile, and deletes it, though users/models.py:95 says that it is not shrunk.
PicturesExist ==
    \A r \in Row \ (spoilt \cup reused) :
        /\ picture[r] \notin deleted \ {Default}
        /\ r \in Movie => card_image(r) \notin deleted

\* The picture that was uploaded last for a row is the one it shows, in whatever form: no
\* import replaces it, and no retry brings an older one back; and so does the card of a
\* movie that never had another, for the card of an earlier one is never remade. Not so
\* for a row uploaded to while a task was busy with its last picture: the task writes the
\* older one over it (rushed); nor for one a stale save has spoilt, nor for one whose name
\* was stored again, with another picture in it.
LatestUploadShown ==
    \A r \in Row \ (rushed \cup spoilt \cup reused) :
        there[r] = "yes" /\ chosen[r] # {} =>
            /\ picture[r].of \cap Picture = chosen[r]
            /\ r \in Movie \ fetched /\ given[r] = chosen[r] =>
                   card_image(r).of \cap Picture = chosen[r]
=============================================================================
