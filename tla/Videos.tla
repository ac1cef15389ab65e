------------------------------- MODULE Videos -------------------------------
(***************************************************************************)
(* From a video file attached in the admin to followers who are told that  *)
(* the episode is out: the admin's pages, whose save writes the whole row, *)
(* and its retry, refresh and publish actions (drama/admin.py), the upload *)
(* task and its retries (drama/tasks.py), the encoder's webhook            *)
(* (drama/webhooks.py), the per-minute publisher, and the fan-out that is  *)
(* to happen once.                                                         *)
(*                                                                         *)
(* Tasks wait in a queue that may hold several for one episode; a worker   *)
(* works on what it read when it took the task.  Every call to the encoder *)
(* and every UPDATE is a step, since tasks, webhooks and admins take no    *)
(* lock.  Only the fan-out locks the episode's row.                        *)
(*                                                                         *)
(* The encoder (Bunny) is external.  Each status it reports may arrive     *)
(* late, repeatedly, in any order, or never.                               *)
(***************************************************************************)
EXTENDS Integers

CONSTANTS
    Episode,      \* episodes of one movie
    Editor,       \* tabs in which an editor has an episode's form
    Worker,       \* Celery workers
    Guid,         \* identifiers the encoder may hand out
    File,         \* uploaded files
    NoEpisode,
    NoGuid,
    NoFile,
    MaxTasks,     \* bound: upload tasks of one episode, waiting or running
    MaxNews       \* bound: waiting fan-out tasks of one episode

ASSUME VideosAssumption ==
    /\ NoEpisode \notin Episode /\ NoGuid \notin Guid /\ NoFile \notin File
    /\ MaxTasks \in Nat \ {0}
    /\ MaxNews \in Nat \ {0}

VARIABLES
    file,       \* Episode.video_file
    guid,       \* Episode.bunny_video_id
    uploadStatus,
    notified,   \* episodes whose followers_notified_at is set
    movie,      \* Movie.status
    due,        \* Movie.publish_at has come
    storage,    \* files in the local storage
    content,    \* per video: the file uploaded into it
    encoding,   \* per video: how far the encoder is
    hooks,      \* statuses the encoder has reported: <<guid, code>>
    queue,      \* per episode: process_video_upload tasks waiting
    news,       \* per episode: notify_new_episode_followers tasks waiting
    step,       \* per worker: where it is in its task
    at,         \* per worker: the episode
    mine,       \* per worker: the file it has read
    video,      \* per worker: the GUID it has read, or been given
    told,       \* history: announcements of the episode
    page,       \* per editor: the GUID its form shows, and the row its save has loaded
    latest,     \* history: the file attached last
    attached,   \* history: per episode, the files it has been given
    crossed,    \* history: episodes given a file or a retry while a task of theirs was
                \*          under way, or a file on top of a GUID, and those whose file,
                \*          GUID or status an editor's save has changed otherwise
    forgotten   \* history: episodes whose followers_notified_at a save has put back

videosVars == <<file, guid, uploadStatus, notified, movie, due, storage, content,
                encoding, hooks, queue, news, step, at, mine, video, told, page, latest,
                attached, crossed, forgotten>>

row     == <<file, guid, uploadStatus>>
encoder == <<content, encoding, hooks>>
jobs    == <<step, at, mine, video>>
fanout  == <<notified, news, told>>
release == <<movie, due>>
files   == <<latest, attached>>
marks   == <<page, files, crossed, forgotten>>

NoPage == [step |-> "idle", episode |-> NoEpisode, guid |-> NoGuid, file |-> NoFile,
           status |-> "none", notified |-> {}]

VideosInit ==
    /\ file = [e \in Episode |-> NoFile]
    /\ guid = [e \in Episode |-> NoGuid]
    /\ uploadStatus = [e \in Episode |-> "none"]
    /\ notified = {}
    /\ movie \in {"draft", "scheduled", "published"}
    /\ due = FALSE
    /\ storage = {}
    /\ content = [g \in Guid |-> NoFile]
    /\ encoding = [g \in Guid |-> "none"]
    /\ hooks = {}
    /\ queue = [e \in Episode |-> 0]
    /\ news = [e \in Episode |-> 0]
    /\ step = [w \in Worker |-> "idle"]
    /\ at = [w \in Worker |-> NoEpisode]
    /\ mine = [w \in Worker |-> NoFile]
    /\ video = [w \in Worker |-> NoGuid]
    /\ told = [e \in Episode |-> 0]
    /\ page = [a \in Editor |-> NoPage]
    /\ latest = [e \in Episode |-> NoFile]
    /\ attached = [e \in Episode |-> {}]
    /\ crossed = {} /\ forgotten = {}

\* Mutant: the fan-out reads the row without FOR UPDATE.
Unlocked_NoForUpdate(e) == TRUE

\* The fan-out holds the row: an UPDATE of it waits.
Unlocked(e) == \A w \in Worker : ~(step[w] = "telling" /\ at[w] = e)

Uploading(e) == {w \in Worker : at[w] = e /\ step[w] # "telling"}

\* An upload task of e is waiting or running.
Busy(e) == queue[e] > 0 \/ Uploading(e) # {}

Idle(w) ==
    /\ step' = [step EXCEPT ![w] = "idle"]
    /\ at' = [at EXCEPT ![w] = NoEpisode]
    /\ mine' = [mine EXCEPT ![w] = NoFile]
    /\ video' = [video EXCEPT ![w] = NoGuid]

Goto(w, s) == step' = [step EXCEPT ![w] = s] /\ UNCHANGED <<at, mine, video>>

Enqueue(e) == queue' = [queue EXCEPT ![e] = @ + 1]

\* Tasks beyond MaxNews would find the same row as the ones that wait.
Announce(S) ==
    news' = [e \in Episode |-> IF e \in S /\ news[e] < MaxNews THEN news[e] + 1
                                                             ELSE news[e]]

-----------------------------------------------------------------------------
(* The admin                                                               *)

\* The form, of the episode or among those of its movie, shows the GUID in a text field.
OpenPage(a, e) ==
    /\ page[a].step # "save"
    /\ page' = [page EXCEPT ![a] = [NoPage EXCEPT !.step = "open", !.episode = e,
                                                  !.guid = guid[e]]]
    /\ UNCHANGED <<row, storage, encoder, queue, jobs, fanout, release, files, crossed,
                   forgotten>>

\* It is sent: the row is loaded, to be saved as a whole.
LoadRow(a) ==
    LET e == page[a].episode IN
    /\ page[a].step = "open"
    /\ page' = [page EXCEPT ![a] = [step |-> "save", episode |-> e, guid |-> page[a].guid,
                                    file |-> file[e], status |-> uploadStatus[e],
                                    notified |-> notified \cap {e}]]
    /\ UNCHANGED <<row, storage, encoder, queue, jobs, fanout, release, files, crossed,
                   forgotten>>

\* The GUIDs a form may bring: the one it showed, none, or that of any video the encoder
\* has, typed in.
FormGuids(a) == {page[a].guid, NoGuid} \cup {g \in Guid : encoding[g] \notin {"none", "created"}}

\* Episode.save() without a new file.
SaveRow(a, g) ==
    LET e == page[a].episode IN
    /\ page[a].step = "save" /\ g \in FormGuids(a)
    /\ Unlocked(e)
    /\ file' = [file EXCEPT ![e] = page[a].file]
    /\ guid' = [guid EXCEPT ![e] = g]
    /\ uploadStatus' = [uploadStatus EXCEPT ![e] = page[a].status]
    /\ notified' = (notified \ {e}) \cup page[a].notified
    /\ page' = [page EXCEPT ![a] = NoPage]
    /\ crossed' = IF UNCHANGED row THEN crossed ELSE crossed \cup {e}
    /\ forgotten' = forgotten \cup (notified \ notified')
    /\ UNCHANGED <<storage, encoder, queue, jobs, news, told, release, files>>

\* With a new file, whose name was never used.
Attach(a, f, g) ==
    LET e == page[a].episode IN
    /\ page[a].step = "save" /\ g \in FormGuids(a)
    /\ \A d \in Episode : f \notin attached[d]
    /\ queue[e] < MaxTasks /\ Unlocked(e)
    /\ file' = [file EXCEPT ![e] = f]
    /\ guid' = [guid EXCEPT ![e] = g]
    /\ uploadStatus' = [uploadStatus EXCEPT ![e] = "uploading"]
    /\ notified' = (notified \ {e}) \cup page[a].notified
    /\ storage' = storage \cup {f}
    /\ Enqueue(e)
    /\ page' = [page EXCEPT ![a] = NoPage]
    /\ latest' = [latest EXCEPT ![e] = f]
    /\ attached' = [attached EXCEPT ![e] = @ \cup {f}]
    /\ crossed' = IF Busy(e) \/ g # NoGuid THEN crossed \cup {e} ELSE crossed
    /\ forgotten' = forgotten \cup (notified \ notified')
    /\ UNCHANGED <<encoder, jobs, news, told, release>>

\* retry_bunny_upload
RetryUpload(e) ==
    /\ file[e] # NoFile
    /\ queue[e] < MaxTasks /\ Unlocked(e)
    /\ guid' = [guid EXCEPT ![e] = NoGuid]
    /\ uploadStatus' = [uploadStatus EXCEPT ![e] = "uploading"]
    /\ Enqueue(e)
    /\ crossed' = IF Busy(e) THEN crossed \cup {e} ELSE crossed
    /\ UNCHANGED <<file, storage, encoder, jobs, fanout, release, page, files, forgotten>>

\* refresh_bunny_status
RefreshStatus(e) ==
    /\ file[e] # NoFile /\ guid[e] # NoGuid
    /\ queue[e] < MaxTasks
    /\ Enqueue(e)
    /\ UNCHANGED <<row, storage, encoder, jobs, fanout, release, marks>>

\* publish_movies, unpublish_movies and the status field of the movie's page.
SetStatus(s) ==
    /\ movie # s
    /\ movie' = s
    /\ due' = FALSE
    /\ UNCHANGED <<row, storage, encoder, queue, jobs, fanout, marks>>

ComesDue ==
    /\ movie = "scheduled" /\ ~due
    /\ due' = TRUE
    /\ UNCHANGED <<row, storage, encoder, queue, jobs, fanout, movie, marks>>

publish_scheduled_movies ==
    /\ movie = "scheduled" /\ due
    /\ movie' = "published"
    /\ UNCHANGED <<row, storage, encoder, queue, jobs, fanout, due, marks>>

-----------------------------------------------------------------------------
(* process_video_upload                                                    *)

\* The task reads the row.  Without a file there is nothing to do.
Take(w, e) ==
    /\ step[w] = "idle" /\ queue[e] > 0
    /\ queue' = [queue EXCEPT ![e] = @ - 1]
    /\ IF file[e] = NoFile
       THEN UNCHANGED jobs
       ELSE /\ step' = [step EXCEPT ![w] = IF guid[e] = NoGuid THEN "new" ELSE "poll"]
            /\ at' = [at EXCEPT ![w] = e]
            /\ mine' = [mine EXCEPT ![w] = file[e]]
            /\ video' = [video EXCEPT ![w] = guid[e]]
    /\ UNCHANGED <<row, storage, encoder, fanout, release, marks>>

CreateVideo(w, g) ==
    /\ step[w] = "new" /\ encoding[g] = "none"
    /\ encoding' = [encoding EXCEPT ![g] = "created"]
    /\ step' = [step EXCEPT ![w] = "upload"]
    /\ video' = [video EXCEPT ![w] = g]
    /\ UNCHANGED <<row, storage, content, hooks, queue, at, mine, fanout, release, marks>>

\* The file is sent; the encoder starts, and says so.
UploadVideo(w) ==
    /\ step[w] = "upload" /\ mine[w] \in storage
    /\ content' = [content EXCEPT ![video[w]] = mine[w]]
    /\ encoding' = [encoding EXCEPT ![video[w]] = "encoding"]
    /\ hooks' = hooks \cup {<<video[w], "processing">>}
    /\ Goto(w, "store")
    /\ UNCHANGED <<row, storage, queue, fanout, release, marks>>

StoreGuid(w) ==
    /\ step[w] = "store" /\ Unlocked(at[w])
    /\ guid' = [guid EXCEPT ![at[w]] = video[w]]
    /\ uploadStatus' = [uploadStatus EXCEPT ![at[w]] = "processing"]
    /\ Goto(w, "poll")
    /\ UNCHANGED <<file, storage, encoder, queue, fanout, release, marks>>

Finished(code) == code = "finished"

\* get_status
Poll(w) ==
    LET code == encoding[video[w]] IN
    /\ step[w] = "poll"
    /\ \/ code = "error" /\ Goto(w, "failed")
       \/ Finished(code) /\ Goto(w, "finished")
    /\ UNCHANGED <<row, storage, encoder, queue, fanout, release, marks>>

MarkFailed(w) ==
    /\ step[w] = "failed" /\ Unlocked(at[w])
    /\ uploadStatus' = [uploadStatus EXCEPT ![at[w]] = "failed"]
    /\ Idle(w)
    /\ UNCHANGED <<file, guid, storage, encoder, queue, fanout, release, marks>>

\* The local file goes.
DeleteFile(w) ==
    /\ step[w] = "finished"
    /\ storage' = storage \ {mine[w]}
    /\ Goto(w, "deleted")
    /\ UNCHANGED <<row, encoder, queue, fanout, release, marks>>

\* The row is ready, the fan-out is queued.
Finish(w) ==
    /\ step[w] = "deleted" /\ Unlocked(at[w])
    /\ uploadStatus' = [uploadStatus EXCEPT ![at[w]] = "ready"]
    /\ file' = [file EXCEPT ![at[w]] = NoFile]
    /\ Announce({at[w]})
    /\ Idle(w)
    /\ UNCHANGED <<guid, storage, encoder, queue, notified, told, release, marks>>

\* The encoding goes on, or a call fails: the task is queued again.
RetryTask(w) ==
    /\ \/ step[w] = "poll" /\ encoding[video[w]] # "error" /\ ~Finished(encoding[video[w]])
       \/ step[w] \in {"new", "upload", "store"}
    /\ Enqueue(at[w])
    /\ Idle(w)
    /\ UNCHANGED <<row, storage, encoder, fanout, release, marks>>

\* The retries are used up, the worker is killed, or the 30 minutes are over: the
\* message was acknowledged when it was taken, and is gone.
Drop(w) ==
    /\ step[w] # "idle"
    /\ Idle(w)
    /\ UNCHANGED <<row, storage, encoder, queue, fanout, release, marks>>

-----------------------------------------------------------------------------
(* The encoder and its webhook                                             *)

\* Large videos are uploaded by hand, and their GUID is typed in.
UploadByHand(g) ==
    /\ encoding[g] = "none"
    /\ encoding' = [encoding EXCEPT ![g] = "encoding"]
    /\ hooks' = hooks \cup {<<g, "processing">>}
    /\ UNCHANGED <<row, storage, content, queue, jobs, fanout, release, marks>>

Encode(g, code) ==
    /\ encoding[g] = "encoding"
    /\ encoding' = [encoding EXCEPT ![g] = code]
    /\ hooks' = hooks \cup {<<g, code>>}
    /\ UNCHANGED <<row, storage, content, queue, jobs, fanout, release, marks>>

\* Mutant: "finished or beyond" is tried before "error or beyond".
new_status_Unordered(code) == IF code = "processing" THEN "processing" ELSE "ready"

new_status(code) ==
    CASE code = "error"    -> "failed"
      [] code = "finished" -> "ready"
      [] OTHER             -> "processing"

WithGuid(g) == {e \in Episode : guid[e] = g}

bunny_webhook(g, code) ==
    /\ <<g, code>> \in hooks
    /\ WithGuid(g) # {}
    /\ \A e \in WithGuid(g) : Unlocked(e)
    /\ uploadStatus' = [e \in Episode |-> IF e \in WithGuid(g) THEN new_status(code)
                                                              ELSE uploadStatus[e]]
    /\ Announce(IF code = "finished" THEN WithGuid(g) ELSE {})
    /\ UNCHANGED <<file, guid, storage, encoder, queue, jobs, notified, told, release,
                   marks>>

-----------------------------------------------------------------------------
(* notify_new_episode_followers                                            *)

MustTell(e) == e \notin notified /\ movie = "published"

\* The row is locked; an episode that was announced, or a movie that is not
\* published, ends the task.
LockForNews(w, e) ==
    /\ step[w] = "idle" /\ news[e] > 0 /\ Unlocked(e)
    /\ news' = [news EXCEPT ![e] = @ - 1]
    /\ IF MustTell(e)
       THEN /\ step' = [step EXCEPT ![w] = "telling"]
            /\ at' = [at EXCEPT ![w] = e]
            /\ UNCHANGED <<mine, video>>
       ELSE UNCHANGED jobs
    /\ UNCHANGED <<row, storage, encoder, queue, notified, told, release, marks>>

\* followers_notified_at, the notifications and the Telegram tasks commit together.
Tell(w) ==
    /\ step[w] = "telling"
    /\ notified' = notified \cup {at[w]}
    /\ told' = [told EXCEPT ![at[w]] = @ + 1]
    /\ Idle(w)
    /\ UNCHANGED <<row, storage, encoder, queue, news, release, marks>>

-----------------------------------------------------------------------------
VideosNext ==
    \/ \E a \in Editor :
         \/ \E e \in Episode : OpenPage(a, e)
         \/ LoadRow(a)
         \/ \E g \in Guid \cup {NoGuid} : SaveRow(a, g) \/ \E f \in File : Attach(a, f, g)
    \/ \E e \in Episode : RetryUpload(e) \/ RefreshStatus(e)
    \/ \E s \in {"draft", "scheduled", "published"} : SetStatus(s)
    \/ ComesDue
    \/ publish_scheduled_movies
    \/ \E w \in Worker :
         \/ \E e \in Episode : Take(w, e) \/ LockForNews(w, e)
         \/ \E g \in Guid : CreateVideo(w, g)
         \/ UploadVideo(w)
         \/ StoreGuid(w)
         \/ Poll(w)
         \/ MarkFailed(w)
         \/ DeleteFile(w)
         \/ Finish(w)
         \/ RetryTask(w)
         \/ Drop(w)
         \/ Tell(w)
    \/ \E g \in Guid :
         \/ UploadByHand(g)
         \/ \E code \in {"finished", "error"} : Encode(g, code)
         \/ \E code \in {"processing", "finished", "error"} : bunny_webhook(g, code)

VideosSpec == VideosInit /\ [][VideosNext]_videosVars

-----------------------------------------------------------------------------
(* Properties                                                              *)

\* An episode that is ready has a GUID, its video is encoded, and it shows the file
\* attached last, however often tasks are retried, polled twice, or overtaken by
\* webhooks.  Excepted are episodes whose pipeline was started over while it ran, and
\* those whose row was changed by hand: a form that was open meanwhile saves an old GUID
\* under the present status, one typed in plays whatever it names.
ReadyPlaysLatest ==
    \A e \in Episode \ crossed :
        uploadStatus[e] = "ready" =>
            /\ guid[e] # NoGuid
            /\ encoding[guid[e]] = "finished"
            /\ content[guid[e]] = latest[e]

\* The local copy of a file is deleted only when the encoder has it, encoded.
DeletedIsEncoded ==
    \A e \in Episode \ crossed :
        latest[e] \notin storage \cup {NoFile} =>
            \E g \in Guid : content[g] = latest[e] /\ encoding[g] = "finished"

\* What an editor attaches reaches the viewers, unless the row is written over by hand:
\* it plays once the episode is ready, and until the encoder has it the local copy is kept.
UploadsArrive == ReadyPlaysLatest /\ DeletedIsEncoded

\* The followers of an episode are told once, although a webhook and any number of
\* polls set the fan-out off; unless a save that had loaded the row before puts
\* followers_notified_at back to NULL.
ToldOnce == \A e \in Episode \ forgotten : told[e] <= 1
=============================================================================
