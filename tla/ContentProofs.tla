--------------------------- MODULE ContentProofs ----------------------------
(***************************************************************************)
(* What editors and authors make: uploads arrive and followers are told    *)
(* once, likes are counted and reported comments hidden, and nothing older *)
(* than the latest bump is served; for any episodes, users, comments,      *)
(* tabs, workers, lists and bounds. The components share no variable.      *)
(***************************************************************************)
EXTENDS Videos, Reviews, CatalogCache, FiniteSetTheorems, TLAPS

-----------------------------------------------------------------------------
(***************************************************************************)
(* Videos                                                                  *)
(*                                                                         *)
(* A video is filled once, by the task that created it, and its encoding   *)
(* never goes back; a new file starts with no GUID and one task, so that   *)
(* the GUID which ends up in the row is of a video with that file; every   *)
(* later task polls that same video. The fan-out is alone with the row     *)
(* from its look at followers_notified_at to its commit.                   *)
(***************************************************************************)
Step == {"idle", "new", "upload", "store", "poll", "failed", "finished", "deleted", "telling"}
Uploaded == {"encoding", "finished", "error"}

Status == {"none", "uploading", "processing", "ready", "failed"}

Page == [step: {"idle", "open", "save"}, episode: Episode \cup {NoEpisode},
         guid: Guid \cup {NoGuid}, file: File \cup {NoFile}, status: Status,
         notified: SUBSET Episode]

VideosTypeOK ==
    /\ file \in [Episode -> File \cup {NoFile}]
    /\ guid \in [Episode -> Guid \cup {NoGuid}]
    /\ uploadStatus \in [Episode -> Status]
    /\ notified \subseteq Episode
    /\ storage \subseteq File
    /\ content \in [Guid -> File \cup {NoFile}]
    /\ encoding \in [Guid -> {"none", "created"} \cup Uploaded]
    /\ queue \in [Episode -> Nat]
    /\ news \in [Episode -> Nat]
    /\ step \in [Worker -> Step]
    /\ at \in [Worker -> Episode \cup {NoEpisode}]
    /\ mine \in [Worker -> File \cup {NoFile}]
    /\ video \in [Worker -> Guid \cup {NoGuid}]
    /\ told \in [Episode -> Nat]
    /\ page \in [Editor -> Page]
    /\ latest \in [Episode -> File \cup {NoFile}]
    /\ attached \in [Episode -> SUBSET File]
    /\ crossed \subseteq Episode
    /\ forgotten \subseteq Episode

\* What a form shows and a save has loaded was in the row of its episode.
PagesAreTrue ==
    \A a \in Editor :
        /\ page[a].step # "idle" => page[a].episode \in Episode
        /\ page[a].guid # NoGuid => encoding[page[a].guid] \in Uploaded
        /\ page[a].file # NoFile =>
               page[a].episode \in Episode /\ page[a].file \in attached[page[a].episode]
        /\ page[a].notified \ forgotten \subseteq notified
        /\ page[a].notified \subseteq {page[a].episode}

\* What a worker carries at each point of its task.
WorkersAreTyped ==
    \A w \in Worker :
        /\ step[w] = "idle" <=> at[w] = NoEpisode
        /\ step[w] \in Step \ {"idle", "new", "telling"} => video[w] \in Guid
        /\ step[w] \in Step \ {"idle", "telling"} => mine[w] \in File
        /\ step[w] \in {"idle", "telling"} => mine[w] = NoFile

\* A video is filled once, by the task that has created it; a finished one stays so.
VideosGrow ==
    /\ \A w \in Worker : step[w] = "upload" =>
           /\ encoding[video[w]] = "created"
           /\ \A v \in Worker : step[v] = "upload" /\ video[v] = video[w] => v = w
    /\ \A w \in Worker : step[w] = "store" =>
           encoding[video[w]] \in Uploaded /\ content[video[w]] = mine[w]
    /\ \A w \in Worker : step[w] \in {"finished", "deleted"} => encoding[video[w]] = "finished"
    /\ \A e \in Episode : guid[e] # NoGuid => encoding[guid[e]] \in Uploaded

\* A file belongs to one episode.
FilesAreNew ==
    /\ \A e, d \in Episode, f \in File : f \in attached[e] /\ f \in attached[d] => e = d
    /\ \A e \in Episode : latest[e] # NoFile => latest[e] \in attached[e]
    /\ \A e \in Episode : file[e] # NoFile => file[e] \in attached[e]
    /\ \A e \in Episode \ crossed : file[e] \in {NoFile, latest[e]}
    /\ \A w \in Worker : mine[w] # NoFile =>
           at[w] \in Episode /\ mine[w] \in attached[at[w]]

\* As long as an episode has no GUID, it has one task.
TasksAreAlone ==
    \A e \in Episode \ crossed : guid[e] = NoGuid =>
        /\ queue[e] <= 1
        /\ \A w \in Uploading(e) : queue[e] = 0 /\ \A v \in Uploading(e) : v = w

\* Tasks work on what the row says.
TasksAgree ==
    \A w \in Worker : at[w] \in Episode \ crossed =>
        /\ step[w] \in {"new", "upload", "store"} => guid[at[w]] = NoGuid /\ mine[w] = latest[at[w]]
        /\ step[w] \in {"poll", "failed", "finished", "deleted"} => video[w] = guid[at[w]]

GuidsAgree == \A e \in Episode \ crossed : guid[e] # NoGuid => content[guid[e]] = latest[e]

\* The encoder reports what is so.
HooksAreTrue ==
    \A g \in Guid, code \in {"finished", "error"} : <<g, code>> \in hooks => encoding[g] = code

\* Whoever holds an episode's row to tell its followers is alone, and they have not been told.
TellersAreAlone ==
    \A w \in Worker : step[w] = "telling" =>
        /\ at[w] \notin notified
        /\ \A v \in Worker : step[v] = "telling" /\ at[v] = at[w] => v = w

ToldIfNotified ==
    \A e \in Episode \ forgotten : told[e] = IF e \in notified THEN 1 ELSE 0

VideosIInv ==
    /\ VideosTypeOK
    /\ PagesAreTrue
    /\ WorkersAreTyped
    /\ VideosGrow
    /\ FilesAreNew
    /\ TasksAreAlone
    /\ TasksAgree
    /\ GuidsAgree
    /\ HooksAreTrue
    /\ TellersAreAlone
    /\ ToldIfNotified
    /\ ReadyPlaysLatest
    /\ DeletedIsEncoded

-----------------------------------------------------------------------------
\* Nothing is attached, uploading or announced at first.
LEMMA VideosInitHolds == VideosInit => VideosIInv
<1> USE VideosAssumption DEF VideosInit
<1> SUFFICES ASSUME VideosInit PROVE VideosIInv
  OBVIOUS
<1>1. VideosTypeOK
  BY DEF VideosTypeOK, Step, Uploaded, Page, Status, NoPage
<1>2. WorkersAreTyped /\ VideosGrow /\ FilesAreNew
  BY DEF WorkersAreTyped, VideosGrow, FilesAreNew
<1>3. TasksAreAlone /\ TasksAgree /\ GuidsAgree /\ HooksAreTrue
  BY DEF TasksAreAlone, TasksAgree, GuidsAgree, HooksAreTrue, Uploading
<1>4. TellersAreAlone /\ ToldIfNotified
  BY DEF TellersAreAlone, ToldIfNotified
<1>5. ReadyPlaysLatest /\ DeletedIsEncoded
  BY DEF ReadyPlaysLatest, DeletedIsEncoded
<1>6. PagesAreTrue
  BY DEF PagesAreTrue, NoPage
<1>7. QED BY <1>1, <1>2, <1>3, <1>4, <1>5, <1>6 DEF VideosIInv

-----------------------------------------------------------------------------
\* Opening a form and loading a row disturb nothing else.
LEMMA RowUntouched ==
  ASSUME VideosIInv, VideosTypeOK', PagesAreTrue',
         UNCHANGED <<row, storage, encoder, queue, jobs, fanout, release, files, crossed,
                     forgotten>>
  PROVE  VideosIInv'
<1> USE DEF row, encoder, jobs, fanout, release, files
<1>1. WorkersAreTyped' /\ VideosGrow' /\ FilesAreNew' /\ TasksAreAlone' /\ TasksAgree'
  BY DEF VideosIInv, WorkersAreTyped, VideosGrow, FilesAreNew, TasksAreAlone, TasksAgree,
       Uploading
<1>2. GuidsAgree' /\ HooksAreTrue' /\ TellersAreAlone' /\ ToldIfNotified'
  BY DEF VideosIInv, GuidsAgree, HooksAreTrue, TellersAreAlone, ToldIfNotified
<1>3. ReadyPlaysLatest' /\ DeletedIsEncoded'
  BY DEF VideosIInv, ReadyPlaysLatest, DeletedIsEncoded
<1>4. QED BY <1>1, <1>2, <1>3 DEF VideosIInv

\* A form shows the GUID of the row.
LEMMA OpenPageIInv ==
  ASSUME VideosIInv, NEW a \in Editor, NEW e \in Episode, OpenPage(a, e)
  PROVE  VideosIInv'
<1> USE VideosAssumption DEF row, encoder, jobs, fanout, release, files
<1>1. UNCHANGED <<row, storage, encoder, queue, jobs, fanout, release, files, crossed,
                  forgotten>>
  BY DEF OpenPage
<1>2. PICK p : p = [NoPage EXCEPT !.step = "open", !.episode = e, !.guid = guid[e]]
  OBVIOUS
<1>3. page' = [page EXCEPT ![a] = p]
  BY <1>2 DEF OpenPage
<1>4. /\ p.step = "open" /\ p.episode = e /\ p.guid = guid[e] /\ p.file = NoFile
      /\ p.notified = {} /\ p \in Page
  BY <1>2 DEF VideosIInv, VideosTypeOK, Page, Status, NoPage
<1>5. VideosTypeOK'
  BY <1>1, <1>3, <1>4 DEF VideosIInv, VideosTypeOK
<1>6. PagesAreTrue'
  BY <1>1, <1>3, <1>4 DEF VideosIInv, VideosTypeOK, PagesAreTrue, VideosGrow
<1>7. QED BY <1>1, <1>5, <1>6, RowUntouched

\* A save loads the row.
LEMMA LoadRowIInv ==
  ASSUME VideosIInv, NEW a \in Editor, LoadRow(a)
  PROVE  VideosIInv'
<1> USE VideosAssumption DEF row, encoder, jobs, fanout, release, files
<1>1. /\ UNCHANGED <<row, storage, encoder, queue, jobs, fanout, release, files, crossed,
                     forgotten>>
      /\ page[a].step = "open"
  BY DEF LoadRow
<1>2. PICK e : e = page[a].episode
  OBVIOUS
<1>3. e \in Episode /\ page[a].guid \in Guid \cup {NoGuid}
  BY <1>1, <1>2 DEF VideosIInv, VideosTypeOK, PagesAreTrue, Page
<1>4. PICK p : p = [step |-> "save", episode |-> e, guid |-> page[a].guid, file |-> file[e],
                    status |-> uploadStatus[e], notified |-> notified \cap {e}]
  OBVIOUS
<1>5. page' = [page EXCEPT ![a] = p]
  BY <1>2, <1>4 DEF LoadRow
<1>6. /\ p.step = "save" /\ p.episode = e /\ p.guid = page[a].guid /\ p.file = file[e]
      /\ p.notified = notified \cap {e} /\ p \in Page
  BY <1>3, <1>4 DEF VideosIInv, VideosTypeOK, Page
<1>7. VideosTypeOK'
  BY <1>1, <1>5, <1>6 DEF VideosIInv, VideosTypeOK
<1>8. PagesAreTrue'
  BY <1>1, <1>3, <1>5, <1>6 DEF VideosIInv, VideosTypeOK, PagesAreTrue, FilesAreNew
<1>9. QED BY <1>1, <1>7, <1>8, RowUntouched

\* A save without a file puts back what was in the row, under the GUID of the form.
LEMMA SaveRowIInv ==
  ASSUME VideosIInv, NEW a \in Editor, NEW g \in Guid \cup {NoGuid}, SaveRow(a, g)
  PROVE  VideosIInv'
<1> USE VideosAssumption DEF row, encoder, jobs, release, files
<1>1. PICK e, p : e = page[a].episode /\ p = page[a]
  OBVIOUS
<1>2. /\ e \in Episode /\ p \in Page /\ p.episode = e /\ NoPage \in Page
      /\ p.file # NoFile => p.file \in attached[e]
      /\ p.notified \ forgotten \subseteq notified /\ p.notified \subseteq {e}
  BY <1>1 DEF SaveRow, VideosIInv, VideosTypeOK, PagesAreTrue, Page, NoPage, Status
<1>3. /\ UNCHANGED <<storage, encoder, queue, jobs, news, told, release, files>>
      /\ file' = [file EXCEPT ![e] = p.file]
      /\ guid' = [guid EXCEPT ![e] = g]
      /\ uploadStatus' = [uploadStatus EXCEPT ![e] = p.status]
      /\ notified' = (notified \ {e}) \cup p.notified
      /\ page' = [page EXCEPT ![a] = NoPage]
      /\ forgotten' = forgotten \cup (notified \ notified')
      /\ Unlocked(e)
  BY <1>1 DEF SaveRow
<1>4. crossed' = crossed \cup {e} \/ (crossed' = crossed /\ UNCHANGED row)
  BY <1>1 DEF SaveRow
<1>5. g # NoGuid => encoding[g] \in Uploaded
  BY <1>1 DEF SaveRow, FormGuids, VideosIInv, VideosTypeOK, PagesAreTrue, Uploaded
<1>6. VideosTypeOK'
  BY <1>2, <1>3, <1>4 DEF VideosIInv, VideosTypeOK, Page
<1>7. PagesAreTrue'
  BY <1>2, <1>3 DEF VideosIInv, VideosTypeOK, PagesAreTrue, NoPage
<1>8. \A d \in Episode \ crossed' :
         /\ d \in Episode \ crossed
         /\ file'[d] = file[d] /\ guid'[d] = guid[d] /\ uploadStatus'[d] = uploadStatus[d]
  BY <1>3, <1>4 DEF VideosIInv, VideosTypeOK
<1>9. WorkersAreTyped' /\ HooksAreTrue'
  BY <1>3 DEF VideosIInv, WorkersAreTyped, HooksAreTrue
<1>10. VideosGrow'
  BY <1>3, <1>5 DEF VideosIInv, VideosTypeOK, VideosGrow
<1>11. FilesAreNew'
  BY <1>2, <1>3, <1>8 DEF VideosIInv, VideosTypeOK, FilesAreNew
<1>12. TasksAreAlone'
  BY <1>3, <1>8 DEF VideosIInv, TasksAreAlone, Uploading
<1>13. TasksAgree'
  BY <1>3, <1>8 DEF VideosIInv, TasksAgree
<1>14. GuidsAgree'
  BY <1>3, <1>8 DEF VideosIInv, GuidsAgree
<1>15. TellersAreAlone'
  BY <1>2, <1>3 DEF VideosIInv, VideosTypeOK, TellersAreAlone, Unlocked, Page
<1>16. ToldIfNotified'
  BY <1>2, <1>3 DEF VideosIInv, VideosTypeOK, ToldIfNotified, Page
<1>17. ReadyPlaysLatest' /\ DeletedIsEncoded'
  BY <1>3, <1>8 DEF VideosIInv, ReadyPlaysLatest, DeletedIsEncoded
<1>18. QED BY <1>6, <1>7, <1>9, <1>10, <1>11, <1>12, <1>13, <1>14, <1>15, <1>16, <1>17
           DEF VideosIInv

\* A file that is new belongs to one episode, and its upload task is alone unless the episode is crossed.
LEMMA AttachIInv ==
  ASSUME VideosIInv, NEW a \in Editor, NEW f \in File, NEW g \in Guid \cup {NoGuid},
         Attach(a, f, g)
  PROVE  VideosIInv'
<1> USE VideosAssumption DEF encoder, jobs, release
<1>1. PICK e, p : e = page[a].episode /\ p = page[a]
  OBVIOUS
<1>2. /\ e \in Episode /\ p \in Page /\ p.episode = e /\ NoPage \in Page
      /\ p.notified \ forgotten \subseteq notified /\ p.notified \subseteq {e}
  BY <1>1 DEF Attach, VideosIInv, VideosTypeOK, PagesAreTrue, Page, NoPage, Status
<1>3. /\ UNCHANGED <<encoder, jobs, news, told, release>>
      /\ file' = [file EXCEPT ![e] = f]
      /\ guid' = [guid EXCEPT ![e] = g]
      /\ uploadStatus' = [uploadStatus EXCEPT ![e] = "uploading"]
      /\ notified' = (notified \ {e}) \cup p.notified
      /\ storage' = storage \cup {f}
      /\ queue' = [queue EXCEPT ![e] = @ + 1]
      /\ page' = [page EXCEPT ![a] = NoPage]
      /\ latest' = [latest EXCEPT ![e] = f]
      /\ attached' = [attached EXCEPT ![e] = @ \cup {f}]
      /\ forgotten' = forgotten \cup (notified \ notified')
      /\ Unlocked(e)
      /\ \A d \in Episode : f \notin attached[d]
  BY <1>1 DEF Attach, Enqueue
<1>4. \/ crossed' = crossed \cup {e}
      \/ crossed' = crossed /\ g = NoGuid /\ ~(queue[e] > 0) /\ Uploading(e) = {}
  BY <1>1 DEF Attach, Busy
<1>5. g # NoGuid => encoding[g] \in Uploaded
  BY <1>1 DEF Attach, FormGuids, VideosIInv, VideosTypeOK, PagesAreTrue, Uploaded
<1>6. VideosTypeOK'
  BY <1>2, <1>3, <1>4 DEF VideosIInv, VideosTypeOK, Page, Status
<1>7. PagesAreTrue'
  BY <1>2, <1>3 DEF VideosIInv, VideosTypeOK, PagesAreTrue, NoPage, Page
<1>8. \A d \in Episode \ crossed' : d \in Episode \ crossed /\
         (d # e => /\ file'[d] = file[d] /\ guid'[d] = guid[d] /\ latest'[d] = latest[d]
                   /\ uploadStatus'[d] = uploadStatus[d] /\ queue'[d] = queue[d])
  BY <1>3, <1>4 DEF VideosIInv, VideosTypeOK
<1>9. e \notin crossed' => /\ guid'[e] = NoGuid /\ queue'[e] = 1 /\ file'[e] = f
                           /\ latest'[e] = f /\ uploadStatus'[e] = "uploading"
                           /\ \A w \in Worker : at[w] = e => step[w] = "telling"
  BY <1>2, <1>3, <1>4 DEF VideosIInv, VideosTypeOK, Uploading
<1>10. WorkersAreTyped' /\ HooksAreTrue'
  BY <1>3 DEF VideosIInv, WorkersAreTyped, HooksAreTrue
<1>11. VideosGrow'
  BY <1>3, <1>5 DEF VideosIInv, VideosTypeOK, VideosGrow
<1>12. FilesAreNew'
  BY <1>2, <1>3, <1>8, <1>9 DEF VideosIInv, VideosTypeOK, FilesAreNew
<1>13. TasksAreAlone'
  <2> SUFFICES ASSUME NEW d \in Episode \ crossed', guid'[d] = NoGuid
               PROVE  /\ queue'[d] <= 1
                      /\ \A w \in Uploading(d)' : queue'[d] = 0 /\ \A v \in Uploading(d)' : v = w
    BY DEF TasksAreAlone
  <2>1. Uploading(d)' = Uploading(d)
    BY <1>3 DEF Uploading
  <2>2. CASE d = e
    BY <1>9, <2>1, <2>2 DEF Uploading
  <2>3. CASE d # e
    BY <1>8, <2>1, <2>3 DEF VideosIInv, TasksAreAlone
  <2> QED
    BY <2>2, <2>3
<1>14. TasksAgree'
  BY <1>3, <1>8, <1>9 DEF VideosIInv, TasksAgree
<1>15. GuidsAgree'
  BY <1>3, <1>8, <1>9 DEF VideosIInv, GuidsAgree
<1>16. TellersAreAlone'
  BY <1>2, <1>3 DEF VideosIInv, VideosTypeOK, TellersAreAlone, Unlocked, Page
<1>17. ToldIfNotified'
  BY <1>2, <1>3 DEF VideosIInv, VideosTypeOK, ToldIfNotified, Page
<1>18. ReadyPlaysLatest'
  BY <1>3, <1>8, <1>9 DEF VideosIInv, ReadyPlaysLatest
<1>19. DeletedIsEncoded'
  BY <1>3, <1>8, <1>9 DEF VideosIInv, VideosTypeOK, DeletedIsEncoded
<1>20. QED BY <1>6, <1>7, <1>10, <1>11, <1>12, <1>13, <1>14, <1>15, <1>16, <1>17, <1>18, <1>19
           DEF VideosIInv

\* A retry gives up the GUID; alone, it leaves one task.
LEMMA RetryUploadIInv ==
  ASSUME VideosIInv, NEW e \in Episode, RetryUpload(e)
  PROVE  VideosIInv'
<1> USE VideosAssumption DEF RetryUpload, Enqueue, Busy, Uploading, encoder, jobs,
       fanout, release, files
<1>1. VideosTypeOK'
  BY DEF VideosIInv, VideosTypeOK, WorkersAreTyped, Uploaded, Step, Status
<1>2. VideosGrow'
  BY DEF VideosIInv, VideosGrow, VideosTypeOK, WorkersAreTyped, Uploaded, Step
<1>3. TasksAreAlone'
  BY DEF VideosIInv, TasksAreAlone, VideosTypeOK, WorkersAreTyped, Uploaded, Step, TasksAgree
<1>4. TasksAgree'
  BY DEF VideosIInv, TasksAgree, VideosTypeOK, WorkersAreTyped, Uploaded, Step, TasksAreAlone,
       FilesAreNew
<1>5. GuidsAgree'
  BY DEF VideosIInv, GuidsAgree, VideosTypeOK, WorkersAreTyped, Uploaded, Step, VideosGrow,
       TasksAgree
<1>6. ReadyPlaysLatest'
  BY DEF VideosIInv, ReadyPlaysLatest, VideosTypeOK, WorkersAreTyped, Uploaded, Step,
       VideosGrow, TasksAgree, GuidsAgree, HooksAreTrue
<1>7. DeletedIsEncoded'
  BY DEF VideosIInv, DeletedIsEncoded, VideosTypeOK, WorkersAreTyped, Uploaded, Step,
       VideosGrow, FilesAreNew, TasksAgree, GuidsAgree, HooksAreTrue
<1>8. WorkersAreTyped' /\ FilesAreNew' /\ HooksAreTrue' /\ TellersAreAlone' /\
       ToldIfNotified'
  BY DEF VideosIInv, WorkersAreTyped, FilesAreNew, HooksAreTrue, TellersAreAlone, ToldIfNotified
<1>9. PagesAreTrue'
  BY DEF VideosIInv, PagesAreTrue, VideosTypeOK, Page, Uploaded
<1>10. QED BY <1>1, <1>2, <1>3, <1>4, <1>5, <1>6, <1>7, <1>8, <1>9 DEF VideosIInv

\* A refresh queues a task that polls.
LEMMA RefreshStatusIInv ==
  ASSUME VideosIInv, NEW e \in Episode, RefreshStatus(e)
  PROVE  VideosIInv'
<1> USE VideosAssumption DEF RefreshStatus, Enqueue, row, encoder, jobs, fanout,
       release, marks, files
<1>1. VideosTypeOK'
  BY DEF VideosIInv, VideosTypeOK, WorkersAreTyped, Uploaded, Step, Status
<1>2. TasksAreAlone'
  BY DEF VideosIInv, TasksAreAlone, VideosTypeOK, WorkersAreTyped, Uploaded, Step, TasksAgree,
       Uploading
<1>3. WorkersAreTyped' /\ VideosGrow' /\ FilesAreNew' /\ TasksAgree' /\ GuidsAgree' /\
       HooksAreTrue' /\ TellersAreAlone' /\ ToldIfNotified' /\ ReadyPlaysLatest' /\
       DeletedIsEncoded'
  BY DEF VideosIInv, WorkersAreTyped, VideosGrow, FilesAreNew, TasksAgree, GuidsAgree,
       HooksAreTrue, TellersAreAlone, ToldIfNotified, ReadyPlaysLatest, DeletedIsEncoded
<1>4. PagesAreTrue'
  BY DEF VideosIInv, PagesAreTrue, VideosTypeOK, Page, Uploaded
<1>5. QED BY <1>1, <1>2, <1>3, <1>4 DEF VideosIInv

\* The movie's status matters to the fan-out only.
LEMMA SetStatusIInv ==
  ASSUME VideosIInv, NEW s \in {"draft", "scheduled", "published"}, SetStatus(s)
  PROVE  VideosIInv'
<1> USE VideosAssumption DEF SetStatus, row, encoder, jobs, fanout, marks, files
<1>1. VideosTypeOK' /\ WorkersAreTyped' /\ VideosGrow' /\ FilesAreNew' /\ TasksAreAlone'
       /\ TasksAgree' /\ GuidsAgree' /\ HooksAreTrue' /\ TellersAreAlone' /\ ToldIfNotified' /\
       ReadyPlaysLatest' /\ DeletedIsEncoded'
  BY DEF VideosIInv, VideosTypeOK, WorkersAreTyped, VideosGrow, FilesAreNew, TasksAreAlone,
       TasksAgree, GuidsAgree, HooksAreTrue, TellersAreAlone, ToldIfNotified, ReadyPlaysLatest,
       DeletedIsEncoded, Uploading
<1>2. PagesAreTrue'
  BY DEF VideosIInv, PagesAreTrue, VideosTypeOK, Page, Uploaded
<1>3. QED BY <1>1, <1>2 DEF VideosIInv

\* So does its time,
LEMMA ComesDueIInv ==
  ASSUME VideosIInv, ComesDue
  PROVE  VideosIInv'
<1> USE VideosAssumption DEF ComesDue, row, encoder, jobs, fanout, marks, files
<1>1. VideosTypeOK' /\ WorkersAreTyped' /\ VideosGrow' /\ FilesAreNew' /\ TasksAreAlone'
       /\ TasksAgree' /\ GuidsAgree' /\ HooksAreTrue' /\ TellersAreAlone' /\ ToldIfNotified' /\
       ReadyPlaysLatest' /\ DeletedIsEncoded'
  BY DEF VideosIInv, VideosTypeOK, WorkersAreTyped, VideosGrow, FilesAreNew, TasksAreAlone,
       TasksAgree, GuidsAgree, HooksAreTrue, TellersAreAlone, ToldIfNotified, ReadyPlaysLatest,
       DeletedIsEncoded, Uploading
<1>2. PagesAreTrue'
  BY DEF VideosIInv, PagesAreTrue, VideosTypeOK, Page, Uploaded
<1>3. QED BY <1>1, <1>2 DEF VideosIInv

\* and its publication.
LEMMA publish_scheduled_moviesIInv ==
  ASSUME VideosIInv, publish_scheduled_movies
  PROVE  VideosIInv'
<1> USE VideosAssumption DEF publish_scheduled_movies, row, encoder, jobs, fanout, marks, files
<1>1. VideosTypeOK' /\ WorkersAreTyped' /\ VideosGrow' /\ FilesAreNew' /\ TasksAreAlone'
       /\ TasksAgree' /\ GuidsAgree' /\ HooksAreTrue' /\ TellersAreAlone' /\ ToldIfNotified' /\
       ReadyPlaysLatest' /\ DeletedIsEncoded'
  BY DEF VideosIInv, VideosTypeOK, WorkersAreTyped, VideosGrow, FilesAreNew, TasksAreAlone,
       TasksAgree, GuidsAgree, HooksAreTrue, TellersAreAlone, ToldIfNotified, ReadyPlaysLatest,
       DeletedIsEncoded, Uploading
<1>2. PagesAreTrue'
  BY DEF VideosIInv, PagesAreTrue, VideosTypeOK, Page, Uploaded
<1>3. QED BY <1>1, <1>2 DEF VideosIInv

\* A worker takes over what the row says.
LEMMA TakeIInv ==
  ASSUME VideosIInv, NEW w \in Worker, NEW e \in Episode, Take(w, e)
  PROVE  VideosIInv'
<1> USE VideosAssumption DEF Take, row, encoder, jobs, fanout, release, marks, files
<1>1. VideosTypeOK'
  BY DEF VideosIInv, VideosTypeOK, WorkersAreTyped, Uploaded, Step, Status
<1>2. WorkersAreTyped'
  BY DEF VideosIInv, WorkersAreTyped, VideosTypeOK, Uploaded, Step
<1>3. VideosGrow'
  BY DEF VideosIInv, VideosGrow, VideosTypeOK, WorkersAreTyped, Uploaded, Step
<1>4. FilesAreNew'
  BY DEF VideosIInv, FilesAreNew, VideosTypeOK, WorkersAreTyped, Uploaded, Step
<1>5. TasksAreAlone'
  BY DEF VideosIInv, TasksAreAlone, VideosTypeOK, WorkersAreTyped, Uploaded, Step, TasksAgree,
       Uploading
<1>6. TasksAgree'
  BY DEF VideosIInv, TasksAgree, VideosTypeOK, WorkersAreTyped, Uploaded, Step, TasksAreAlone,
       FilesAreNew, Uploading
<1>7. TellersAreAlone'
  BY DEF VideosIInv, TellersAreAlone, VideosTypeOK, WorkersAreTyped, Uploaded, Step
<1>8. GuidsAgree' /\ HooksAreTrue' /\ ToldIfNotified' /\ ReadyPlaysLatest' /\
       DeletedIsEncoded'
  BY DEF VideosIInv, GuidsAgree, HooksAreTrue, ToldIfNotified, ReadyPlaysLatest,
       DeletedIsEncoded
<1>9. PagesAreTrue'
  BY DEF VideosIInv, PagesAreTrue, VideosTypeOK, Page, Uploaded
<1>10. QED BY <1>1, <1>2, <1>3, <1>4, <1>5, <1>6, <1>7, <1>8, <1>9 DEF VideosIInv

\* A created video is nobody else's.
LEMMA CreateVideoIInv ==
  ASSUME VideosIInv, NEW w \in Worker, NEW g \in Guid, CreateVideo(w, g)
  PROVE  VideosIInv'
<1> USE VideosAssumption DEF CreateVideo, row, fanout, release, marks, files
<1>1. VideosTypeOK'
  BY DEF VideosIInv, VideosTypeOK, WorkersAreTyped, Uploaded, Step, Status
<1>2. WorkersAreTyped'
  BY DEF VideosIInv, WorkersAreTyped, VideosTypeOK, Uploaded, Step
<1>3. VideosGrow'
  BY DEF VideosIInv, VideosGrow, VideosTypeOK, WorkersAreTyped, Uploaded, Step
<1>4. TasksAreAlone'
  BY DEF VideosIInv, TasksAreAlone, VideosTypeOK, WorkersAreTyped, Uploaded, Step, TasksAgree,
       Uploading
<1>5. TasksAgree'
  BY DEF VideosIInv, TasksAgree, VideosTypeOK, WorkersAreTyped, Uploaded, Step, TasksAreAlone,
       FilesAreNew, Uploading
<1>6. HooksAreTrue'
  <2> SUFFICES ASSUME NEW h \in Guid, NEW c \in {"finished", "error"}, <<h, c>> \in hooks
               PROVE  encoding'[h] = c
    BY DEF HooksAreTrue
  <2>1. encoding[h] = c
    BY DEF VideosIInv, HooksAreTrue
  <2>2. QED BY <2>1 DEF VideosIInv, VideosTypeOK
<1>7. TellersAreAlone'
  BY DEF VideosIInv, TellersAreAlone, VideosTypeOK, WorkersAreTyped, Uploaded, Step
<1>8. ReadyPlaysLatest'
  BY DEF VideosIInv, ReadyPlaysLatest, VideosTypeOK, WorkersAreTyped, Uploaded, Step,
       VideosGrow, TasksAgree, GuidsAgree, HooksAreTrue
<1>9. DeletedIsEncoded'
  BY DEF VideosIInv, DeletedIsEncoded, VideosTypeOK, WorkersAreTyped, Uploaded, Step,
       VideosGrow, FilesAreNew, TasksAgree, GuidsAgree, HooksAreTrue
<1>10. FilesAreNew' /\ GuidsAgree' /\ ToldIfNotified'
  BY DEF VideosIInv, FilesAreNew, GuidsAgree, ToldIfNotified
<1>11. PagesAreTrue'
  BY DEF VideosIInv, PagesAreTrue, VideosTypeOK, Page, Uploaded
<1>12. QED BY <1>1, <1>2, <1>3, <1>4, <1>5, <1>6, <1>7, <1>8, <1>9, <1>10, <1>11 DEF VideosIInv

\* It is filled with the worker's file.
LEMMA UploadVideoIInv ==
  ASSUME VideosIInv, NEW w \in Worker, UploadVideo(w)
  PROVE  VideosIInv'
<1> USE VideosAssumption DEF UploadVideo, Goto, row, fanout, release, marks, files
<1>1. VideosTypeOK'
  BY DEF VideosIInv, VideosTypeOK, WorkersAreTyped, Uploaded, Step, Status
<1>2. WorkersAreTyped'
  BY DEF VideosIInv, WorkersAreTyped, VideosTypeOK, Uploaded, Step
<1>3. VideosGrow'
  BY DEF VideosIInv, VideosGrow, VideosTypeOK, WorkersAreTyped, Uploaded, Step
<1>4. TasksAreAlone'
  BY DEF VideosIInv, TasksAreAlone, VideosTypeOK, WorkersAreTyped, Uploaded, Step, TasksAgree,
       Uploading
<1>5. TasksAgree'
  BY DEF VideosIInv, TasksAgree, VideosTypeOK, WorkersAreTyped, Uploaded, Step, TasksAreAlone,
       FilesAreNew, Uploading
<1>6. GuidsAgree'
  BY DEF VideosIInv, GuidsAgree, VideosTypeOK, WorkersAreTyped, Uploaded, Step, VideosGrow,
       TasksAgree
<1>7. HooksAreTrue'
  <2> SUFFICES ASSUME NEW h \in Guid, NEW c \in {"finished", "error"}, <<h, c>> \in hooks'
               PROVE  encoding'[h] = c
    BY DEF HooksAreTrue
  <2>1. <<h, c>> \in hooks
    OBVIOUS
  <2>2. encoding[h] = c
    BY <2>1 DEF VideosIInv, HooksAreTrue
  <2>3. QED BY <2>2 DEF VideosIInv, VideosTypeOK, VideosGrow
<1>8. TellersAreAlone'
  BY DEF VideosIInv, TellersAreAlone, VideosTypeOK, WorkersAreTyped, Uploaded, Step
<1>9. ReadyPlaysLatest'
  BY DEF VideosIInv, ReadyPlaysLatest, VideosTypeOK, WorkersAreTyped, Uploaded, Step,
       VideosGrow, TasksAgree, GuidsAgree, HooksAreTrue
<1>10. DeletedIsEncoded'
  BY DEF VideosIInv, DeletedIsEncoded, VideosTypeOK, WorkersAreTyped, Uploaded, Step,
       VideosGrow, FilesAreNew, TasksAgree, GuidsAgree, HooksAreTrue
<1>11. FilesAreNew' /\ ToldIfNotified'
  BY DEF VideosIInv, FilesAreNew, ToldIfNotified
<1>12. PagesAreTrue'
  BY DEF VideosIInv, PagesAreTrue, VideosTypeOK, Page, Uploaded
<1>13. QED BY <1>1, <1>2, <1>3, <1>4, <1>5, <1>6, <1>7, <1>8, <1>9, <1>10, <1>11, <1>12 DEF VideosIInv

\* The GUID stored is of a video with that file.
LEMMA StoreGuidIInv ==
  ASSUME VideosIInv, NEW w \in Worker, StoreGuid(w)
  PROVE  VideosIInv'
<1> USE VideosAssumption DEF StoreGuid, Goto, encoder, fanout, release, marks, files
<1>1. VideosTypeOK'
  BY DEF VideosIInv, VideosTypeOK, WorkersAreTyped, Uploaded, Step, Status
<1>2. WorkersAreTyped'
  BY DEF VideosIInv, WorkersAreTyped, VideosTypeOK, Uploaded, Step
<1>3. VideosGrow'
  BY DEF VideosIInv, VideosGrow, VideosTypeOK, WorkersAreTyped, Uploaded, Step
<1>4. TasksAreAlone'
  BY DEF VideosIInv, TasksAreAlone, VideosTypeOK, WorkersAreTyped, Uploaded, Step, TasksAgree,
       Uploading
<1>5. TasksAgree'
  BY DEF VideosIInv, TasksAgree, VideosTypeOK, WorkersAreTyped, Uploaded, Step, TasksAreAlone,
       FilesAreNew, Uploading
<1>6. GuidsAgree'
  BY DEF VideosIInv, GuidsAgree, VideosTypeOK, WorkersAreTyped, Uploaded, Step, VideosGrow,
       TasksAgree
<1>7. TellersAreAlone'
  BY DEF VideosIInv, TellersAreAlone, VideosTypeOK, WorkersAreTyped, Uploaded, Step
<1>8. ReadyPlaysLatest'
  BY DEF VideosIInv, ReadyPlaysLatest, VideosTypeOK, WorkersAreTyped, Uploaded, Step,
       VideosGrow, TasksAgree, GuidsAgree, HooksAreTrue
<1>9. FilesAreNew' /\ HooksAreTrue' /\ ToldIfNotified' /\ DeletedIsEncoded'
  BY DEF VideosIInv, FilesAreNew, HooksAreTrue, ToldIfNotified, DeletedIsEncoded
<1>10. PagesAreTrue'
  BY DEF VideosIInv, PagesAreTrue, VideosTypeOK, Page, Uploaded
<1>11. QED BY <1>1, <1>2, <1>3, <1>4, <1>5, <1>6, <1>7, <1>8, <1>9, <1>10 DEF VideosIInv

\* A poll learns what is so.
LEMMA PollIInv ==
  ASSUME VideosIInv, NEW w \in Worker, Poll(w)
  PROVE  VideosIInv'
<1> USE VideosAssumption DEF Poll, Goto, Finished, row, encoder, fanout, release, marks, files
<1>1. VideosTypeOK'
  BY DEF VideosIInv, VideosTypeOK, WorkersAreTyped, Uploaded, Step, Status
<1>2. WorkersAreTyped'
  BY DEF VideosIInv, WorkersAreTyped, VideosTypeOK, Uploaded, Step
<1>3. VideosGrow'
  BY DEF VideosIInv, VideosGrow, VideosTypeOK, WorkersAreTyped, Uploaded, Step
<1>4. TasksAreAlone'
  BY DEF VideosIInv, TasksAreAlone, VideosTypeOK, WorkersAreTyped, Uploaded, Step, TasksAgree,
       Uploading
<1>5. TasksAgree'
  BY DEF VideosIInv, TasksAgree, VideosTypeOK, WorkersAreTyped, Uploaded, Step, TasksAreAlone,
       FilesAreNew, Uploading
<1>6. TellersAreAlone'
  BY DEF VideosIInv, TellersAreAlone, VideosTypeOK, WorkersAreTyped, Uploaded, Step
<1>7. FilesAreNew' /\ GuidsAgree' /\ HooksAreTrue' /\ ToldIfNotified' /\
       ReadyPlaysLatest' /\ DeletedIsEncoded'
  BY DEF VideosIInv, FilesAreNew, GuidsAgree, HooksAreTrue, ToldIfNotified, ReadyPlaysLatest,
       DeletedIsEncoded
<1>8. PagesAreTrue'
  BY DEF VideosIInv, PagesAreTrue, VideosTypeOK, Page, Uploaded
<1>9. QED BY <1>1, <1>2, <1>3, <1>4, <1>5, <1>6, <1>7, <1>8 DEF VideosIInv

\* A failed episode is not ready.
LEMMA MarkFailedIInv ==
  ASSUME VideosIInv, NEW w \in Worker, MarkFailed(w)
  PROVE  VideosIInv'
<1> USE VideosAssumption DEF MarkFailed, Idle, encoder, fanout, release, marks, files
<1>1. VideosTypeOK'
  BY DEF VideosIInv, VideosTypeOK, WorkersAreTyped, Uploaded, Step, Status
<1>2. WorkersAreTyped'
  BY DEF VideosIInv, WorkersAreTyped, VideosTypeOK, Uploaded, Step
<1>3. VideosGrow'
  BY DEF VideosIInv, VideosGrow, VideosTypeOK, WorkersAreTyped, Uploaded, Step
<1>4. FilesAreNew'
  BY DEF VideosIInv, FilesAreNew, VideosTypeOK, WorkersAreTyped, Uploaded, Step
<1>5. TasksAreAlone'
  BY DEF VideosIInv, TasksAreAlone, VideosTypeOK, WorkersAreTyped, Uploaded, Step, TasksAgree,
       Uploading
<1>6. TasksAgree'
  BY DEF VideosIInv, TasksAgree, VideosTypeOK, WorkersAreTyped, Uploaded, Step, TasksAreAlone,
       FilesAreNew, Uploading
<1>7. TellersAreAlone'
  BY DEF VideosIInv, TellersAreAlone, VideosTypeOK, WorkersAreTyped, Uploaded, Step
<1>8. ReadyPlaysLatest'
  BY DEF VideosIInv, ReadyPlaysLatest, VideosTypeOK, WorkersAreTyped, Uploaded, Step,
       VideosGrow, TasksAgree, GuidsAgree, HooksAreTrue
<1>9. GuidsAgree' /\ HooksAreTrue' /\ ToldIfNotified' /\ DeletedIsEncoded'
  BY DEF VideosIInv, GuidsAgree, HooksAreTrue, ToldIfNotified, DeletedIsEncoded
<1>10. PagesAreTrue'
  BY DEF VideosIInv, PagesAreTrue, VideosTypeOK, Page, Uploaded
<1>11. QED BY <1>1, <1>2, <1>3, <1>4, <1>5, <1>6, <1>7, <1>8, <1>9, <1>10 DEF VideosIInv

\* The file deleted is the one the finished video has.
LEMMA DeleteFileIInv ==
  ASSUME VideosIInv, NEW w \in Worker, DeleteFile(w)
  PROVE  VideosIInv'
<1> USE VideosAssumption DEF DeleteFile, Goto, row, encoder, fanout, release, marks, files
<1>1. VideosTypeOK'
  BY DEF VideosIInv, VideosTypeOK, WorkersAreTyped, Uploaded, Step, Status
<1>2. WorkersAreTyped'
  BY DEF VideosIInv, WorkersAreTyped, VideosTypeOK, Uploaded, Step
<1>3. VideosGrow'
  BY DEF VideosIInv, VideosGrow, VideosTypeOK, WorkersAreTyped, Uploaded, Step
<1>4. FilesAreNew'
  BY DEF VideosIInv, FilesAreNew, VideosTypeOK, WorkersAreTyped, Uploaded, Step
<1>5. TasksAreAlone'
  BY DEF VideosIInv, TasksAreAlone, VideosTypeOK, WorkersAreTyped, Uploaded, Step, TasksAgree,
       Uploading
<1>6. TasksAgree'
  BY DEF VideosIInv, TasksAgree, VideosTypeOK, WorkersAreTyped, Uploaded, Step, TasksAreAlone,
       FilesAreNew, Uploading
<1>7. TellersAreAlone'
  BY DEF VideosIInv, TellersAreAlone, VideosTypeOK, WorkersAreTyped, Uploaded, Step
<1>8. ReadyPlaysLatest'
  BY DEF VideosIInv, ReadyPlaysLatest, VideosTypeOK, WorkersAreTyped, Uploaded, Step,
       VideosGrow, TasksAgree, GuidsAgree, HooksAreTrue
<1>9. DeletedIsEncoded'
  BY DEF VideosIInv, DeletedIsEncoded, VideosTypeOK, WorkersAreTyped, Uploaded, Step,
       VideosGrow, FilesAreNew, TasksAgree, GuidsAgree, HooksAreTrue
<1>10. GuidsAgree' /\ HooksAreTrue' /\ ToldIfNotified'
  BY DEF VideosIInv, GuidsAgree, HooksAreTrue, ToldIfNotified
<1>11. PagesAreTrue'
  BY DEF VideosIInv, PagesAreTrue, VideosTypeOK, Page, Uploaded
<1>12. QED BY <1>1, <1>2, <1>3, <1>4, <1>5, <1>6, <1>7, <1>8, <1>9, <1>10, <1>11 DEF VideosIInv

\* The video of a task that has finished is the one the episode plays.
LEMMA FinishIInv ==
  ASSUME VideosIInv, NEW w \in Worker, Finish(w)
  PROVE  VideosIInv'
<1> USE VideosAssumption DEF Finish, Idle, Announce, encoder, release, marks, files
<1>1. VideosTypeOK'
  BY DEF VideosIInv, VideosTypeOK, WorkersAreTyped, Uploaded, Step, Status
<1>2. WorkersAreTyped'
  BY DEF VideosIInv, WorkersAreTyped, VideosTypeOK, Uploaded, Step
<1>3. VideosGrow'
  BY DEF VideosIInv, VideosGrow, VideosTypeOK, WorkersAreTyped, Uploaded, Step
<1>4. FilesAreNew'
  BY DEF VideosIInv, FilesAreNew, VideosTypeOK, WorkersAreTyped, Uploaded, Step
<1>5. TasksAreAlone'
  BY DEF VideosIInv, TasksAreAlone, VideosTypeOK, WorkersAreTyped, Uploaded, Step, TasksAgree,
       Uploading
<1>6. TasksAgree'
  BY DEF VideosIInv, TasksAgree, VideosTypeOK, WorkersAreTyped, Uploaded, Step, TasksAreAlone,
       FilesAreNew, Uploading
<1>7. TellersAreAlone'
  BY DEF VideosIInv, TellersAreAlone, VideosTypeOK, WorkersAreTyped, Uploaded, Step
<1>8. ReadyPlaysLatest'
  BY DEF VideosIInv, ReadyPlaysLatest, VideosTypeOK, WorkersAreTyped, Uploaded, Step,
       VideosGrow, TasksAgree, GuidsAgree, HooksAreTrue
<1>9. DeletedIsEncoded'
  BY DEF VideosIInv, DeletedIsEncoded, VideosTypeOK, WorkersAreTyped, Uploaded, Step,
       VideosGrow, FilesAreNew, TasksAgree, GuidsAgree, HooksAreTrue
<1>10. GuidsAgree' /\ HooksAreTrue' /\ ToldIfNotified'
  BY DEF VideosIInv, GuidsAgree, HooksAreTrue, ToldIfNotified
<1>11. PagesAreTrue'
  BY DEF VideosIInv, PagesAreTrue, VideosTypeOK, Page, Uploaded
<1>12. QED BY <1>1, <1>2, <1>3, <1>4, <1>5, <1>6, <1>7, <1>8, <1>9, <1>10, <1>11 DEF VideosIInv

\* A task queued again is still the only one.
LEMMA RetryTaskIInv ==
  ASSUME VideosIInv, NEW w \in Worker, RetryTask(w)
  PROVE  VideosIInv'
<1> USE VideosAssumption DEF RetryTask, Idle, Enqueue, Finished, row, encoder, fanout,
       release, marks, files
<1>1. VideosTypeOK'
  BY DEF VideosIInv, VideosTypeOK, WorkersAreTyped, Uploaded, Step, Status
<1>2. WorkersAreTyped'
  BY DEF VideosIInv, WorkersAreTyped, VideosTypeOK, Uploaded, Step
<1>3. VideosGrow'
  BY DEF VideosIInv, VideosGrow, VideosTypeOK, WorkersAreTyped, Uploaded, Step
<1>4. FilesAreNew'
  BY DEF VideosIInv, FilesAreNew, VideosTypeOK, WorkersAreTyped, Uploaded, Step
<1>5. TasksAreAlone'
  BY DEF VideosIInv, TasksAreAlone, VideosTypeOK, WorkersAreTyped, Uploaded, Step, TasksAgree,
       Uploading
<1>6. TasksAgree'
  BY DEF VideosIInv, TasksAgree, VideosTypeOK, WorkersAreTyped, Uploaded, Step, TasksAreAlone,
       FilesAreNew, Uploading
<1>7. TellersAreAlone'
  BY DEF VideosIInv, TellersAreAlone, VideosTypeOK, WorkersAreTyped, Uploaded, Step
<1>8. GuidsAgree' /\ HooksAreTrue' /\ ToldIfNotified' /\ ReadyPlaysLatest' /\
       DeletedIsEncoded'
  BY DEF VideosIInv, GuidsAgree, HooksAreTrue, ToldIfNotified, ReadyPlaysLatest,
       DeletedIsEncoded
<1>9. PagesAreTrue'
  BY DEF VideosIInv, PagesAreTrue, VideosTypeOK, Page, Uploaded
<1>10. QED BY <1>1, <1>2, <1>3, <1>4, <1>5, <1>6, <1>7, <1>8, <1>9 DEF VideosIInv

\* A lost task leaves the row as it is.
LEMMA DropIInv ==
  ASSUME VideosIInv, NEW w \in Worker, Drop(w)
  PROVE  VideosIInv'
<1> USE VideosAssumption DEF Drop, Idle, row, encoder, fanout, release, marks, files
<1>1. VideosTypeOK'
  BY DEF VideosIInv, VideosTypeOK, WorkersAreTyped, Uploaded, Step, Status
<1>2. WorkersAreTyped'
  BY DEF VideosIInv, WorkersAreTyped, VideosTypeOK, Uploaded, Step
<1>3. VideosGrow'
  BY DEF VideosIInv, VideosGrow, VideosTypeOK, WorkersAreTyped, Uploaded, Step
<1>4. FilesAreNew'
  BY DEF VideosIInv, FilesAreNew, VideosTypeOK, WorkersAreTyped, Uploaded, Step
<1>5. TasksAreAlone'
  BY DEF VideosIInv, TasksAreAlone, VideosTypeOK, WorkersAreTyped, Uploaded, Step, TasksAgree,
       Uploading
<1>6. TasksAgree'
  BY DEF VideosIInv, TasksAgree, VideosTypeOK, WorkersAreTyped, Uploaded, Step, TasksAreAlone,
       FilesAreNew, Uploading
<1>7. TellersAreAlone'
  BY DEF VideosIInv, TellersAreAlone, VideosTypeOK, WorkersAreTyped, Uploaded, Step
<1>8. GuidsAgree' /\ HooksAreTrue' /\ ToldIfNotified' /\ ReadyPlaysLatest' /\
       DeletedIsEncoded'
  BY DEF VideosIInv, GuidsAgree, HooksAreTrue, ToldIfNotified, ReadyPlaysLatest,
       DeletedIsEncoded
<1>9. PagesAreTrue'
  BY DEF VideosIInv, PagesAreTrue, VideosTypeOK, Page, Uploaded
<1>10. QED BY <1>1, <1>2, <1>3, <1>4, <1>5, <1>6, <1>7, <1>8, <1>9 DEF VideosIInv

\* A video uploaded by hand is none of a task's.
LEMMA UploadByHandIInv ==
  ASSUME VideosIInv, NEW g \in Guid, UploadByHand(g)
  PROVE  VideosIInv'
<1> USE VideosAssumption DEF UploadByHand, row, jobs, fanout, release, marks, files
<1>1. VideosTypeOK'
  BY DEF VideosIInv, VideosTypeOK, Uploaded
<1>2. PagesAreTrue'
  BY DEF VideosIInv, VideosTypeOK, PagesAreTrue, Uploaded
<1>3. VideosGrow'
  BY DEF VideosIInv, VideosGrow, VideosTypeOK, Uploaded
<1>4. HooksAreTrue'
  <2> SUFFICES ASSUME NEW h \in Guid, NEW c \in {"finished", "error"}, <<h, c>> \in hooks'
               PROVE  encoding'[h] = c
    BY DEF HooksAreTrue
  <2>1. <<h, c>> \in hooks
    OBVIOUS
  <2>2. encoding[h] = c
    BY <2>1 DEF VideosIInv, HooksAreTrue
  <2>3. QED BY <2>2 DEF VideosIInv, VideosTypeOK
<1>5. ReadyPlaysLatest'
  BY DEF VideosIInv, ReadyPlaysLatest, VideosTypeOK
<1>6. DeletedIsEncoded'
  BY DEF VideosIInv, DeletedIsEncoded, VideosTypeOK
<1>7. WorkersAreTyped' /\ FilesAreNew' /\ TasksAreAlone' /\ TasksAgree' /\ GuidsAgree'
       /\ TellersAreAlone' /\ ToldIfNotified'
  BY DEF VideosIInv, WorkersAreTyped, FilesAreNew, TasksAreAlone, TasksAgree, GuidsAgree,
       TellersAreAlone, ToldIfNotified, Uploading
<1>8. QED BY <1>1, <1>2, <1>3, <1>4, <1>5, <1>6, <1>7 DEF VideosIInv

\* The encoder's report is true and stays so.
LEMMA EncodeIInv ==
  ASSUME VideosIInv, NEW g \in Guid, NEW code \in {"finished", "error"}, Encode(g, code)
  PROVE  VideosIInv'
<1> USE VideosAssumption DEF Encode, row, jobs, fanout, release, marks, files
<1>1. VideosTypeOK'
  BY DEF VideosIInv, VideosTypeOK, WorkersAreTyped, Uploaded, Step, Status
<1>2. VideosGrow'
  BY DEF VideosIInv, VideosGrow, VideosTypeOK, WorkersAreTyped, Uploaded, Step
<1>3. HooksAreTrue'
  <2> SUFFICES ASSUME NEW h \in Guid, NEW c \in {"finished", "error"}, <<h, c>> \in hooks'
               PROVE  encoding'[h] = c
    BY DEF HooksAreTrue
  <2>1. CASE <<h, c>> \in hooks
    <3>1. encoding[h] = c
      BY <2>1 DEF VideosIInv, HooksAreTrue
    <3>2. QED BY <3>1 DEF VideosIInv, VideosTypeOK
  <2>2. CASE h = g /\ c = code
    BY <2>2 DEF VideosIInv, VideosTypeOK
  <2>3. QED BY <2>1, <2>2
<1>4. ReadyPlaysLatest'
  BY DEF VideosIInv, ReadyPlaysLatest, VideosTypeOK, WorkersAreTyped, Uploaded, Step,
       VideosGrow, TasksAgree, GuidsAgree, HooksAreTrue
<1>5. DeletedIsEncoded'
  BY DEF VideosIInv, DeletedIsEncoded, VideosTypeOK, WorkersAreTyped, Uploaded, Step,
       VideosGrow, FilesAreNew, TasksAgree, GuidsAgree, HooksAreTrue
<1>6. WorkersAreTyped' /\ FilesAreNew' /\ TasksAreAlone' /\ TasksAgree' /\ GuidsAgree'
       /\ TellersAreAlone' /\ ToldIfNotified'
  BY DEF VideosIInv, WorkersAreTyped, FilesAreNew, TasksAreAlone, TasksAgree, GuidsAgree,
       TellersAreAlone, ToldIfNotified, Uploading
<1>7. PagesAreTrue'
  BY DEF VideosIInv, PagesAreTrue, VideosTypeOK, Page, Uploaded
<1>8. QED BY <1>1, <1>2, <1>3, <1>4, <1>5, <1>6, <1>7 DEF VideosIInv

\* What a webhook makes ready is encoded, however late it arrives.
LEMMA bunny_webhookIInv ==
  ASSUME VideosIInv, NEW g \in Guid, NEW code \in {"processing", "finished", "error"},
                      bunny_webhook(g, code)
  PROVE  VideosIInv'
<1> USE VideosAssumption DEF bunny_webhook, Announce, WithGuid, encoder, jobs, release,
       marks, files
<1>1. VideosTypeOK'
  BY DEF VideosIInv, VideosTypeOK, WorkersAreTyped, Uploaded, Step, Status, new_status
<1>2. ReadyPlaysLatest'
  <2> SUFFICES ASSUME NEW e \in Episode \ crossed, uploadStatus'[e] = "ready"
               PROVE  /\ guid[e] # NoGuid /\ encoding[guid[e]] = "finished"
                      /\ content[guid[e]] = latest[e]
    BY DEF ReadyPlaysLatest
  <2>1. CASE guid[e] = g
    <3>1. code = "finished"
      BY <2>1 DEF new_status, VideosIInv, VideosTypeOK
    <3>2. encoding[g] = "finished"
      BY <3>1 DEF VideosIInv, HooksAreTrue
    <3>3. QED BY <2>1, <3>2 DEF VideosIInv, GuidsAgree
  <2>2. CASE guid[e] # g
    <3>1. uploadStatus[e] = "ready"
      BY <2>2
    <3>2. QED BY <3>1 DEF VideosIInv, ReadyPlaysLatest
  <2>3. QED BY <2>1, <2>2
<1>3. WorkersAreTyped' /\ VideosGrow' /\ FilesAreNew' /\ TasksAreAlone' /\ TasksAgree'
       /\ GuidsAgree' /\ HooksAreTrue' /\ TellersAreAlone' /\ ToldIfNotified' /\
       DeletedIsEncoded'
  BY DEF VideosIInv, WorkersAreTyped, VideosGrow, FilesAreNew, TasksAreAlone, TasksAgree,
       GuidsAgree, HooksAreTrue, TellersAreAlone, ToldIfNotified, DeletedIsEncoded, Uploading
<1>4. PagesAreTrue'
  BY DEF VideosIInv, PagesAreTrue, VideosTypeOK, Page, Uploaded
<1>5. QED BY <1>1, <1>2, <1>3, <1>4 DEF VideosIInv

\* Whoever locks the row to tell is alone.
LEMMA LockForNewsIInv ==
  ASSUME VideosIInv, NEW w \in Worker, NEW e \in Episode, LockForNews(w, e)
  PROVE  VideosIInv'
<1> USE VideosAssumption DEF LockForNews, MustTell, Unlocked, row, encoder,
       jobs, release, marks, files
<1>1. VideosTypeOK'
  BY DEF VideosIInv, VideosTypeOK, WorkersAreTyped, Uploaded, Step, Status
<1>2. WorkersAreTyped'
  BY DEF VideosIInv, WorkersAreTyped, VideosTypeOK, Uploaded, Step
<1>3. VideosGrow'
  BY DEF VideosIInv, VideosGrow, VideosTypeOK, WorkersAreTyped, Uploaded, Step
<1>4. FilesAreNew'
  BY DEF VideosIInv, FilesAreNew, VideosTypeOK, WorkersAreTyped, Uploaded, Step
<1>5. TasksAreAlone'
  BY DEF VideosIInv, TasksAreAlone, VideosTypeOK, WorkersAreTyped, Uploaded, Step, TasksAgree,
       Uploading
<1>6. TasksAgree'
  BY DEF VideosIInv, TasksAgree, VideosTypeOK, WorkersAreTyped, Uploaded, Step, TasksAreAlone,
       FilesAreNew, Uploading
<1>7. TellersAreAlone'
  BY DEF VideosIInv, TellersAreAlone, VideosTypeOK, WorkersAreTyped, Uploaded, Step
<1>8. GuidsAgree' /\ HooksAreTrue' /\ ToldIfNotified' /\ ReadyPlaysLatest' /\
       DeletedIsEncoded'
  BY DEF VideosIInv, GuidsAgree, HooksAreTrue, ToldIfNotified, ReadyPlaysLatest,
       DeletedIsEncoded
<1>9. PagesAreTrue'
  BY DEF VideosIInv, PagesAreTrue, VideosTypeOK, Page, Uploaded
<1>10. QED BY <1>1, <1>2, <1>3, <1>4, <1>5, <1>6, <1>7, <1>8, <1>9 DEF VideosIInv

\* The episode is announced and marked together.
LEMMA TellIInv ==
  ASSUME VideosIInv, NEW w \in Worker, Tell(w)
  PROVE  VideosIInv'
<1> USE VideosAssumption DEF Tell, Idle, row, encoder, release, marks, files
<1>1. VideosTypeOK'
  BY DEF VideosIInv, VideosTypeOK, WorkersAreTyped, Uploaded, Step, Status
<1>2. WorkersAreTyped'
  BY DEF VideosIInv, WorkersAreTyped, VideosTypeOK, Uploaded, Step
<1>3. VideosGrow'
  BY DEF VideosIInv, VideosGrow, VideosTypeOK, WorkersAreTyped, Uploaded, Step
<1>4. FilesAreNew'
  BY DEF VideosIInv, FilesAreNew, VideosTypeOK, WorkersAreTyped, Uploaded, Step
<1>5. TasksAreAlone'
  BY DEF VideosIInv, TasksAreAlone, VideosTypeOK, WorkersAreTyped, Uploaded, Step, TasksAgree,
       Uploading
<1>6. TasksAgree'
  BY DEF VideosIInv, TasksAgree, VideosTypeOK, WorkersAreTyped, Uploaded, Step, TasksAreAlone,
       FilesAreNew, Uploading
<1>7. TellersAreAlone'
  BY DEF VideosIInv, TellersAreAlone, VideosTypeOK, WorkersAreTyped, Uploaded, Step
<1>8. ToldIfNotified'
  BY DEF VideosIInv, ToldIfNotified, VideosTypeOK, WorkersAreTyped, Uploaded, Step,
       TellersAreAlone
<1>9. GuidsAgree' /\ HooksAreTrue' /\ ReadyPlaysLatest' /\ DeletedIsEncoded'
  BY DEF VideosIInv, GuidsAgree, HooksAreTrue, ReadyPlaysLatest, DeletedIsEncoded
<1>10. PagesAreTrue'
  BY DEF VideosIInv, PagesAreTrue, VideosTypeOK, Page, Uploaded
<1>11. QED BY <1>1, <1>2, <1>3, <1>4, <1>5, <1>6, <1>7, <1>8, <1>9, <1>10 DEF VideosIInv

-----------------------------------------------------------------------------
\* Every step preserves the invariant.
LEMMA VideosNextHolds == VideosIInv /\ [VideosNext]_videosVars => VideosIInv'
<1> SUFFICES ASSUME VideosIInv, [VideosNext]_videosVars PROVE VideosIInv'
  OBVIOUS
<1>1. ASSUME NEW a \in Editor, NEW f \in File, NEW g \in Guid \cup {NoGuid},
             Attach(a, f, g)
      PROVE  VideosIInv'
  BY <1>1, AttachIInv
<1>2. ASSUME NEW e \in Episode, RetryUpload(e) PROVE VideosIInv'
  BY <1>2, RetryUploadIInv
<1>3. ASSUME NEW e \in Episode, RefreshStatus(e) PROVE VideosIInv'
  BY <1>3, RefreshStatusIInv
<1>4. ASSUME NEW s \in {"draft", "scheduled", "published"}, SetStatus(s) PROVE VideosIInv'
  BY <1>4, SetStatusIInv
<1>5. ASSUME ComesDue PROVE VideosIInv'
  BY <1>5, ComesDueIInv
<1>6. ASSUME publish_scheduled_movies PROVE VideosIInv'
  BY <1>6, publish_scheduled_moviesIInv
<1>7. ASSUME NEW w \in Worker, NEW e \in Episode, Take(w, e) PROVE VideosIInv'
  BY <1>7, TakeIInv
<1>8. ASSUME NEW w \in Worker, NEW g \in Guid, CreateVideo(w, g) PROVE VideosIInv'
  BY <1>8, CreateVideoIInv
<1>9. ASSUME NEW w \in Worker, UploadVideo(w) PROVE VideosIInv'
  BY <1>9, UploadVideoIInv
<1>10. ASSUME NEW w \in Worker, StoreGuid(w) PROVE VideosIInv'
  BY <1>10, StoreGuidIInv
<1>11. ASSUME NEW w \in Worker, Poll(w) PROVE VideosIInv'
  BY <1>11, PollIInv
<1>12. ASSUME NEW w \in Worker, MarkFailed(w) PROVE VideosIInv'
  BY <1>12, MarkFailedIInv
<1>13. ASSUME NEW w \in Worker, Finish(w) PROVE VideosIInv'
  BY <1>13, FinishIInv
<1>14. ASSUME NEW w \in Worker, RetryTask(w) PROVE VideosIInv'
  BY <1>14, RetryTaskIInv
<1>15. ASSUME NEW w \in Worker, Drop(w) PROVE VideosIInv'
  BY <1>15, DropIInv
<1>16. ASSUME NEW g \in Guid, NEW code \in {"finished", "error"}, Encode(g, code)
      PROVE  VideosIInv'
  BY <1>16, EncodeIInv
<1>17. ASSUME NEW g \in Guid, NEW code \in {"processing", "finished", "error"},
                      bunny_webhook(g, code)
      PROVE  VideosIInv'
  BY <1>17, bunny_webhookIInv
<1>18. ASSUME NEW w \in Worker, NEW e \in Episode, LockForNews(w, e) PROVE VideosIInv'
  BY <1>18, LockForNewsIInv
<1>19. ASSUME NEW w \in Worker, Tell(w) PROVE VideosIInv'
  BY <1>19, TellIInv
<1>20. ASSUME NEW a \in Editor, NEW e \in Episode, OpenPage(a, e) PROVE VideosIInv'
  BY <1>20, OpenPageIInv
<1>21. ASSUME NEW a \in Editor, LoadRow(a) PROVE VideosIInv'
  BY <1>21, LoadRowIInv
<1>22. ASSUME NEW a \in Editor, NEW g \in Guid \cup {NoGuid}, SaveRow(a, g)
      PROVE  VideosIInv'
  BY <1>22, SaveRowIInv
<1>23. ASSUME NEW g \in Guid, UploadByHand(g) PROVE VideosIInv'
  BY <1>23, UploadByHandIInv
<1>24. ASSUME NEW w \in Worker, DeleteFile(w) PROVE VideosIInv'
  BY <1>24, DeleteFileIInv
<1>25. CASE UNCHANGED videosVars
  <2> USE <1>25 DEF VideosIInv, videosVars
  <2>1. VideosTypeOK' /\ WorkersAreTyped' /\ VideosGrow' /\ FilesAreNew'
    BY DEF VideosTypeOK, WorkersAreTyped, VideosGrow, FilesAreNew
  <2>2. TasksAreAlone'
    BY DEF TasksAreAlone, Uploading
  <2>3. TasksAgree' /\ GuidsAgree' /\ HooksAreTrue'
    BY DEF TasksAgree, GuidsAgree, HooksAreTrue
  <2>4. TellersAreAlone' /\ ToldIfNotified'
    BY DEF TellersAreAlone, ToldIfNotified
  <2>5. ReadyPlaysLatest' /\ DeletedIsEncoded'
    BY DEF ReadyPlaysLatest, DeletedIsEncoded
  <2>6. PagesAreTrue'
    BY DEF PagesAreTrue
  <2>7. QED BY <2>1, <2>2, <2>3, <2>4, <2>5, <2>6
<1>26. QED
  BY <1>1, <1>2, <1>3, <1>4, <1>5, <1>6, <1>7, <1>8, <1>9, <1>10,
     <1>11, <1>12, <1>13, <1>14, <1>15, <1>16, <1>17, <1>18, <1>19, <1>20,
     <1>21, <1>22, <1>23, <1>24, <1>25
  DEF VideosNext

\* It is an invariant.
LEMMA VideosIsIInv == VideosSpec => []VideosIInv
  BY VideosInitHolds, VideosNextHolds, PTL DEF VideosSpec

-----------------------------------------------------------------------------
\* For any episodes, workers, files and videos: an episode that is ready plays the file
\* attached last, and a local copy is gone only when the encoder has it - unless the
\* pipeline of the episode was started over while it ran.
THEOREM UploadsArriveHolds == VideosSpec => []UploadsArrive
<1>1. VideosIInv => UploadsArrive
  BY DEF VideosIInv, UploadsArrive
<1>2. QED BY <1>1, VideosIsIInv, PTL

\* However many webhooks, polls and workers set the fan-out off, the followers of an
\* episode are told at most once.
THEOREM ToldOnceHolds == VideosSpec => []ToldOnce
<1>1. VideosIInv => ToldOnce
  <2> SUFFICES ASSUME VideosIInv, NEW e \in Episode \ forgotten PROVE told[e] <= 1
    BY DEF ToldOnce
  <2>1. told[e] = 0 \/ told[e] = 1
    BY Zenon DEF VideosIInv, ToldIfNotified
  <2>2. QED BY <2>1, SMT
<1>2. QED BY <1>1, VideosIsIInv, PTL

-----------------------------------------------------------------------------
(***************************************************************************)
(* Reviews                                                                 *)
(*                                                                         *)
(* like_count lags behind the reactions by what the tabs between their two *)
(* statements still owe, so the counted reactions of a comment are finite  *)
(* sets that each step changes by one; a pending report of a comment with  *)
(* enough reports is one that a tab is about to act upon.                  *)
(***************************************************************************)
Altered == edited \cup mishap
Excepted == Altered \cup overtaken

\* A tab and a moderator take different steps, and a tab that is busy has a comment.
StagesFit ==
    /\ \A t \in Tab : /\ stage[t] \in {"idle", "unlike", "lower", "report", "count", "hide"}
                      /\ stage[t] # "idle" => on[t] \in Review
    /\ \A m \in Moderator : stage[m] \in {"idle", "close", "reopen"}

\* Who likes a comment, and who is about to lower its count for a like taken back.
Likers(r) == {u \in User : <<u, r>> \in reactions}
Takers(r) == {t \in Tab : stage[t] = "lower" /\ on[t] = r /\ saw[t]}

\* Hidden are the comments with an accepted report, before the report is accepted.
AcceptedAreHidden ==
    /\ \A r \in Review \ Excepted : Of(r, "accepted") # {} => r \in is_hidden
    /\ \A m \in Moderator : stage[m] = "close" => picked[m] \subseteq is_hidden \cup Excepted

\* A comment at the threshold is hidden, or a tab is on its way to hide it; a tab that
\* found it hidden can rely on it.
PendingAreWatched ==
    /\ \A t \in Tab :
         stage[t] \in {"report", "count"} /\ saw[t] => on[t] \in is_hidden \cup Excepted
    /\ \A r \in Review \ Excepted :
         \/ r \in is_hidden
         \/ Cardinality(Of(r, "pending")) < AUTO_HIDE_THRESHOLD
         \/ \E t \in Tab : on[t] = r /\ stage[t] \in {"count", "hide"}

ReviewsIInv ==
    /\ ReviewsTypeOK /\ StagesFit
    /\ LikesNotOverstated /\ AcceptedAreHidden /\ PendingAreWatched

USE ReviewsAssumption DEF ReviewsAssumption

\* The sets that are counted are finite, also after a step.
LEMMA CountedAreFinite ==
  \A r : /\ IsFiniteSet(Likers(r)) /\ IsFiniteSet(Likers(r)')
         /\ IsFiniteSet(Takers(r)) /\ IsFiniteSet(Takers(r)')
         /\ \A s : IsFiniteSet(Of(r, s)) /\ IsFiniteSet(Of(r, s)')
<1>1. \A S \in SUBSET User : IsFiniteSet(S)
  BY FS_Subset
<1>2. \A S \in SUBSET Tab : IsFiniteSet(S)
  BY FS_Subset
<1>3. \A r : /\ Likers(r) \subseteq User /\ Likers(r)' \subseteq User
             /\ \A s : Of(r, s) \subseteq User /\ Of(r, s)' \subseteq User
  BY DEF Likers, Of
<1>4. \A r : Takers(r) \subseteq Tab /\ Takers(r)' \subseteq Tab
  BY DEF Takers
<1> QED
  BY <1>1, <1>2, <1>3, <1>4

\* LikesNotOverstated counts likers and takers.
LEMMA LikesAreCounted ==
  /\ LikesNotOverstated <=>
       \A r \in Review \ Altered :
         like_count[r] <= Cardinality(Likers(r)) + Cardinality(Takers(r))
  /\ LikesNotOverstated' <=>
       \A r \in Review \ Altered' :
         like_count'[r] <= Cardinality(Likers(r)') + Cardinality(Takers(r)')
  BY DEF LikesNotOverstated, Altered, Likers, Takers

\* Of comments whose count and likers stay, it says no less if no taker leaves.
LEMMA LikesKept ==
  ASSUME ReviewsTypeOK, LikesNotOverstated, Altered \subseteq Altered',
         NEW r \in Review \ Altered',
         like_count'[r] = like_count[r], Likers(r)' = Likers(r),
         Takers(r) \subseteq Takers(r)'
  PROVE  like_count'[r] <= Cardinality(Likers(r)') + Cardinality(Takers(r)')
<1>1. Cardinality(Takers(r)) <= Cardinality(Takers(r)')
  BY CountedAreFinite, FS_Subset
<1>2. /\ Cardinality(Takers(r)) \in Nat /\ Cardinality(Takers(r)') \in Nat
      /\ Cardinality(Likers(r)) \in Nat /\ like_count[r] \in Nat
  BY CountedAreFinite, FS_CardinalityType DEF ReviewsTypeOK
<1>3. like_count[r] <= Cardinality(Likers(r)) + Cardinality(Takers(r))
  BY LikesAreCounted
<1> QED
  BY <1>1, <1>2, <1>3

\* Steps that leave likes and the requests for them alone.
LEMMA LikesUntouched ==
  ASSUME ReviewsIInv, UNCHANGED reactions, Altered \subseteq Altered',
         \A r \in Review \ Altered' : like_count'[r] = like_count[r],
         \A t \in Tab : stage[t] = "lower" =>
            \/ stage'[t] = "lower" /\ on'[t] = on[t] /\ saw'[t] = saw[t]
            \/ on[t] \in Altered'
  PROVE  LikesNotOverstated'
<1>1. ASSUME NEW r \in Review \ Altered'
      PROVE  like_count'[r] <= Cardinality(Likers(r)') + Cardinality(Takers(r)')
  <2>1. Likers(r)' = Likers(r)
    BY DEF Likers
  <2>2. Takers(r) \subseteq Takers(r)'
    BY DEF Takers
  <2> QED
    BY <2>1, <2>2, LikesKept DEF ReviewsIInv
<1> QED
  BY <1>1, LikesAreCounted

\* Nothing is posted, liked or reported at first.
LEMMA ReviewsInitHolds == ReviewsInit => ReviewsIInv
<1> SUFFICES ASSUME ReviewsInit PROVE ReviewsIInv
  OBVIOUS
<1> USE DEF ReviewsInit
<1>1. ReviewsTypeOK
  BY DEF ReviewsTypeOK, Process
<1>2. StagesFit
  BY DEF StagesFit, Process
<1>3. Cardinality({}) = 0
  BY FS_EmptySet
<1>4. \A r \in Review : Of(r, "accepted") = {} /\ Of(r, "pending") = {}
  BY DEF Of
<1>5. \A r \in Review : Cardinality(Of(r, "pending")) < AUTO_HIDE_THRESHOLD
  <2>1. 0 < AUTO_HIDE_THRESHOLD
    OBVIOUS
  <2> QED
    BY <1>3, <1>4, <2>1
<1>6. \A p \in Process : stage[p] = "idle"
  OBVIOUS
<1>7. AcceptedAreHidden
  BY <1>4, <1>6 DEF AcceptedAreHidden, Process
<1>8. PendingAreWatched
  BY <1>5, <1>6 DEF PendingAreWatched, Process
<1>9. ASSUME NEW r \in Review
      PROVE  like_count[r] <= Cardinality(Likers(r)) + Cardinality(Takers(r))
  <2>1. Likers(r) = {}
    BY DEF Likers
  <2>2. Takers(r) = {}
    BY <1>6 DEF Takers, Process
  <2> QED
    BY <1>3, <2>1, <2>2
<1>10. LikesNotOverstated
  BY <1>9, LikesAreCounted
<1> QED
  BY <1>1, <1>2, <1>7, <1>8, <1>10 DEF ReviewsIInv

\* A like is a liker and one more.
LEMMA ToggleStep ==
  ASSUME ReviewsIInv, NEW t \in Tab, NEW r \in Review, ToggleReviewLike(t, r)
  PROVE  ReviewsIInv'
<1> USE DEF ReviewsIInv
<1>1. CASE <<Owner(t), r>> \notin reactions
  <2>1. /\ reactions' = reactions \cup {<<Owner(t), r>>}
        /\ like_count' = [like_count EXCEPT ![r] = @ + 1]
        /\ UNCHANGED <<stage, on, rows, is_hidden, reports, saw, picked, history>>
    BY <1>1 DEF ToggleReviewLike
  <2>2. ReviewsTypeOK'
    BY <2>1 DEF ReviewsTypeOK, rows, history
  <2>3. StagesFit'
    BY <2>1 DEF StagesFit
  <2>4. \A q, s : Of(q, s)' = Of(q, s)
    BY <2>1 DEF Of
  <2>5. AcceptedAreHidden' /\ PendingAreWatched'
    BY <2>1, <2>4 DEF AcceptedAreHidden, PendingAreWatched, Excepted, Altered, history
  <2>6. ASSUME NEW q \in Review \ Altered'
        PROVE  like_count'[q] <= Cardinality(Likers(q)') + Cardinality(Takers(q)')
    <3>1. Altered' = Altered /\ Takers(q)' = Takers(q)
      BY <2>1 DEF Altered, history, Takers
    <3>2. CASE q = r
      <4>1. Likers(r)' = Likers(r) \cup {Owner(t)} /\ Owner(t) \notin Likers(r)
        BY <1>1, <2>1 DEF Likers
      <4>2. Cardinality(Likers(r)') = Cardinality(Likers(r)) + 1
        BY <4>1, CountedAreFinite, FS_AddElement
      <4>3. like_count'[r] = like_count[r] + 1 /\ like_count[r] \in Nat
        BY <2>1 DEF ReviewsTypeOK
      <4>4. like_count[r] <= Cardinality(Likers(r)) + Cardinality(Takers(r))
        BY <3>1, <3>2, LikesAreCounted
      <4>5. Cardinality(Likers(r)) \in Nat /\ Cardinality(Takers(r)) \in Nat
        BY CountedAreFinite, FS_CardinalityType
      <4> QED
        BY <3>1, <3>2, <4>2, <4>3, <4>4, <4>5
    <3>3. CASE q # r
      <4>1. Likers(q)' = Likers(q)
        BY <2>1, <3>3 DEF Likers
      <4>2. like_count'[q] = like_count[q]
        BY <2>1, <3>3 DEF ReviewsTypeOK
      <4> QED
        BY <3>1, <4>1, <4>2, LikesKept
    <3> QED
      BY <3>2, <3>3
  <2>7. LikesNotOverstated'
    BY <2>6, LikesAreCounted
  <2> QED
    BY <2>2, <2>3, <2>5, <2>7
<1>2. CASE <<Owner(t), r>> \in reactions
  <2>1. /\ stage[t] = "idle"
        /\ stage' = [stage EXCEPT ![t] = "unlike"] /\ on' = [on EXCEPT ![t] = r]
        /\ UNCHANGED <<reactions, like_count, rows, is_hidden, reports, saw, picked, history>>
    BY <1>2 DEF ToggleReviewLike
  <2>2. ReviewsTypeOK'
    BY <2>1 DEF ReviewsTypeOK, Process, rows, history
  <2>3. StagesFit'
    BY <2>1 DEF StagesFit, ReviewsTypeOK, Process
  <2>4. \A q, s : Of(q, s)' = Of(q, s)
    BY <2>1 DEF Of
  <2>5. AcceptedAreHidden'
    BY <2>1, <2>4 DEF AcceptedAreHidden, Excepted, Altered, history, ReviewsTypeOK, Process
  <2>6. PendingAreWatched'
    BY <2>1, <2>4 DEF PendingAreWatched, Excepted, Altered, history, ReviewsTypeOK, Process
  <2>7. LikesNotOverstated'
    BY <2>1, LikesUntouched DEF Altered, history, ReviewsTypeOK, Process
  <2> QED
    BY <2>2, <2>3, <2>5, <2>6, <2>7
<1> QED
  BY <1>1, <1>2

\* Taking a like back: the taker is counted for the liker who is gone, and then the
\* count is lowered for the taker.
LEMMA TakeBackStep ==
  ASSUME ReviewsIInv, NEW t \in Tab, Unlike(t) \/ Lower(t)
  PROVE  ReviewsIInv'
<1> USE DEF ReviewsIInv
<1>1. PICK r \in Review : r = on[t] /\ stage[t] \in {"unlike", "lower"}
  BY DEF Unlike, Lower, StagesFit
<1>2. /\ UNCHANGED <<rows, is_hidden, reports, picked, history>>
      /\ saw' \in [Tab -> BOOLEAN]
      /\ \A v \in Tab \ {t} : saw'[v] = saw[v]
      /\ stage' \in [Process -> {"idle", "unlike", "lower", "report", "count", "hide", "close",
                                "reopen"}]
      /\ on' \in [Process -> Review \cup {NoReview}]
      /\ stage'[t] = "idle" \/ (stage'[t] = "lower" /\ on'[t] = r)
      /\ \A p \in Process \ {t} : stage'[p] = stage[p] /\ on'[p] = on[p]
  <2>1. CASE Unlike(t)
    <3>1. \E b \in BOOLEAN : saw' = [saw EXCEPT ![t] = b]
      <4>1. (<<Owner(t), on[t]>> \in reactions) \in BOOLEAN
        OBVIOUS
      <4> QED
        BY <2>1, <4>1, Zenon DEF Unlike
    <3>2. saw' \in [Tab -> BOOLEAN] /\ \A v \in Tab \ {t} : saw'[v] = saw[v]
      BY <3>1 DEF ReviewsTypeOK
    <3>3. /\ stage' = [stage EXCEPT ![t] = "lower"]
          /\ UNCHANGED <<rows, is_hidden, like_count, reports, on, picked, history>>
      BY <2>1 DEF Unlike
    <3>4. /\ stage' \in [Process -> {"idle", "unlike", "lower", "report", "count", "hide",
                                    "close", "reopen"}]
          /\ stage'[t] = "lower" /\ \A p \in Process \ {t} : stage'[p] = stage[p]
      BY <3>3 DEF ReviewsTypeOK, Process
    <3>5. on' \in [Process -> Review \cup {NoReview}] /\ on'[t] = r
      BY <1>1, <3>3 DEF ReviewsTypeOK
    <3> QED
      BY <3>2, <3>3, <3>4, <3>5
  <2>2. CASE Lower(t)
    BY <1>1, <2>2 DEF Lower, Rest, ReviewsTypeOK, Process
  <2> QED
    BY <2>1, <2>2
<1>3. ReviewsTypeOK'
  <2>1. /\ reactions' \subseteq User \X Review
        /\ like_count' \in [Review -> Nat]
    BY <1>1 DEF Unlike, Lower, Lowered, ReviewsTypeOK
  <2> QED
    BY <1>2, <2>1 DEF ReviewsTypeOK, rows, history
<1>4. StagesFit'
  BY <1>1, <1>2 DEF StagesFit, Process
<1>5. \A q, s : Of(q, s)' = Of(q, s)
  BY <1>2 DEF Of
<1>6. AcceptedAreHidden'
  BY <1>2, <1>5 DEF AcceptedAreHidden, Excepted, Altered, history, Process
<1>7. PendingAreWatched'
  <2>1. \A v \in Tab : stage'[v] \in {"report", "count"} => v # t
    BY <1>2
  <2> QED
    BY <1>1, <1>2, <1>5, <2>1 DEF PendingAreWatched, Excepted, Altered, history, Process
<1>8. ASSUME NEW q \in Review \ Altered'
      PROVE  like_count'[q] <= Cardinality(Likers(q)') + Cardinality(Takers(q)')
  <2>1. Altered' = Altered
    BY <1>2 DEF Altered, history
  <2>2. /\ Cardinality(Likers(q)) \in Nat /\ Cardinality(Takers(q)) \in Nat
        /\ Cardinality(Likers(q)') \in Nat /\ Cardinality(Takers(q)') \in Nat
        /\ like_count[q] \in Nat
    BY CountedAreFinite, FS_CardinalityType DEF ReviewsTypeOK
  <2>3. like_count[q] <= Cardinality(Likers(q)) + Cardinality(Takers(q))
    BY <2>1, LikesAreCounted
  <2>4. CASE q # r
    <3>1. like_count'[q] = like_count[q]
      BY <1>1, <2>4 DEF Unlike, Lower, ReviewsTypeOK
    <3>2. Likers(q)' = Likers(q)
      BY <1>1, <2>4 DEF Likers, Unlike, Lower
    <3>3. Takers(q) \subseteq Takers(q)'
      BY <1>1, <1>2, <2>4 DEF Takers, ReviewsTypeOK, Process
    <3> QED
      BY <2>1, <3>1, <3>2, <3>3, LikesKept
  <2>5. CASE q = r /\ Unlike(t) /\ <<Owner(t), r>> \in reactions
    <3>1. Likers(q)' = Likers(q) \ {Owner(t)} /\ Owner(t) \in Likers(q)
      BY <1>1, <2>5 DEF Unlike, Likers
    <3>2. Cardinality(Likers(q)') = Cardinality(Likers(q)) - 1
      BY <3>1, CountedAreFinite, FS_RemoveElement
    <3>6. saw' = [saw EXCEPT ![t] = TRUE] /\ stage'[t] = "lower" /\ on'[t] = q
      BY <1>1, <2>5 DEF Unlike, ReviewsTypeOK, Process
    <3>7. saw'[t]
      BY <3>6 DEF ReviewsTypeOK
    <3>3. Takers(q)' = Takers(q) \cup {t} /\ t \notin Takers(q)
      BY <1>1, <1>2, <2>5, <3>6, <3>7 DEF Unlike, Takers, Process
    <3>4. Cardinality(Takers(q)') = Cardinality(Takers(q)) + 1
      BY <3>3, CountedAreFinite, FS_AddElement
    <3>5. like_count'[q] = like_count[q]
      BY <2>5 DEF Unlike
    <3> QED
      BY <2>2, <2>3, <3>2, <3>4, <3>5
  <2>6. CASE q = r /\ Unlike(t) /\ <<Owner(t), r>> \notin reactions
    <3>1. Likers(q)' = Likers(q)
      BY <1>1, <2>6 DEF Unlike, Likers
    <3>2. Takers(q) \subseteq Takers(q)'
      BY <1>1, <2>6 DEF Unlike, Takers, ReviewsTypeOK, Process
    <3>3. like_count'[q] = like_count[q]
      BY <2>6 DEF Unlike
    <3> QED
      BY <2>1, <3>1, <3>2, <3>3, LikesKept
  <2>7. CASE q = r /\ Lower(t)
    <3>1. Likers(q)' = Likers(q)
      BY <2>7 DEF Lower, Likers
    <3>2. Takers(q)' = Takers(q) \ {t}
      BY <1>1, <2>7 DEF Lower, Rest, Takers, ReviewsTypeOK, Process
    <3>3. Cardinality(Takers(q)') >= Cardinality(Takers(q)) - 1
      <4>1. CASE t \in Takers(q)
        <5>1. Cardinality(Takers(q) \ {t}) = Cardinality(Takers(q)) - 1
          BY <4>1, CountedAreFinite, FS_RemoveElement
        <5> QED
          BY <2>2, <3>2, <5>1
      <4>2. CASE t \notin Takers(q)
        <5>1. Takers(q) \ {t} = Takers(q)
          BY <4>2
        <5>2. Cardinality(Takers(q)') = Cardinality(Takers(q))
          BY <3>2, <5>1
        <5> QED
          BY <2>2, <5>2
      <4> QED
        BY <4>1, <4>2
    <3>4. like_count'[q] = IF like_count[q] > 0 THEN like_count[q] - 1 ELSE 0
      BY <1>1, <2>7 DEF Lower, Lowered, ReviewsTypeOK
    <3> QED
      BY <2>2, <2>3, <3>1, <3>3, <3>4
  <2> QED
    BY <2>4, <2>5, <2>6, <2>7
<1>9. LikesNotOverstated'
  BY <1>8, LikesAreCounted
<1> QED
  BY <1>3, <1>4, <1>6, <1>7, <1>9

\* Posting, and opening a report: the comments that count are the same.
LEMMA PostStep ==
  ASSUME ReviewsIInv, NEW t \in Tab, NEW r \in Review, NEW p \in Review \cup {NoReview},
         AddReview(t, r, p)
  PROVE  ReviewsIInv'
<1> USE DEF ReviewsIInv
<1>1. /\ author' = [author EXCEPT ![r] = Owner(t)]
      /\ parent' = [parent EXCEPT ![r] = IF p = NoReview THEN NoReview ELSE Root(p)]
      /\ answered' \subseteq answered \cup {r}
      /\ UNCHANGED <<is_hidden, like_count, reactions, reports, stage, on, saw, picked,
                     history>>
  BY DEF AddReview
<1>2. ReviewsTypeOK'
  <2>1. p # NoReview => Root(p) \in Review
    BY DEF Root, ReviewsTypeOK
  <2> QED
    BY <1>1, <2>1 DEF ReviewsTypeOK, history
<1>3. StagesFit'
  BY <1>1 DEF StagesFit
<1>4. \A q, s : Of(q, s)' = Of(q, s)
  BY <1>1 DEF Of
<1>5. AcceptedAreHidden' /\ PendingAreWatched'
  BY <1>1, <1>4 DEF AcceptedAreHidden, PendingAreWatched, Excepted, Altered, history
<1>6. LikesNotOverstated'
  BY <1>1, LikesUntouched DEF Altered, history
<1> QED
  BY <1>2, <1>3, <1>5, <1>6

\* A report: the comment is loaded, the report created, the open ones counted.
LEMMA ReportStep ==
  ASSUME ReviewsIInv, NEW t \in Tab,
         \/ \E r \in Review : report_review(t, r)
         \/ CreateReport(t) \/ CountReports(t) \/ Hide(t)
  PROVE  ReviewsIInv'
<1> USE DEF ReviewsIInv
<1>1. stage[t] # "lower" /\ stage[t] # "unlike"
  BY DEF report_review, CreateReport, CountReports, Hide
<1>2. UNCHANGED <<rows, like_count, reactions, picked, history>>
  BY DEF report_review, CreateReport, CountReports, Hide
<1>3. \A v \in Process \ {t} : stage'[v] = stage[v] /\ on'[v] = on[v]
  BY DEF report_review, CreateReport, CountReports, Hide, Rest, ReviewsTypeOK
<1>4. saw' \in [Tab -> BOOLEAN] /\ \A v \in Tab \ {t} : saw'[v] = saw[v]
  <2>1. \E b \in BOOLEAN : saw' = saw \/ saw' = [saw EXCEPT ![t] = b]
    <3>1. ASSUME NEW r \in Review, report_review(t, r)
          PROVE  \E b \in BOOLEAN : saw' = [saw EXCEPT ![t] = b]
      <4>1. (r \in is_hidden) \in BOOLEAN
        OBVIOUS
      <4> QED
        BY <3>1, <4>1, Zenon DEF report_review
    <3>2. CASE CreateReport(t) \/ CountReports(t) \/ Hide(t)
      BY <3>2 DEF CreateReport, CountReports, Hide
    <3> QED
      BY <3>1, <3>2
  <2> QED
    BY <2>1 DEF ReviewsTypeOK
<1>5. LikesNotOverstated'
  BY <1>1, <1>2, <1>3, <1>4, LikesUntouched DEF Altered, history, Process
<1>6. Excepted' = Excepted /\ is_hidden \subseteq is_hidden'
  BY <1>2 DEF Excepted, Altered, history, report_review, CreateReport, CountReports, Hide
<1>7. CASE \E r \in Review : report_review(t, r)
  <2>1. PICK r \in Review : report_review(t, r)
    BY <1>7
  <2>2. /\ stage' = [stage EXCEPT ![t] = "report"] /\ on' = [on EXCEPT ![t] = r]
        /\ UNCHANGED <<is_hidden, reports>>
    BY <2>1 DEF report_review
  <2>3. saw'[t] => r \in is_hidden
    <3>1. saw' = [saw EXCEPT ![t] = (r \in is_hidden)]
      BY <2>1 DEF report_review
    <3> QED
      BY <3>1, Zenon DEF ReviewsTypeOK
  <2>4. ReviewsTypeOK'
    BY <1>2, <1>4, <2>2 DEF ReviewsTypeOK, Process, rows, history
  <2>5. StagesFit'
    BY <2>2 DEF StagesFit, ReviewsTypeOK, Process
  <2>6. \A q, s : Of(q, s)' = Of(q, s)
    BY <2>2 DEF Of
  <2>7. AcceptedAreHidden'
    BY <1>2, <1>3, <1>6, <2>2, <2>6 DEF AcceptedAreHidden, Process
  <2>8. PendingAreWatched'
    <3>1. \A v \in Tab : stage'[v] \in {"report", "count"} /\ saw'[v]
                            => on'[v] \in is_hidden' \cup Excepted'
      BY <1>3, <1>4, <1>6, <2>2, <2>3 DEF PendingAreWatched, ReviewsTypeOK, Process
    <3>2. \A v \in Tab : stage[v] \in {"count", "hide"} => v # t
      BY <2>1 DEF report_review
    <3> QED
      BY <1>3, <1>6, <2>2, <2>6, <3>1, <3>2 DEF PendingAreWatched, Process
  <2> QED
    BY <1>5, <2>4, <2>5, <2>7, <2>8
<1>8. CASE CreateReport(t) /\ reports[on[t]][Owner(t)] # "none"
  <2>1. /\ stage' = [stage EXCEPT ![t] = "idle"] /\ on' = [on EXCEPT ![t] = NoReview]
        /\ stage[t] = "report" /\ UNCHANGED <<is_hidden, reports>>
    BY <1>8 DEF CreateReport, Rest
  <2>2. ReviewsTypeOK'
    BY <1>2, <1>4, <2>1 DEF ReviewsTypeOK, Process, rows, history
  <2>3. StagesFit'
    BY <2>1 DEF StagesFit, ReviewsTypeOK, Process
  <2>4. \A q, s : Of(q, s)' = Of(q, s)
    BY <2>1 DEF Of
  <2>5. AcceptedAreHidden'
    BY <1>2, <1>3, <1>6, <2>1, <2>4 DEF AcceptedAreHidden, Process
  <2>6. PendingAreWatched'
    <3>1. stage'[t] = "idle"
      BY <2>1 DEF ReviewsTypeOK, Process
    <3> QED
      BY <1>3, <1>4, <1>6, <2>1, <2>4, <3>1 DEF PendingAreWatched, Process
  <2> QED
    BY <1>5, <2>2, <2>3, <2>5, <2>6
<1>9. CASE CreateReport(t) /\ reports[on[t]][Owner(t)] = "none"
  <2>1. PICK r \in Review : r = on[t]
    BY <1>9 DEF CreateReport, StagesFit
  <2>2. /\ stage' = [stage EXCEPT ![t] = "count"] /\ UNCHANGED <<on, saw, is_hidden>>
        /\ reports' = [reports EXCEPT ![r][Owner(t)] = "pending"]
        /\ stage[t] = "report"
    BY <1>9, <2>1 DEF CreateReport
  <2>3. ReviewsTypeOK'
    BY <1>2, <1>4, <2>2 DEF ReviewsTypeOK, Process, rows, history
  <2>4. StagesFit'
    BY <2>1, <2>2 DEF StagesFit, ReviewsTypeOK, Process
  <2>5. \A q \in Review : /\ Of(q, "accepted")' \subseteq Of(q, "accepted")
                          /\ q # r => Of(q, "pending")' = Of(q, "pending")
    BY <2>2 DEF Of, ReviewsTypeOK
  <2>6. AcceptedAreHidden'
    BY <1>2, <1>3, <1>6, <2>2, <2>5 DEF AcceptedAreHidden, Process
  <2>7. PendingAreWatched'
    <3>1. stage'[t] = "count" /\ on'[t] = r
      BY <2>1, <2>2 DEF ReviewsTypeOK, Process
    <3> QED
      BY <1>3, <1>4, <1>6, <2>1, <2>2, <2>5, <3>1 DEF PendingAreWatched, Process
  <2> QED
    BY <1>5, <2>3, <2>4, <2>6, <2>7
<1>10. CASE CountReports(t)
  <2>1. PICK r \in Review : r = on[t]
    BY <1>10 DEF CountReports, StagesFit
  <2>2. /\ stage[t] = "count" /\ UNCHANGED <<is_hidden, reports>>
        /\ \/ stage' = [stage EXCEPT ![t] = "hide"] /\ on' = on
           \/ /\ stage' = [stage EXCEPT ![t] = "idle"] /\ on' = [on EXCEPT ![t] = NoReview]
              /\ ~MustHide(t)
    BY <1>10 DEF CountReports, Rest
  <2>3. ReviewsTypeOK'
    BY <1>2, <1>4, <2>2 DEF ReviewsTypeOK, Process, rows, history
  <2>4. StagesFit'
    BY <2>1, <2>2 DEF StagesFit, ReviewsTypeOK, Process
  <2>5. \A q, s : Of(q, s)' = Of(q, s)
    BY <2>2 DEF Of
  <2>6. AcceptedAreHidden'
    BY <1>2, <1>3, <1>6, <2>2, <2>5 DEF AcceptedAreHidden, Process
  <2>7. PendingAreWatched'
    <3>1. \/ stage'[t] = "hide" /\ on'[t] = r
          \/ stage'[t] = "idle" /\ ~MustHide(t)
      BY <2>1, <2>2 DEF ReviewsTypeOK, Process
    <3>2. ~MustHide(t) => \/ r \in is_hidden \cup Excepted
                          \/ Cardinality(Of(r, "pending")) < AUTO_HIDE_THRESHOLD
      <4>1. Cardinality(Of(r, "pending")) \in Nat
        BY CountedAreFinite, FS_CardinalityType
      <4> QED
        BY <2>1, <2>2, <4>1 DEF MustHide, PendingAreWatched
    <3> QED
      BY <1>3, <1>4, <1>6, <2>1, <2>2, <2>5, <3>1, <3>2 DEF PendingAreWatched, Process
  <2> QED
    BY <1>5, <2>3, <2>4, <2>6, <2>7
<1>11. CASE Hide(t)
  <2>1. PICK r \in Review : r = on[t]
    BY <1>11 DEF Hide, StagesFit
  <2>2. /\ stage[t] = "hide" /\ is_hidden' = is_hidden \cup {r} /\ UNCHANGED reports
        /\ stage' = [stage EXCEPT ![t] = "idle"] /\ on' = [on EXCEPT ![t] = NoReview]
    BY <1>11, <2>1 DEF Hide, Rest
  <2>3. ReviewsTypeOK'
    BY <1>2, <1>4, <2>2 DEF ReviewsTypeOK, Process, rows, history
  <2>4. StagesFit'
    BY <2>2 DEF StagesFit, ReviewsTypeOK, Process
  <2>5. \A q, s : Of(q, s)' = Of(q, s)
    BY <2>2 DEF Of
  <2>6. AcceptedAreHidden'
    BY <1>2, <1>3, <1>6, <2>2, <2>5 DEF AcceptedAreHidden, Process
  <2>7. PendingAreWatched'
    <3>1. stage'[t] = "idle"
      BY <2>2 DEF ReviewsTypeOK, Process
    <3> QED
      BY <1>3, <1>4, <1>6, <2>1, <2>2, <2>5, <3>1 DEF PendingAreWatched, Process
  <2> QED
    BY <1>5, <2>3, <2>4, <2>6, <2>7
<1> QED
  BY <1>7, <1>8, <1>9, <1>10, <1>11

\* A killed request leaves its comment among the excepted.
LEMMA DieStep ==
  ASSUME ReviewsIInv, NEW t \in Tab, Die(t)
  PROVE  ReviewsIInv'
<1> USE DEF ReviewsIInv
<1>1. PICK r \in Review : r = on[t]
  BY DEF Die, StagesFit
<1>2. /\ mishap' = mishap \cup {r} /\ UNCHANGED <<edited, overtaken>>
      /\ saw' = [saw EXCEPT ![t] = FALSE]
      /\ stage' = [stage EXCEPT ![t] = "idle"] /\ on' = [on EXCEPT ![t] = NoReview]
      /\ UNCHANGED <<rows, is_hidden, like_count, reactions, reports, picked>>
  BY <1>1 DEF Die, Rest
<1>3. ReviewsTypeOK'
  BY <1>2 DEF ReviewsTypeOK, Process, rows
<1>4. StagesFit'
  BY <1>2 DEF StagesFit, ReviewsTypeOK, Process
<1>5. Excepted' = Excepted \cup {r} /\ Altered' = Altered \cup {r}
  BY <1>2 DEF Excepted, Altered
<1>6. \A q, s : Of(q, s)' = Of(q, s)
  BY <1>2 DEF Of
<1>7. /\ stage'[t] = "idle"
      /\ \A v \in Process \ {t} : stage'[v] = stage[v] /\ on'[v] = on[v]
      /\ \A v \in Tab \ {t} : saw'[v] = saw[v]
  BY <1>2 DEF ReviewsTypeOK, Process
<1>8. AcceptedAreHidden'
  BY <1>2, <1>5, <1>6, <1>7 DEF AcceptedAreHidden, Process
<1>9. PendingAreWatched'
  BY <1>1, <1>2, <1>5, <1>6, <1>7 DEF PendingAreWatched, Process
<1>10. LikesNotOverstated'
  BY <1>1, <1>2, <1>5, <1>7, LikesUntouched DEF Process
<1> QED
  BY <1>3, <1>4, <1>8, <1>9, <1>10

\* What every step of a moderator leaves as it is.
LEMMA ModeratorsLeaveTabs ==
  ASSUME ReviewsIInv, NEW m \in Moderator,
         \/ \E s \in {"idle", "close", "reopen"} : stage' = [stage EXCEPT ![m] = s]
         \/ stage' = stage,
         \/ \E r \in Review \cup {NoReview} : on' = [on EXCEPT ![m] = r]
         \/ on' = on
  PROVE  /\ stage' \in [Process -> {"idle", "unlike", "lower", "report", "count", "hide",
                                   "close", "reopen"}]
         /\ on' \in [Process -> Review \cup {NoReview}]
         /\ \A t \in Tab : stage'[t] = stage[t] /\ on'[t] = on[t]
         /\ \A n \in Moderator \ {m} : stage'[n] = stage[n]
         /\ StagesFit'
<1> USE DEF ReviewsIInv, ReviewsTypeOK, Process
<1>1. stage' \in [Process -> {"idle", "unlike", "lower", "report", "count", "hide",
                             "close", "reopen"}]
  OBVIOUS
<1>2. on' \in [Process -> Review \cup {NoReview}]
  OBVIOUS
<1>3. \A t \in Tab : stage'[t] = stage[t] /\ on'[t] = on[t]
  OBVIOUS
<1>4. \A n \in Moderator \ {m} : stage'[n] = stage[n]
  OBVIOUS
<1>5. stage'[m] \in {"idle", "close", "reopen"}
  BY DEF StagesFit
<1>6. StagesFit'
  BY <1>3, <1>4, <1>5 DEF StagesFit
<1> QED
  BY <1>1, <1>2, <1>3, <1>4, <1>6

\* Open reports that become fewer keep a comment under the threshold.
LEMMA FewerPending ==
  ASSUME NEW r, Of(r, "pending")' \subseteq Of(r, "pending"),
         Cardinality(Of(r, "pending")) < AUTO_HIDE_THRESHOLD
  PROVE  Cardinality(Of(r, "pending")') < AUTO_HIDE_THRESHOLD
<1>1. Cardinality(Of(r, "pending")') <= Cardinality(Of(r, "pending"))
  BY CountedAreFinite, FS_Subset
<1>2. Cardinality(Of(r, "pending")') \in Nat /\ Cardinality(Of(r, "pending")) \in Nat
  BY CountedAreFinite, FS_CardinalityType
<1> QED
  BY <1>1, <1>2

\* A moderator's step preserves the invariant when it reopens, and accepts, only what is
\* accounted for.
LEMMA ModeratorStep ==
  ASSUME ReviewsIInv, ReviewsTypeOK', StagesFit', Excepted \subseteq Excepted',
         Altered \subseteq Altered', UNCHANGED <<reactions, saw>>,
         \A r \in Review \ Altered' : like_count'[r] = like_count[r],
         \A t \in Tab : stage'[t] = stage[t] /\ on'[t] = on[t],
         \A r \in Review \ Excepted' :
            /\ Of(r, "pending")' \subseteq Of(r, "pending")
            /\ Of(r, "accepted")' = Of(r, "accepted") \/ r \in is_hidden',
         \A r \in is_hidden \ Excepted' :
            \/ r \in is_hidden'
            \/ /\ Of(r, "accepted") = {} /\ Of(r, "pending") = {}
               /\ \A t \in Tab : stage[t] \in {"report", "count"} /\ on[t] = r => ~saw[t],
         \A n \in Moderator : stage'[n] = "close" => picked'[n] \subseteq is_hidden' \cup Excepted'
  PROVE  ReviewsIInv'
<1> USE DEF ReviewsIInv
<1>1. LikesNotOverstated'
  BY LikesUntouched
<1>2. ASSUME NEW r \in Review \ Excepted', Of(r, "accepted")' # {} PROVE r \in is_hidden'
  <2>1. r \in Review \ Excepted
    BY <1>2
  <2>2. CASE Of(r, "accepted")' = Of(r, "accepted")
    BY <1>2, <2>1, <2>2 DEF AcceptedAreHidden
  <2> QED
    BY <2>2
<1>3. AcceptedAreHidden'
  BY <1>2 DEF AcceptedAreHidden
<1>4. ASSUME NEW r \in Review \ Excepted', r \notin is_hidden'
      PROVE  \/ Cardinality(Of(r, "pending")') < AUTO_HIDE_THRESHOLD
             \/ \E t \in Tab : on'[t] = r /\ stage'[t] \in {"count", "hide"}
  <2>1. CASE r \in is_hidden
    <3>1. Of(r, "pending")' = {}
      BY <1>4, <2>1
    <3>2. Cardinality(Of(r, "pending")') = 0
      BY <3>1, FS_EmptySet
    <3>3. 0 < AUTO_HIDE_THRESHOLD
      OBVIOUS
    <3> QED
      BY <3>2, <3>3
  <2>2. CASE r \notin is_hidden
    <3>1. \/ Cardinality(Of(r, "pending")) < AUTO_HIDE_THRESHOLD
          \/ \E t \in Tab : on[t] = r /\ stage[t] \in {"count", "hide"}
      BY <2>2 DEF PendingAreWatched
    <3> QED
      BY <3>1, FewerPending
  <2> QED
    BY <2>1, <2>2
<1>5. ASSUME NEW t \in Tab, stage'[t] \in {"report", "count"}, saw'[t]
      PROVE  on'[t] \in is_hidden' \cup Excepted'
  <2>1. stage[t] \in {"report", "count"} /\ saw[t] /\ on'[t] = on[t]
    BY Zenon, <1>5
  <2>2. on[t] \in is_hidden \cup Excepted
    BY Zenon, <2>1 DEF PendingAreWatched
  <2>3. CASE on[t] \in Excepted
    BY <2>1, <2>3
  <2>4. CASE on[t] \in is_hidden \ Excepted'
    BY Zenon, <2>1, <2>4
  <2> QED
    BY <2>1, <2>2, <2>3, <2>4
<1>6. PendingAreWatched'
  BY <1>4, <1>5 DEF PendingAreWatched
<1> QED
  BY <1>1, <1>3, <1>6

\* Accepting reports, and hiding comments.
LEMMA AcceptStep ==
  ASSUME ReviewsIInv, NEW m \in Moderator,
         \/ \E R \in SUBSET (Review \X User) : accept_and_hide(m, R)
         \/ CloseReports(m)
         \/ \E R \in SUBSET Review : hide_reviews(m, R)
  PROVE  ReviewsIInv'
<1> USE DEF ReviewsIInv
<1>1. UNCHANGED <<rows, like_count, reactions, on, saw, history>>
  BY DEF accept_and_hide, CloseReports, hide_reviews
<1>2. \/ \E s \in {"idle", "close", "reopen"} : stage' = [stage EXCEPT ![m] = s]
      \/ stage' = stage
  BY DEF accept_and_hide, CloseReports, hide_reviews
<1>3. /\ stage' \in [Process -> {"idle", "unlike", "lower", "report", "count", "hide",
                                "close", "reopen"}]
      /\ on' \in [Process -> Review \cup {NoReview}]
      /\ \A t \in Tab : stage'[t] = stage[t] /\ on'[t] = on[t]
      /\ \A n \in Moderator \ {m} : stage'[n] = stage[n]
      /\ StagesFit'
  BY <1>1, <1>2, ModeratorsLeaveTabs
<1>4. Excepted' = Excepted /\ Altered' = Altered
  BY <1>1 DEF Excepted, Altered, history
<1>5. ASSUME NEW R \in SUBSET (Review \X User), accept_and_hide(m, R) PROVE ReviewsIInv'
  <2>1. /\ is_hidden' = is_hidden \cup About(R) /\ reports' = reports
        /\ picked' = [picked EXCEPT ![m] = About(R)] /\ About(R) \subseteq Review
    BY <1>5 DEF accept_and_hide, About
  <2>2. ReviewsTypeOK'
    BY <1>1, <1>3, <2>1 DEF ReviewsTypeOK, rows, history
  <2>3. \A r, s : Of(r, s)' = Of(r, s)
    BY <2>1 DEF Of
  <2>4. \A n \in Moderator : stage'[n] = "close" => picked'[n] \subseteq is_hidden' \cup Excepted'
    BY <1>3, <1>4, <2>1 DEF AcceptedAreHidden, ReviewsTypeOK
  <2> QED
    BY <1>1, <1>3, <1>4, <2>1, <2>2, <2>3, <2>4, ModeratorStep
<1>6. ASSUME CloseReports(m) PROVE ReviewsIInv'
  <2>1. /\ reports' = Resolved(picked[m] \X User, "accepted") /\ is_hidden' = is_hidden
        /\ picked' = [picked EXCEPT ![m] = {}]
        /\ stage[m] = "close" /\ stage' = [stage EXCEPT ![m] = "idle"]
    BY <1>6 DEF CloseReports
  <2>2. ReviewsTypeOK'
    <3>1. reports' \in [Review -> [User -> {"none", "pending", "accepted", "rejected"}]]
      BY <2>1 DEF Resolved, ReviewsTypeOK
    <3> QED
      BY <1>1, <1>3, <2>1, <3>1 DEF ReviewsTypeOK, rows, history
  <2>3. ASSUME NEW r \in Review
        PROVE  /\ Of(r, "pending")' \subseteq Of(r, "pending")
               /\ r \notin picked[m] => Of(r, "accepted")' = Of(r, "accepted")
    BY <2>1 DEF Of, Resolved
  <2>4. picked[m] \subseteq is_hidden \cup Excepted
    BY <2>1 DEF AcceptedAreHidden
  <2>5. \A n \in Moderator : stage'[n] = "close" => picked'[n] \subseteq is_hidden' \cup Excepted'
    BY <1>3, <1>4, <2>1 DEF AcceptedAreHidden, ReviewsTypeOK, Process
  <2> QED
    BY <1>1, <1>3, <1>4, <2>1, <2>2, <2>3, <2>4, <2>5, ModeratorStep
<1>7. ASSUME NEW R \in SUBSET Review, hide_reviews(m, R) PROVE ReviewsIInv'
  <2>1. /\ is_hidden' = is_hidden \cup R /\ UNCHANGED <<reports, picked, stage>>
    BY <1>7 DEF hide_reviews
  <2>2. ReviewsTypeOK'
    BY <1>1, <1>3, <2>1 DEF ReviewsTypeOK, rows, history
  <2>3. \A r, s : Of(r, s)' = Of(r, s)
    BY <2>1 DEF Of
  <2>4. \A n \in Moderator : stage'[n] = "close" => picked'[n] \subseteq is_hidden' \cup Excepted'
    BY <1>4, <2>1 DEF AcceptedAreHidden
  <2> QED
    BY <1>1, <1>3, <1>4, <2>1, <2>2, <2>3, <2>4, ModeratorStep
<1> QED
  BY <1>5, <1>6, <1>7

\* Rejecting reports, and reopening the comments that none stands against.
LEMMA RejectStep ==
  ASSUME ReviewsIInv, NEW m \in Moderator,
         \/ \E R \in SUBSET (Review \X User), f \in BOOLEAN : reject_reports(m, R, f)
         \/ \E r \in Review : CheckReopen(m, r)
         \/ Reopen(m)
  PROVE  ReviewsIInv'
<1> USE DEF ReviewsIInv
<1>1. UNCHANGED <<rows, like_count, reactions, saw, edited, mishap>>
  BY DEF reject_reports, CheckReopen, Reopen, history
<1>2. ASSUME NEW R \in SUBSET (Review \X User), NEW f \in BOOLEAN, reject_reports(m, R, f)
      PROVE  ReviewsIInv'
  <2>1. /\ reports' = Resolved(R, "rejected") /\ is_hidden' = is_hidden
        /\ \E S \in SUBSET Review : picked' = [picked EXCEPT ![m] = S]
        /\ \E s \in {"idle", "reopen"} : stage' = [stage EXCEPT ![m] = s]
        /\ UNCHANGED <<on, history>>
    BY <1>2 DEF reject_reports, About
  <2>2. /\ stage' \in [Process -> {"idle", "unlike", "lower", "report", "count", "hide",
                                  "close", "reopen"}]
        /\ \A t \in Tab : stage'[t] = stage[t] /\ on'[t] = on[t]
        /\ \A n \in Moderator \ {m} : stage'[n] = stage[n]
        /\ StagesFit'
    BY <2>1, ModeratorsLeaveTabs
  <2>3. ReviewsTypeOK'
    <3>1. reports' \in [Review -> [User -> {"none", "pending", "accepted", "rejected"}]]
      BY <2>1 DEF Resolved, ReviewsTypeOK
    <3>2. picked' \in [Moderator -> SUBSET Review]
      BY <2>1 DEF ReviewsTypeOK
    <3> QED
      BY <1>1, <2>1, <2>2, <3>1, <3>2 DEF ReviewsTypeOK, rows, history
  <2>4. ASSUME NEW r \in Review
        PROVE  /\ Of(r, "pending")' \subseteq Of(r, "pending")
               /\ Of(r, "accepted")' = Of(r, "accepted")
    BY <2>1 DEF Of, Resolved
  <2>5. Excepted' = Excepted /\ Altered' = Altered
    BY <2>1 DEF Excepted, Altered, history
  <2>6. stage'[m] # "close" /\ \A n \in Moderator \ {m} : picked'[n] = picked[n]
    BY <2>1 DEF ReviewsTypeOK, Process
  <2>7. \A n \in Moderator : stage'[n] = "close" => picked'[n] \subseteq is_hidden' \cup Excepted'
    BY <2>1, <2>2, <2>5, <2>6 DEF AcceptedAreHidden
  <2> QED
    BY <1>1, <2>1, <2>2, <2>3, <2>4, <2>5, <2>7, ModeratorStep
<1>3. ASSUME NEW r \in Review, CheckReopen(m, r) PROVE ReviewsIInv'
  <2>1. /\ UNCHANGED <<is_hidden, reports, history>>
        /\ picked' = [picked EXCEPT ![m] = @ \ {r}]
        /\ stage[m] = "reopen"
        /\ \/ \E s \in {"idle", "close", "reopen"} : stage' = [stage EXCEPT ![m] = s]
           \/ stage' = stage
        /\ on' = [on EXCEPT ![m] = r] \/ on' = on
        /\ stage'[m] # "close"
    BY <1>3 DEF CheckReopen, ReviewsTypeOK, Process
  <2>2. /\ stage' \in [Process -> {"idle", "unlike", "lower", "report", "count", "hide",
                                  "close", "reopen"}]
        /\ on' \in [Process -> Review \cup {NoReview}]
        /\ \A t \in Tab : stage'[t] = stage[t] /\ on'[t] = on[t]
        /\ \A n \in Moderator \ {m} : stage'[n] = stage[n]
        /\ StagesFit'
    BY <2>1, ModeratorsLeaveTabs
  <2>3. ReviewsTypeOK'
    BY <1>1, <2>1, <2>2 DEF ReviewsTypeOK, rows, history
  <2>4. \A q, s : Of(q, s)' = Of(q, s)
    BY <2>1 DEF Of
  <2>5. Excepted' = Excepted /\ Altered' = Altered
    BY <2>1 DEF Excepted, Altered, history
  <2>6. \A n \in Moderator : stage'[n] = "close" => picked'[n] \subseteq is_hidden' \cup Excepted'
    BY <2>1, <2>2, <2>5 DEF AcceptedAreHidden, ReviewsTypeOK
  <2> QED
    BY <1>1, <2>1, <2>2, <2>3, <2>4, <2>5, <2>6, ModeratorStep
<1>4. ASSUME Reopen(m) PROVE ReviewsIInv'
  <2>1. PICK r \in Review : r = on[m]
    BY <1>4 DEF Reopen, ReviewsTypeOK, Process
  <2>2. /\ stage[m] = "reopen" /\ is_hidden' = is_hidden \ {r}
        /\ overtaken' = IF Standing(r) \cup Relying(r) # {} THEN overtaken \cup {r} ELSE overtaken
        /\ on' = [on EXCEPT ![m] = NoReview]
        /\ \E s \in {"idle", "reopen"} : stage' = [stage EXCEPT ![m] = s]
        /\ UNCHANGED <<reports, picked, mishap>>
    BY <1>4, <2>1 DEF Reopen
  <2>3. /\ stage' \in [Process -> {"idle", "unlike", "lower", "report", "count", "hide",
                                  "close", "reopen"}]
        /\ on' \in [Process -> Review \cup {NoReview}]
        /\ \A t \in Tab : stage'[t] = stage[t] /\ on'[t] = on[t]
        /\ \A n \in Moderator \ {m} : stage'[n] = stage[n]
        /\ StagesFit'
    BY <2>2, ModeratorsLeaveTabs
  <2>4. ReviewsTypeOK'
    BY <1>1, <2>2, <2>3 DEF ReviewsTypeOK, rows
  <2>5. \A q, s : Of(q, s)' = Of(q, s)
    BY <2>2 DEF Of
  <2>6. Excepted \subseteq Excepted' /\ Altered' = Altered
    BY <1>1, <2>2 DEF Excepted, Altered
  <2>7. r \notin Excepted' => /\ Of(r, "accepted") = {} /\ Of(r, "pending") = {}
                            /\ Relying(r) = {}
    BY <2>2 DEF Excepted, Altered, Standing
  <2>8. Relying(r) = {} =>
          /\ \A t \in Tab : stage[t] \in {"report", "count"} /\ on[t] = r => ~saw[t]
          /\ \A n \in Moderator : stage[n] = "close" => r \notin picked[n]
    BY DEF Relying
  <2>9. \A n \in Moderator : stage'[n] = "close" => picked'[n] \subseteq is_hidden' \cup Excepted'
    <3>1. stage'[m] # "close"
      BY <2>2 DEF ReviewsTypeOK, Process
    <3> QED
      BY <2>2, <2>3, <2>6, <2>7, <2>8, <3>1 DEF AcceptedAreHidden
  <2> QED
    BY <1>1, <2>2, <2>3, <2>4, <2>5, <2>6, <2>7, <2>8, <2>9, ModeratorStep
<1> QED
  BY <1>2, <1>3, <1>4

\* What a moderator changes by hand is among the excepted.
LEMMA EditStep ==
  ASSUME ReviewsIInv, NEW m \in Moderator,
         \/ \E R \in SUBSET Review : unhide_reviews(m, R)
         \/ \E r \in Review, flag \in BOOLEAN, n \in Nat : SaveForm(m, r, flag, n)
         \/ \E r \in Review, u \in User, s \in {"pending", "accepted", "rejected"} :
              SaveReport(m, r, u, s)
  PROVE  ReviewsIInv'
<1> USE DEF ReviewsIInv
<1>1. UNCHANGED <<rows, reactions, stage, on, saw, picked, mishap, overtaken>>
  BY DEF unhide_reviews, SaveForm, SaveReport
<1>2. PICK R \in SUBSET Review :
        /\ edited' = edited \cup R
        /\ \A r \in Review \ R : /\ r \in is_hidden <=> r \in is_hidden'
                                /\ reports'[r] = reports[r] /\ like_count'[r] = like_count[r]
        /\ is_hidden' \subseteq Review
        /\ like_count' \in [Review -> Nat]
        /\ reports' \in [Review -> [User -> {"none", "pending", "accepted", "rejected"}]]
  <2>1. CASE \E S \in SUBSET Review : unhide_reviews(m, S)
    BY <2>1 DEF unhide_reviews, ReviewsTypeOK
  <2>2. ASSUME NEW r \in Review, NEW flag \in BOOLEAN, NEW n \in Nat, SaveForm(m, r, flag, n)
        PROVE  \E S \in SUBSET Review :
                 /\ edited' = edited \cup S
                 /\ \A q \in Review \ S :
                      /\ q \in is_hidden <=> q \in is_hidden'
                      /\ reports'[q] = reports[q] /\ like_count'[q] = like_count[q]
                 /\ is_hidden' \subseteq Review
                 /\ like_count' \in [Review -> Nat]
                 /\ reports' \in [Review -> [User -> {"none", "pending", "accepted", "rejected"}]]
    <3>1. {r} \in SUBSET Review
      OBVIOUS
    <3> QED
      BY <2>2, <3>1 DEF SaveForm, ReviewsTypeOK
  <2>3. ASSUME NEW r \in Review, NEW u \in User,
               NEW s \in {"pending", "accepted", "rejected"}, SaveReport(m, r, u, s)
        PROVE  \E S \in SUBSET Review :
                 /\ edited' = edited \cup S
                 /\ \A q \in Review \ S :
                      /\ q \in is_hidden <=> q \in is_hidden'
                      /\ reports'[q] = reports[q] /\ like_count'[q] = like_count[q]
                 /\ is_hidden' \subseteq Review
                 /\ like_count' \in [Review -> Nat]
                 /\ reports' \in [Review -> [User -> {"none", "pending", "accepted", "rejected"}]]
    <3>1. {r} \in SUBSET Review
      OBVIOUS
    <3> QED
      BY <2>3, <3>1 DEF SaveReport, ReviewsTypeOK
  <2> QED
    BY <2>1, <2>2, <2>3
<1>3. ReviewsTypeOK' /\ StagesFit'
  BY <1>1, <1>2 DEF ReviewsTypeOK, StagesFit, rows
<1>4. Excepted' = Excepted \cup R /\ Altered' = Altered \cup R
  BY <1>1, <1>2 DEF Excepted, Altered
<1>5. \A r \in Review \ R : \A s : Of(r, s)' = Of(r, s)
  BY <1>2 DEF Of
<1>6. \A n \in Moderator : stage'[n] = "close" => picked'[n] \subseteq is_hidden' \cup Excepted'
  <2>1. is_hidden \subseteq is_hidden' \cup R
    BY <1>2 DEF ReviewsTypeOK
  <2> QED
    BY <1>1, <1>4, <2>1 DEF AcceptedAreHidden
<1>7. /\ Excepted \subseteq Excepted' /\ Altered \subseteq Altered'
      /\ UNCHANGED <<reactions, saw>>
      /\ \A t \in Tab : stage'[t] = stage[t] /\ on'[t] = on[t]
  BY <1>1, <1>4
<1>8. ASSUME NEW r \in Review \ Excepted'
      PROVE  /\ (r \in is_hidden <=> r \in is_hidden')
             /\ Of(r, "pending")' = Of(r, "pending") /\ Of(r, "accepted")' = Of(r, "accepted")
  BY <1>2, <1>4, <1>5
<1>9. \A r \in is_hidden \ Excepted' : r \in is_hidden'
  BY <1>8 DEF ReviewsTypeOK
<1>10. \A r \in Review \ Altered' : like_count'[r] = like_count[r]
  BY <1>2, <1>4
<1> QED
  BY <1>3, <1>6, <1>7, <1>8, <1>9, <1>10, ModeratorStep

\* The invariant is inductive.
LEMMA ReviewsStep == ReviewsIInv /\ [ReviewsNext]_reviewsVars => ReviewsIInv'
<1> SUFFICES ASSUME ReviewsIInv, [ReviewsNext]_reviewsVars PROVE ReviewsIInv'
  OBVIOUS
<1>1. ASSUME NEW t \in Tab, Handle(t) PROVE ReviewsIInv'
  BY <1>1, PostStep, ToggleStep, TakeBackStep, ReportStep, DieStep DEF Handle
<1>2. ASSUME NEW m \in Moderator, Moderate(m) PROVE ReviewsIInv'
  <2>1. Selection \subseteq SUBSET (Review \X User)
    BY DEF Selection
  <2>2. Posted \cap Disputed \subseteq Review
    BY DEF Posted
  <2>3. Cardinality(User) \in Nat /\ 0..Cardinality(User) \subseteq Nat
    BY FS_CardinalityType
  <2>4. CASE \/ \E R \in SUBSET (Review \X User) : accept_and_hide(m, R)
             \/ CloseReports(m)
             \/ \E r \in Review : hide_reviews(m, {r})
    BY <2>4, AcceptStep
  <2>5. CASE \/ \E R \in SUBSET (Review \X User), f \in BOOLEAN : reject_reports(m, R, f)
             \/ \E r \in Review : CheckReopen(m, r)
             \/ Reopen(m)
    BY <2>5, RejectStep
  <2>6. CASE \/ \E r \in Review : unhide_reviews(m, {r})
             \/ \E r \in Review, flag \in BOOLEAN, n \in Nat : SaveForm(m, r, flag, n)
             \/ \E r \in Review, u \in User, s \in {"pending", "accepted", "rejected"} :
                  SaveReport(m, r, u, s)
    BY <2>6, EditStep
  <2> QED
    BY <1>2, <2>1, <2>2, <2>3, <2>4, <2>5, <2>6 DEF Moderate
<1>3. CASE UNCHANGED reviewsVars
  <2> USE <1>3 DEF ReviewsIInv, reviewsVars
  <2>1. ReviewsTypeOK' /\ StagesFit'
    BY DEF ReviewsTypeOK, StagesFit
  <2>2. LikesNotOverstated'
    BY LikesUntouched DEF Altered
  <2>3. \A r, s : Of(r, s)' = Of(r, s)
    BY DEF Of
  <2>4. AcceptedAreHidden' /\ PendingAreWatched'
    BY <2>3 DEF AcceptedAreHidden, PendingAreWatched, Excepted, Altered
  <2> QED
    BY <2>1, <2>2, <2>4
<1> QED
  BY <1>1, <1>2, <1>3 DEF ReviewsNext

\* The invariant holds in every reachable state.
LEMMA ReviewsIsIInv == ReviewsSpec => []ReviewsIInv
  BY ReviewsInitHolds, ReviewsStep, PTL DEF ReviewsSpec

\* ToggleReviewLike: the count shown never exceeds the likes there are, apart from those
\* that are being taken back.
THEOREM LikesNotOverstatedHolds == ReviewsSpec => []LikesNotOverstated
<1>1. ReviewsIInv => LikesNotOverstated
  BY DEF ReviewsIInv
<1> QED
  BY <1>1, ReviewsIsIInv, PTL

\* report_review and the moderators' actions: no comment is shown that an accepted report,
\* or as many open ones as the threshold, stand against, in any interleaving in which no
\* reopening was overtaken between its check and its write.
THEOREM HiddenWhenDueHolds == ReviewsSpec => []HiddenWhenDue
<1>1. ReviewsIInv => HiddenWhenDue
  <2> SUFFICES ASSUME ReviewsIInv, NEW r \in MovieReviewsView \cap Regular
               PROVE  /\ Of(r, "accepted") = {}
                      /\ (\A p \in Process : on[p] # r)
                           => Cardinality(Of(r, "pending")) < AUTO_HIDE_THRESHOLD
    BY DEF HiddenWhenDue, AcceptedIsHidden, ThresholdHides
  <2>1. r \in Review \ Excepted /\ r \notin is_hidden
    BY DEF MovieReviewsView, Posted, Regular, Excepted, Altered
  <2> QED
    BY <2>1 DEF ReviewsIInv, AcceptedAreHidden, PendingAreWatched, Process
<1> QED
  BY <1>1, ReviewsIsIInv, PTL

-----------------------------------------------------------------------------
(***************************************************************************)
(* The catalogue cache                                                     *)
(*                                                                         *)
(* While the version only grows, a reader's key is no newer than the       *)
(* version, so that what it computes is at least as new as the catalogue   *)
(* with which that version began.                                          *)
(***************************************************************************)
CacheTypeOK ==
    /\ catalog \in Nat
    /\ version \in 0..MaxVersion
    /\ cache \in [Name -> [Version -> Nat]]
    /\ reading \in [Reader -> Name \cup {NoName}]
    /\ key \in [Reader -> Nat]
    /\ fetched \in [Reader \cup Task -> Nat]
    /\ writing \in [Task -> Recomputed \cup {NoName}]
    /\ saver \in [Saver -> {"idle", "open", "retrying", "bumped"}]
    /\ updater \in [Updater -> {"idle", "updated", "retrying"}]
    /\ began \in [Version -> Nat]
    /\ rewound \in BOOLEAN

\* A reader has computed a value only for a list, under a key it has made.
ReadersHaveKeys ==
    \A r \in Reader : /\ fetched[r] # 0 => reading[r] # NoName
                      /\ reading[r] # NoName => key[r] \in Version

\* Under a version that has not come yet there is nothing, and nobody has its key.
FutureIsEmpty ==
    /\ \A r \in Reader : key[r] <= version
    /\ \A n \in Name, v \in Version : v > version => cache[n][v] = 0

\* Values are at least as new as their version, in readers' hands and in the cache.
ValuesAreFresh ==
    /\ \A v \in Version : began[v] <= catalog
    /\ \A r \in Reader : fetched[r] # 0 => fetched[r] >= began[key[r]]
    /\ \A n \in Name \ Recomputed, v \in Version : cache[n][v] # 0 => cache[n][v] >= began[v]

CacheIInv ==
    /\ CacheTypeOK
    /\ ReadersHaveKeys
    /\ ~rewound => FutureIsEmpty /\ ValuesAreFresh

-----------------------------------------------------------------------------
\* The cache is empty at first.
LEMMA CacheInitHolds == Init => CacheIInv
<1> USE CatalogCacheAssumption DEF Init
<1> SUFFICES ASSUME Init PROVE CacheIInv
  OBVIOUS
<1>1. CacheTypeOK
  <2>1. catalog \in Nat /\ version \in 0..MaxVersion
    OBVIOUS
  <2>6. rewound \in BOOLEAN
    BY Zenon
  <2>2. cache \in [Name -> [Version -> Nat]] /\ began \in [Version -> Nat]
    OBVIOUS
  <2>3. /\ reading \in [Reader -> Name \cup {NoName}] /\ key \in [Reader -> Nat]
        /\ fetched \in [Reader \cup Task -> Nat]
        /\ writing \in [Task -> Recomputed \cup {NoName}]
    OBVIOUS
  <2>4. /\ saver \in [Saver -> {"idle", "open", "retrying", "bumped"}]
        /\ updater \in [Updater -> {"idle", "updated", "retrying"}]
    OBVIOUS
  <2>5. QED BY <2>1, <2>2, <2>3, <2>4, <2>6, Zenon DEF CacheTypeOK
<1>2. ReadersHaveKeys
  BY DEF ReadersHaveKeys
<1>3. FutureIsEmpty
  BY DEF FutureIsEmpty
<1>4. ValuesAreFresh
  BY DEF ValuesAreFresh
<1>5. QED BY <1>1, <1>2, <1>3, <1>4 DEF CacheIInv

\* The number of a version is one of the bounded ones.
LEMMA CatalogVersionType ==
  ASSUME CacheIInv
  PROVE  /\ catalog_version \in Version /\ catalog_version \in 0..MaxVersion
         /\ version <= catalog_version
  BY CatalogCacheAssumption DEF CacheIInv, CacheTypeOK, catalog_version, Version

-----------------------------------------------------------------------------
(* Readers and tasks                                                       *)

\* A reader computes the key from the version it sees.
LEMMA LookIInv == ASSUME CacheIInv, NEW r \in Reader, NEW n \in Name, Look(r, n) PROVE CacheIInv'
<1> USE CatalogCacheAssumption DEF Look
<1>0. /\ catalog_version \in Version /\ catalog_version \in Nat
      /\ catalog_version \in 0..MaxVersion /\ version <= catalog_version
  BY CatalogVersionType
<1> USE <1>0
<1>1. CacheTypeOK'
  <2>1. /\ reading' \in [Reader -> Name \cup {NoName}]
        /\ key' \in [Reader -> Nat]
    BY DEF CacheIInv, CacheTypeOK
  <2>2. QED BY <2>1 DEF CacheIInv, CacheTypeOK
<1>2. /\ key'[r] \in {key[r], catalog_version}
      /\ reading'[r] = reading[r] \/ key'[r] = catalog_version
      /\ \A q \in Reader \ {r} : reading'[q] = reading[q] /\ key'[q] = key[q]
  BY DEF CacheIInv, CacheTypeOK
<1>3. fetched[r] = 0
  BY DEF CacheIInv, CacheTypeOK, ReadersHaveKeys
<1>4. ReadersHaveKeys'
  BY <1>2, <1>3 DEF CacheIInv, ReadersHaveKeys
<1>5. ASSUME ~rewound PROVE FutureIsEmpty' /\ ValuesAreFresh'
  <2>1. key \in [Reader -> Nat] /\ version \in Nat /\ version' \in Nat /\ version <= version'
    BY <1>1 DEF CacheIInv, CacheTypeOK
  <2>2. FutureIsEmpty'
    BY <1>2, <1>5, <2>1 DEF CacheIInv, FutureIsEmpty, Version
  <2>3. ValuesAreFresh'
    BY <1>2, <1>3, <1>5 DEF CacheIInv, ValuesAreFresh
  <2>4. QED BY <2>2, <2>3
<1>6. QED BY <1>1, <1>4, <1>5 DEF CacheIInv

\* What it produces is of its time,
LEMMA ProduceIInv == ASSUME CacheIInv, NEW r \in Reader, Produce(r) PROVE CacheIInv'
<1> USE CatalogCacheAssumption DEF Produce
<1>1. CacheTypeOK'
  BY DEF CacheIInv, CacheTypeOK
<1>2. ReadersHaveKeys'
  BY DEF CacheIInv, CacheTypeOK, ReadersHaveKeys
<1>3. ASSUME ~rewound PROVE FutureIsEmpty' /\ ValuesAreFresh'
  <2>1. key[r] \in Version /\ catalog >= began[key[r]]
    BY <1>3 DEF CacheIInv, CacheTypeOK, ReadersHaveKeys, ValuesAreFresh
  <2>2. QED
    BY <1>3, <2>1 DEF CacheIInv, CacheTypeOK, FutureIsEmpty, ValuesAreFresh
<1>4. QED BY <1>1, <1>2, <1>3 DEF CacheIInv

\* and is stored under its key.
LEMMA StoreIInv == ASSUME CacheIInv, NEW r \in Reader, Store(r) PROVE CacheIInv'
<1> USE CatalogCacheAssumption
<1> DEFINE m == reading[r]
           k == key[r]
           f == fetched[r]
<1>1. /\ f # 0 /\ f \in Nat /\ m \in Name /\ k \in Version
      /\ cache' = [cache EXCEPT ![m][k] = f]
      /\ reading' = [reading EXCEPT ![r] = NoName]
      /\ key' = [key EXCEPT ![r] = 0]
      /\ fetched' = [fetched EXCEPT ![r] = 0]
      /\ UNCHANGED <<catalog, version, writing, saver, updater, began, rewound>>
  BY DEF Store, StoreKey, CacheIInv, CacheTypeOK, ReadersHaveKeys
<1>2. ~rewound => k <= version /\ f >= began[k]
  BY <1>1 DEF CacheIInv, FutureIsEmpty, ValuesAreFresh
<1> HIDE DEF m, k, f
<1>3. CacheTypeOK'
  BY <1>1 DEF CacheIInv, CacheTypeOK
<1>4. ReadersHaveKeys'
  BY <1>1 DEF CacheIInv, CacheTypeOK, ReadersHaveKeys
<1>5. \A n \in Name, v \in Version :
          cache'[n][v] = IF n = m /\ v = k THEN f ELSE cache[n][v]
  BY <1>1 DEF CacheIInv, CacheTypeOK
<1>6. ASSUME ~rewound PROVE FutureIsEmpty' /\ ValuesAreFresh'
  <2> USE <1>1, <1>2, <1>5, <1>6
  <2>1. version \in Nat /\ k \in Nat
    BY DEF CacheIInv, CacheTypeOK, Version
  <2>2. FutureIsEmpty'
    <3>1. \A q \in Reader : key'[q] <= version'
      BY <2>1 DEF CacheIInv, CacheTypeOK, FutureIsEmpty
    <3>2. \A n \in Name, v \in Version : v > version' => cache'[n][v] = 0
      BY <2>1 DEF CacheIInv, FutureIsEmpty, Version
    <3>3. QED BY <3>1, <3>2 DEF FutureIsEmpty
  <2>3. ValuesAreFresh'
    BY DEF CacheIInv, CacheTypeOK, ValuesAreFresh
  <2>4. QED BY <2>2, <2>3
<1>7. QED BY <1>1, <1>3, <1>4, <1>6 DEF CacheIInv

\* A task's result is of its time,
LEMMA ComputeIInv ==
  ASSUME CacheIInv, NEW t \in Task, NEW n \in Recomputed, Compute(t, n) PROVE CacheIInv'
  BY CatalogCacheAssumption
  DEF Compute, CacheIInv, CacheTypeOK, ReadersHaveKeys, FutureIsEmpty, ValuesAreFresh

\* and is stored under the key of that time.
LEMMA StoreComputedIInv == ASSUME CacheIInv, NEW t \in Task, StoreComputed(t) PROVE CacheIInv'
<1> USE CatalogCacheAssumption
<1> DEFINE m == writing[t]
           k == catalog_version
           f == fetched[t]
<1>1. /\ m \in Recomputed /\ m \in Name /\ k \in Version /\ f \in Nat
      /\ version' = k
      /\ cache' = [cache EXCEPT ![m][k] = f]
      /\ writing' = [writing EXCEPT ![t] = NoName]
      /\ fetched' = [fetched EXCEPT ![t] = 0]
      /\ UNCHANGED <<catalog, reading, key, saver, updater, began, rewound>>
  BY CatalogVersionType DEF StoreComputed, CacheIInv, CacheTypeOK
<1>2. k \in 0..MaxVersion /\ k \in Nat /\ version <= k /\ version \in Nat
  BY CatalogVersionType DEF CacheIInv, CacheTypeOK
<1> HIDE DEF m, k, f
<1>3. CacheTypeOK'
  BY <1>1, <1>2 DEF CacheIInv, CacheTypeOK
<1>4. \A r \in Reader : fetched'[r] = fetched[r]
  BY <1>1 DEF CacheIInv, CacheTypeOK
<1>5. ReadersHaveKeys'
  BY <1>1, <1>4 DEF CacheIInv, ReadersHaveKeys
<1>6. \A n \in Name, v \in Version : n # m \/ v # k => cache'[n][v] = cache[n][v]
  BY <1>1 DEF CacheIInv, CacheTypeOK
<1>7. ASSUME ~rewound PROVE FutureIsEmpty' /\ ValuesAreFresh'
  <2> USE <1>1, <1>2, <1>4, <1>6, <1>7
  <2>1. FutureIsEmpty'
    <3>1. \A r \in Reader : key'[r] <= version'
      BY DEF CacheIInv, CacheTypeOK, FutureIsEmpty
    <3>2. ASSUME NEW n \in Name, NEW v \in Version, v > k PROVE cache'[n][v] = 0
      <4>1. v \in Nat /\ v # k /\ v > version
        BY <3>2 DEF Version
      <4>2. QED BY <4>1 DEF CacheIInv, FutureIsEmpty
    <3>3. QED BY <3>1, <3>2 DEF FutureIsEmpty
  <2>2. ValuesAreFresh'
    BY DEF CacheIInv, ValuesAreFresh
  <2>3. QED BY <2>1, <2>2
<1>8. QED BY <1>1, <1>3, <1>5, <1>7 DEF CacheIInv

\* An entry that expires is only missing.
LEMMA ExpireIInv ==
  ASSUME CacheIInv, NEW n \in Name, NEW v \in Version, Expire(n, v) PROVE CacheIInv'
<1> USE CatalogCacheAssumption DEF Expire
<1>1. CacheTypeOK' /\ ReadersHaveKeys'
  BY DEF CacheIInv, CacheTypeOK, ReadersHaveKeys
<1>2. \A x \in Name, y \in Version : cache'[x][y] \in {cache[x][y], 0}
  BY DEF CacheIInv, CacheTypeOK
<1>3. ASSUME ~rewound PROVE FutureIsEmpty' /\ ValuesAreFresh'
  BY <1>2, <1>3 DEF CacheIInv, FutureIsEmpty, ValuesAreFresh
<1>4. QED BY <1>1, <1>3 DEF CacheIInv

-----------------------------------------------------------------------------
(* Bumps and changes                                                       *)

\* A new version begins with what is committed, and with nothing in the cache.
LEMMA BumpIInv ==
  ASSUME CacheIInv, Bump \/ BumpMissing,
         saver' \in [Saver -> {"idle", "open", "retrying", "bumped"}],
         updater' \in [Updater -> {"idle", "updated", "retrying"}],
         UNCHANGED <<catalog, cache, reading, key, fetched, writing>>
  PROVE  CacheIInv'
<1> USE CatalogCacheAssumption
<1>1. PICK k \in Version :
          /\ version' = k /\ k \in Nat
          /\ began' = [began EXCEPT ![k] = catalog]
          /\ rewound \in BOOLEAN /\ rewound' \in BOOLEAN
          /\ ~rewound' => ~rewound /\ version < k
  <2>1. version \in 0..MaxVersion /\ rewound \in BOOLEAN
    BY DEF CacheIInv, CacheTypeOK
  <2>2. CASE Bump
    <3>1. Bumped \in Version /\ Bumped \in Nat /\ version < Bumped
      BY <2>1, <2>2 DEF Bump, Bumped, Version
    <3>2. QED BY <2>1, <2>2, <3>1 DEF Bump
  <2>3. CASE BumpMissing
    <3>1. rewound' \in BOOLEAN /\ (~rewound' => ~rewound /\ ~(version > 1))
      BY <2>1, <2>3, Zenon DEF BumpMissing
    <3>2. 2 \in Version /\ 2 \in Nat /\ (~(version > 1) => version < 2)
      BY <2>1 DEF Version
    <3>3. QED BY <2>1, <2>3, <3>1, <3>2 DEF BumpMissing
  <2>4. QED BY <2>2, <2>3
<1>2. CacheTypeOK'
  BY <1>1 DEF CacheIInv, CacheTypeOK, Version
<1>3. ReadersHaveKeys'
  BY DEF CacheIInv, ReadersHaveKeys
<1>4. ASSUME ~rewound' PROVE FutureIsEmpty' /\ ValuesAreFresh'
  <2> USE <1>1, <1>4
  <2>1. version \in Nat /\ key \in [Reader -> Nat] /\ catalog \in Nat
    BY DEF CacheIInv, CacheTypeOK
  <2>2. FutureIsEmpty'
    BY <2>1 DEF CacheIInv, FutureIsEmpty, Version
  <2>3. began'[k] = catalog /\ \A v \in Version \ {k} : began'[v] = began[v]
    BY DEF CacheIInv, CacheTypeOK
  <2>4. \A r \in Reader : fetched[r] # 0 => key[r] # k /\ key[r] \in Version
    BY <2>1 DEF CacheIInv, FutureIsEmpty, ReadersHaveKeys
  <2>5. \A n \in Name : cache[n][k] = 0
    BY <2>1 DEF CacheIInv, FutureIsEmpty
  <2>6. ValuesAreFresh'
    BY <2>1, <2>3, <2>4, <2>5 DEF CacheIInv, ValuesAreFresh
  <2>7. QED BY <2>2, <2>6
<1>5. QED BY <1>2, <1>3, <1>4 DEF CacheIInv

\* The catalogue grows or stays.
LEMMA ChangeIInv ==
  ASSUME CacheIInv, catalog' \in {catalog, catalog + 1},
         saver' \in [Saver -> {"idle", "open", "retrying", "bumped"}],
         updater' \in [Updater -> {"idle", "updated", "retrying"}],
         UNCHANGED <<version, cache, reading, key, fetched, writing, began, rewound>>
  PROVE  CacheIInv'
<1>1. CacheTypeOK' /\ ReadersHaveKeys'
  BY DEF CacheIInv, CacheTypeOK, ReadersHaveKeys
<1>2. ASSUME ~rewound PROVE FutureIsEmpty' /\ ValuesAreFresh'
  BY <1>2 DEF CacheIInv, CacheTypeOK, FutureIsEmpty, ValuesAreFresh
<1>3. QED BY <1>1, <1>2 DEF CacheIInv

\* A save commits, then bumps.
LEMMA SaverIInv ==
  ASSUME CacheIInv, NEW s \in Saver,
         BeginSave(s) \/ invalidate_catalog_cache(s) \/ CommitSave(s) \/ RollBack(s)
  PROVE  CacheIInv'
<1>1. /\ saver' \in [Saver -> {"idle", "open", "retrying", "bumped"}]
      /\ updater' \in [Updater -> {"idle", "updated", "retrying"}]
  BY DEF CacheIInv, CacheTypeOK, BeginSave, invalidate_catalog_cache, CommitSave, RollBack
<1>2. CASE BeginSave(s)
  BY <1>1, <1>2, ChangeIInv DEF BeginSave
<1>3. CASE invalidate_catalog_cache(s)
  BY <1>1, <1>3, BumpIInv, ChangeIInv DEF invalidate_catalog_cache
<1>4. CASE CommitSave(s)
  BY <1>1, <1>4, ChangeIInv DEF CommitSave, Change
<1>5. CASE RollBack(s)
  BY <1>1, <1>5, ChangeIInv DEF RollBack
<1>6. QED BY <1>2, <1>3, <1>4, <1>5

\* A bulk update bumps after it.
LEMMA UpdaterIInv ==
  ASSUME CacheIInv, NEW u \in Updater, Update(u) \/ BumpByHand(u) \/ CrashUpdate(u)
  PROVE  CacheIInv'
<1>1. /\ saver' \in [Saver -> {"idle", "open", "retrying", "bumped"}]
      /\ updater' \in [Updater -> {"idle", "updated", "retrying"}]
  BY DEF CacheIInv, CacheTypeOK, Update, BumpByHand, CrashUpdate
<1>2. CASE Update(u)
  BY <1>1, <1>2, ChangeIInv DEF Update, Change
<1>3. CASE BumpByHand(u)
  BY <1>1, <1>3, BumpIInv, ChangeIInv DEF BumpByHand
<1>4. CASE CrashUpdate(u)
  BY <1>1, <1>4, ChangeIInv DEF CrashUpdate
<1>5. QED BY <1>2, <1>3, <1>4

-----------------------------------------------------------------------------
\* Every step preserves the invariant.
LEMMA CacheNextHolds == CacheIInv /\ [Next]_vars => CacheIInv'
<1> SUFFICES ASSUME CacheIInv, [Next]_vars PROVE CacheIInv'
  OBVIOUS
<1>1. CASE LoseVersion
  BY <1>1, CatalogCacheAssumption DEF LoseVersion, CacheIInv, CacheTypeOK, ReadersHaveKeys
<1>2. ASSUME NEW r \in Reader, NEW n \in Name, Look(r, n) PROVE CacheIInv'
  BY <1>2, LookIInv
<1>3. ASSUME NEW r \in Reader, Produce(r) PROVE CacheIInv'
  BY <1>3, ProduceIInv
<1>4. ASSUME NEW r \in Reader, Store(r) PROVE CacheIInv'
  BY <1>4, StoreIInv
<1>5. ASSUME NEW t \in Task, NEW n \in Recomputed, Compute(t, n) PROVE CacheIInv'
  BY <1>5, ComputeIInv
<1>6. ASSUME NEW t \in Task, StoreComputed(t) PROVE CacheIInv'
  BY <1>6, StoreComputedIInv
<1>7. ASSUME NEW n \in Name, NEW v \in Version, Expire(n, v) PROVE CacheIInv'
  BY <1>7, ExpireIInv
<1>8. ASSUME NEW s \in Saver,
             BeginSave(s) \/ invalidate_catalog_cache(s) \/ CommitSave(s) \/ RollBack(s)
      PROVE  CacheIInv'
  BY <1>8, SaverIInv
<1>9. ASSUME NEW u \in Updater, Update(u) \/ BumpByHand(u) \/ CrashUpdate(u) PROVE CacheIInv'
  BY <1>9, UpdaterIInv
<1>10. CASE UNCHANGED vars
  BY <1>10 DEF vars, CacheIInv, CacheTypeOK, ReadersHaveKeys, FutureIsEmpty, ValuesAreFresh
<1>11. QED
  BY <1>1, <1>2, <1>3, <1>4, <1>5, <1>6, <1>7, <1>8, <1>9, <1>10 DEF Next

\* It is an invariant.
LEMMA CacheIsIInv == Spec => []CacheIInv
  BY CacheInitHolds, CacheNextHolds, PTL DEF Spec

-----------------------------------------------------------------------------
\* For any lists, readers, tasks, transactions and bulk updates: as long as the version
\* key is never lost, a list that requests alone fill is served from a catalogue at least
\* as new as the one at the latest bump.
THEOREM FreshSinceBumpHolds == Spec => []FreshSinceBump
<1>1. CacheIInv => FreshSinceBump
  BY DEF CacheIInv, CacheTypeOK, ValuesAreFresh, FreshSinceBump, Version
<1>2. QED BY <1>1, CacheIsIInv, PTL
=============================================================================
