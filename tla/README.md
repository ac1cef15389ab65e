# A TLA+ verification of drama-vps

drama-vps is a Django site that streams drama series.  Users buy *coins* from
two payment providers or by manual top-up, and spend them on VIP subscriptions,
crowdfunded translations and gifts.  Around that sit the catalogue and its
cache, the video pipeline, comments, lists, notifications and a Telegram bot.
PostgreSQL (READ COMMITTED, no `ATOMIC_REQUESTS`) and Redis hold the state;
requests, webhooks, Celery workers and admins act on it concurrently.

This directory holds TLA+ models of that behaviour, TLC runs that check small
instances exhaustively, and TLAPS proofs for every value of the constants.

    tlc -workers 2 -config WalletForms.cfg MCWallet.tla      # one run
    tlapm WalletProofs.tla                                    # one proof module

`PROJECT.json` lists the runs, the mutants that show each property can fail, the
source lines behind each definition, the findings, the hazards and the theorems.

## Inventory

| Component | State | Operations | Hard part | Right when | Module |
|---|---|---|---|---|---|
| Coin wallet (`users/services/wallet.py`) | `Profile.balance`, `CoinTransaction` rows | `credit`, `debit` inside the caller's atomic block | row locks, rollback, deadlock, forms on the same row | balance = sum of ledger; no double spend | `Wallet`, `Ledger` |
| Coin orders (`billing/`) | `Order` | Payme Create/Perform/Cancel, Click Prepare/Complete | repeated, late and crossing callbacks; create is unlocked | credited once, and while it is paid | `Billing`, `OrderBook` |
| Subscriptions (`users/services/subscriptions.py`, `users/tasks.py`) | `Subscription`, the profile's cached flag | purchase, cancel, renew or expire, toggle | sweep over a stale list, unlocked cancel and forms | one active row; days granted = days paid; cache = rows | `Subscriptions` |
| Top-ups (`users/models.py`, `users/admin.py`) | request status | request, approve, reject, daily clean-up | status read unlocked; credit before save | credited while approved | `TopUp` |
| Crowdfunding (`funding/`) | project status and sum, contributions | contribute, cancel and refund, admin page | refund of many, stale page | sum = contributions; all refunded, once | `Funding` |
| Video upload, new-episode news (`drama/tasks.py`, `drama/webhooks.py`, `drama/admin.py`) | file, GUID, `upload_status`, `followers_notified_at` | upload task, retries, encoder webhook, admin forms and actions, fan-out | several tasks, webhooks and whole-row saves per row, none of them locked | last file plays; no file lost; told once | `Videos` |
| Reviews and moderation (`drama/views.py`, `drama/admin.py`) | reviews, reactions, `like_count`, reports | comment, like, report, accept, reject, hide, reopen | denormalised counter; check-then-write of the threshold | count = likes; moderated comments stay hidden | `Reviews` |
| Catalogue cache (`drama/cache.py`) | version, keyed values | get or produce, recompute, bump | slow producer, bump before commit, lost version | nothing older than the last bump; current in the end | `CatalogCache` |
| Browsing (`drama/recommendations.py`, `facets.py`, `tasks.py`, `signals.py`) | status and dates of movies; carousels and facets in the cache | compute and store, recompute task, scheduled publishing, status edits | values are stored after the catalogue has moved on | cached carousels are those of the catalogue; counts = filter | `Browsing` |
| Search index (`drama/signals.py`, `drama/tasks.py`) | `Movie.search_vector` | queue and run `update_search_vector` | tasks in any order, cast read early | index = movie, once tasks are done | `SearchIndex` |
| Lists, ratings, XP (`drama/views.py`, `users/api/`, `drama/tasks.py`) | list entries, rating, `xp` | add, rate, delete, move by the API, recompute, profile forms | unlocked read and write, whole-row saves | rating and XP match the rows | `Lists` |
| Watching (`drama/views.py`, `services/playback.py`) | one row per user and episode | play, report, finish, queue the next | several tabs | the next episode is there | `Watching` |
| Gifts (`drama/views.py`) | gifts, totals | send | two rows, lock order, stale admin page | totals = gifts = coins spent | `Gifts` |
| Pictures (`core/images.py`, `drama/tasks.py`, `users/signals.py`, `services/tmdb.py`) | names of files in a bucket that overwrites | upload, optimise, card, import, download | rows and files change meanwhile, names recur | no row refers to a deleted file; last upload shown | `Pictures` |
| Follow and block (`users/views.py`) | follows, blocks, notifications | follow, unfollow, block, read | check, add and notify are three statements | one notification per follow | `Social` |
| Collections (`users/views.py`) | items, `updated_at`, the cached page | add, remove, move, publish, delete, show; deletion of a movie | change and touch are two statements | cached page = items | `Collections` |
| Telegram bot (`core/telegram_bot.py`) | link tokens, chat ids | start, stop, unlink, push | read and delete of a token, repeated updates | one chat, one profile | `TelegramBot` |
| Sign-in (`users/services/`) | users, social accounts, addresses | register, verify, change address, Telegram login | lost race inside a transaction, forms, spellings of one address | everybody can return; a verified address was opened | `SignIn` |
| Translations (`core/i18n_catalog.py`) | sources, `.po`, `.mo` | extract, merge, translate, compile, check | plurals that come and go | no translation is lost | `Translations` |
| Monitoring (`core/tasks.py`, `core/monitoring.py`) | cooldown keys, queued alerts | look, alert, retry | overlapping rounds; the cache and the broker it reports on are the ones it uses | held back exactly for the hour, no repeat within it | `Monitoring` |

How they interact: everything that moves coins calls the wallet inside its own
transaction.  `Billing`, `Subscriptions`, `TopUp`, `Funding` and `Gifts` see it
through what `Ledger` promises (a credit or a debit takes effect with its block or
not at all, and an overdraft is refused), which `Wallet` is shown to implement;
that is why one wallet call is part of one step of theirs.  Saving a movie or an
episode sends signals that bump the catalogue's version, queue the index and the
fan-out, and the queues are part of the module that drains them.  `CatalogCache`
answers for the races of cached values as such; `Browsing` and `Collections` say
what is in them.

## Modules

| Area | Modules | Instances |
|---|---|---|
| Money | `Ledger`, `Wallet`, `OrderBook`, `Billing`, `Subscriptions`, `TopUp`, `Funding` | `MCWallet`, `MCBilling`, `MCSubscriptions`, `MCTopUp`, `MCFunding` |
| Content | `Videos`, `Reviews`; `CatalogCache` | `MCContent`; `MCCatalogCache` |
| Viewers | `Site` (users, tabs, movies), `Lists`, `Gifts`, `Watching`, `Pictures`, `Social` | `MCViewing` |
| Visitors | `Site`, `TelegramBot`, `SignIn`, `Collections`, `Browsing`; `SearchIndex`, `Translations`, `Monitoring` | `MCVisitors` |
| Proofs | `WalletProofs`, `BillingProofs`, `SubscriptionsProofs`, `TopUpProofs`; `FundingProofs` (with `Gifts`); `ContentProofs` (`Videos`, `Reviews`, `CatalogCache`); `ViewingProofs` (`Lists`, `Social`, `Pictures`, `Watching`); `VisitorsProofs` (all of `MCVisitors`) | |

`MCContent`, `MCViewing` and `MCVisitors` put modules that share no variable into one
run: a variable `part`, chosen in the initial state, says which of them moves, so
that each is explored alone and the state spaces add up instead of multiplying.

## How the models correspond to the code

A block that takes `select_for_update` first and writes only what the lock covers
is one step, because nobody else can see or change the row until it commits.
Everything else - a read without a lock, a form, a task, an admin action outside a
transaction - is split where another actor can get in.  Refusals (an error
answer, an early return, a redirect) change nothing and appear as guards.  A
worker or a request that dies between two steps is an action of its own, wherever
the code leaves something half done.  Histories (`lost`, `raced`, `crossed`,
`mishap`, ...) are never read by a guard; they count or name the mishaps the code
does have, so that a property can say exactly what holds besides them.

### Wallet

`balance` and `ledger` are the committed column and `SUM(CoinTransaction.amount)`.
A `Client` is a request, webhook or task inside `transaction.atomic()`: `Begin`,
any number of `Credit`/`Debit` calls, then `Commit` or `Rollback` (an exception,
a crash).  `Apply` is `_apply`: it needs the row lock (`holder`), reads the locked
row and keeps the new balance (`view`) and ledger rows (`posted`) private until
the commit.  `Refuse` is `InsufficientFundsError`; the savepoint of `_apply`
rolls back, the caller may go on.  `DeadlockAbort` is PostgreSQL breaking a cycle
of waiters.  An `Editor` is a whole-row save of a profile form (`settings_view`,
`ProfileInline`): `LoadForm` reads, `SaveForm` writes the balance it has read, and
the history `lost` keeps the difference.

### Billing

Variables are the columns of `Order` plus the order's ledger sum (`net`), the
buyer's `balance`, and histories of what providers were answered.
`PerformTransaction`, `CancelTransaction`, `CompleteSuccess` and `CompleteError`
hold the order's row lock and are single steps that contain `MarkPaid` or
`MarkCanceled`.  Payme's `create_transaction` and Click's `prepare` are two:
`ReadForClaim` passes all checks, `SaveClaim` writes, and `LoseClaim` is the
worker dying in between.  A callback is enabled for as long as the order still
carries its transaction, so any repetition, delay or reordering is a behaviour.
`PerformExpired` changes no row: the code saves a cancellation, then raises inside
the atomic block, which undoes it.  Signatures are taken as valid.  A provider
performs, cancels or completes only a transaction whose create was saved.
`status = "canceled"` can become `"paid"` again (a late confirmation), and
`OrderBook` says so.

### Subscriptions

Variables are the columns of `Subscription`, plan prices, the profile's balance
and cache, and the pages and tasks in flight.  `purchase` is `Extend` or `Open`,
`close_or_renew` is `Skip`, `Renew`, `Expire`, or `Abort` when `wallet.debit`
raises `ValueError`.  `expire_premium` is `StartSweep` (the query), one visit per
row, and `FinishSweep` (premium given by hand that has run out).  The second look that
a visit takes under the row's lock is `MustClose`; `PeriodsDoNotOverlap` says what it
is for: no time is sold to a profile twice.  `cancel` is
`CancelSave`, `CancelRead`, `CancelSync`, because it has neither lock nor
transaction.  Forms are as in the wallet.  `paid` is a history: the days bought by
the ledger rows `subscription:<pk>`.  Time is a counter in units of a plan's
duration; `NoEnd` (0) is NULL.  Prices are read when the money is taken.  Left out:
hand-editing an existing subscription in the admin, and the kill of a sweep by
Celery's 30-minute limit (its next run starts over from the rows).

### TopUp

`status` is the row's column, `net` the sum of its ledger rows.  A submission is
`CheckSubmit` (the query for a pending request) and `Submit` (the save).  The heart
is `save()` of the two request models: it reads the old status (`Read`), moves the
coins (`MoveCoins`), and writes the new one (`Write`).  The list action runs outside
a transaction, so these are three steps per row (`ApproveRead`, `ApproveMove`,
`ApproveSave`) after the query that makes the list (`ListPending`).  The change page
is wrapped in a transaction by the admin site, so it is two: `FormRead`, and
`FormCommit` with the coins and the row.  `Die` is any exception or crash on the way:
a refused credit (whether it is refused depends on debts made elsewhere), a mail
queue that is down, a killed worker; in the list action coins that have moved stay.
`RejectPending` is the bulk update of the admin's reject action and of the nightly
clean-up, which never calls `save()`.  `AdminAdd` is the admin's "add" page.

Histories: `raced` are rows whose saves overlapped with another write, `crowded` rows
of users who submitted twice at once or had a request reopened, and `drift` counts the
two mishaps a single save is capable of: coins given and the row not saved (+1), a row
that was not pending approved without coins (-1).  Left out: deleting a request and
giving it to another user by hand.

### Funding

A contribution is two steps: `process_funding` takes the project's row lock and reads
what it decides by, `contribute` debits, writes the contribution, the sum and the new
status, and commits; `Refuse` ends it without effect, a refused debit for one.
`cancel_project` holds the row while it refunds the contributions that are held
(`Pending`), in one transaction that also ends without effect (`AbortCancel`) when a
refund is refused; `Clawback` is what makes it so: coins taken from a contributor by
a cancelled order.  The admin's page is `OpenPage`, `clean_status` (the comparison
with the row) and `SavePage` (all columns); `lost` and `raced` are what such a page
has overwritten.

### Videos and Reviews (`MCContent`)

`Videos` follows a file: `Attach` (the admin's save and the queued task), `Take`,
`CreateVideo`, `UploadVideo`, `StoreGuid`, `Poll`, `DeleteFile` and `Finish`, or
`MarkFailed`, with `RetryTask` after any of them (Celery's retry starts from the row)
and `Drop` for a task that is lost with its worker (tasks are acknowledged when taken).
Any number of tasks of one episode may wait or run.  The encoder reports `processing`,
`finished` and `error`; a report stays deliverable, so webhooks come late, repeatedly,
in any order or not at all.  The fan-out locks the row (`LockForNews`) and commits with
its notifications (`Tell`).

The forms of an episode (its own page and the inline of its movie) show the GUID in a
text field and save all columns: `OpenPage` is the GUID that the browser has, `LoadRow`
the row as the request loads it, `SaveRow` and `Attach` the save without and with a new
file.  The GUID saved is the one shown, none, or that of any video the encoder has
(`FormGuids`, `UploadByHand`).  Two histories name what comes of it: `crossed` are
episodes whose pipeline was started over while it ran, that got a file on top of a GUID,
or whose file, GUID or status such a save has changed; `forgotten` are those whose
`followers_notified_at` it has put back to NULL.  For them the code does lose uploads
and tells twice (see the findings), and the properties say nothing.

`Reviews` cuts each handler at its statements: un-like is a delete and a decrement
(`Unlike`, `Lower`), a report is `report_review`, `CreateReport`, `CountReports` and
`Hide`, an acceptance `accept_and_hide` and `CloseReports`, a rejection
`reject_reports`, then `CheckReopen` and `Reopen` per comment.  `edited` are
comments an admin saved from a form (which writes the counter it has loaded), `mishap`
those where a request died halfway, and `overtaken` those that a rejection reopened
although a report or an acceptance had come in after its check (`Relying`).

### CatalogCache

The catalogue is a counter of committed changes, and a cached value is the counter it
was computed from.  `Look` makes the key (the version is read first), `Produce`
computes, `Store` writes under the key made before; the recompute task computes first
and makes its key afterwards.  A saving transaction bumps inside (`post_save`) and
commits later; a bulk update commits at once and bumps afterwards, or dies in between
(`CrashUpdate`).  Keys expire; the version key, which has no timeout, is lost with
the cache (`LoseVersion`) and starts again at a number that was used before.

### Lists, Gifts, Watching, Pictures, Social (`MCViewing`)

`Lists`: `add_to_list` loads the row, `SaveEntry` writes it and queues the
recomputation, `Award` writes the XP that was computed from the profile loaded
earlier.  `recompute_movie_rating` is `ReadScores` and `WriteRating`.  The API writes
rows too (`ApiSaveEntry`), and a PATCH may move one to another movie (`ApiMoveEntry`), of
which the signal queues the new one only.  Movies whose job was lost with the broker,
whose rating was saved with their form or written after a newer one, and those a row was
moved away from are `unsettled` until their next job.  The settings form, the profile
endpoint and the admin's inline save the whole profile (`LoadProfile`, `SaveProfile`)
with the XP it had; what that overwrites is in `lost`.  `Gifts`: one
transaction, begun with the actor's lock and ended by `GiveGift` or `RefuseGift`; the
admin's actor page saves the total it has loaded.  `Watching`: `get_episode_access`
is the playback decision as an operator; finishing an episode saves it, then finds
(`FindNext`) and queues the next (`_queue_next_episode`).  `continue_watching` is a
function on the places of the latest open row of each movie.  The API's writes, which
queue nothing, are there too.  `Pictures`: a file is a picture and a form, so that the
properties can tell whose picture is shown in which shape; the optimiser is cut at
every write (shrink, update of the row, deletion of the original, card), downloads
likewise, and saves of forms write the names they have loaded (`Load`, `Keep`).  Files
are known by their names in a bucket that overwrites: posters and photos keep the name
they are uploaded under, so `Upload` may bring a name that was given before, to this row
or to another of the same directory (`MayName`), and the file of that name is there
again, with another picture in it; `FailUpload` is such an upload whose save is rolled
back.  A download is stored under the row's name, a second time when a second movie with
the same actor is imported.  `reused` are the rows with a name stored twice; a task may
still delete, under that name, what is now theirs.  Avatars get a new name at every
save.  `given` and `fetched` are the pictures a row ever had, for the sake of the card,
which is made once.  The command `optimize_images` queues the same task for what is not
WEBP yet; a file it has shrunk is deleted (`DeleteOld`) whatever else refers to it, the
avatar new profiles share included.  Rows, pictures and workers are distinct values,
because a name is the set of those it is of (`PicturesAssumption`).
`Social`: `follow_user`, `follow`, `notify`.

### TelegramBot, SignIn, Collections, Browsing, SearchIndex, Translations, Monitoring (`MCVisitors`)

`TelegramBot`: `_cmd_start` reads the token, then deletes it, looks for a profile
with the chat, and writes, in four steps; Telegram may deliver the same update to
two workers.  Two writes of one chat are kept apart by the unique constraint
(`Unique`).  `SignIn`: forms validate an address and save it later; the constraints
on social accounts and verified addresses are those of the database, and a lost race
undoes the block (`LoseLogin`).  An `Email` is a spelling: forms, links and
`is_verified` compare without its case (`Same`), rows and constraints keep it.
`Collections`: every change of items is followed by `_touch_collection` in another
statement; the page is stored under the `updated_at` it was opened with.  Movies are
published, withdrawn and deleted (`DeleteMovie`, which cascades to the items) without a
touch; such collections are `unsure` until the next one.

`Browsing` is what the catalogue cache keeps: trending and similar movies and the
facets, computed from the movies that are published at that moment.  `Miss` makes the key
with the version in it, `Compute` and `get_or_set_catalog` compute and store under that
key; `recompute_trending_movies` computes first and makes its key when it stores
(`StoreTrending`), which is why trending ids may be of an older catalogue than their
version (`crossed`).  `SetStatus` and `publish_scheduled_movies` bump, `ComesDue` does
not (`aged`).  Ranking is by activity, shared tags and genres; any order of equals is
allowed.  Bumps before the commit are left to `CatalogCache`.  The pages that query
`published()` at each request keep nothing and are not modelled.  Nor are those that
list movies without it: a profile's history and list (users/views.py:184-186, 219,
337-341) and "continue watching" (users/selectors.py:20-31) go on showing a movie that
was withdrawn, which is one of the findings.

`SearchIndex`: queue, read the cast, write the vector.  `Translations`: entries with
msgid, plural, msgstr and fuzzy mark; `apply_existing` carries translations over, the
two `--check`s are operators.  `Monitoring`: `collect_problems`, then per problem the
cooldown key (`LookUp`) and the alert (`Alert`), the cache being one of the problems.
Rounds of two workers overlap: `overlapped` are those that had found a problem not held
back when another told it (`Rivals`), and `again` would be a problem told twice within
the hour by a worker that was not.

## Runs

Bounds are constants of the modules and appear in guards (`MaxCalls`, `MaxBalance`,
`MaxInFlight`, `MaxCredits`, `MaxTime`, `MaxMoves`, `MaxTasks`, `MaxNews`, `MaxJobs`,
`MaxCatalog`, `MaxVersion`, `MaxEpisode`, `MaxShrinks`, `Backfilled`, `Deletable`, `MaxFollows`, `MaxUpdates`,
`MaxEdits`, `MaxTranslations`, `MaxAlerts`, `MaxRetries`) or are sizes of sets of
things that can be made (`Sub`, `Contribution`, `Guid`, `File`, `Review`, `Token`).

| Run | Question | Bounds and why they are enough |
|---|---|---|
| `WalletBlocks` | balance = ledger, no overdraft, every block ends | two blocks, two profiles, two calls each: every lock conflict, read-own-write, cross-lock deadlock and refusal needs two clients |
| `WalletForms` | with a form in play: does a holder compute with what is committed, and is `Ledger` implemented | one contended row, two amounts |
| `BillingSafety` | what an order gave is its status, a performed one is honoured, credited once, refinement of `OrderBook` | two rival transactions on a Payme order, one on a Click order, two creates in flight, three amounts (one too small, one nobody's charge) |
| `BillingLateComplete` | is a Click order credited once, as its comments say | violated: confirmation, reversal, redelivered confirmation |
| `SubscriptionsSafety` | one active row, days paid = granted, no time sold twice | two sweeps, two rows, a cancelling admin, a stale form, a gift, a price that drops to 0, four coins, four time units of which one is a period: two purchases and two renewals, one of them by an outdated list |
| `SubscriptionsLiveness` | is what ran out settled, and the cached flag right until then | two buyers, two sweeps, a toggling tab, five time units |
| `TopUpSafety` | are the coins given the status, is one request pending | two requests of one user, two admins, three coin movements each: approve, take back, approve again; overlapping saves |
| `FundingSafety` | is the sum the contributions, does a cancellation return all once | two contributors, two requests, two pages, a cancelling admin, a clawback; target two, so that a project is reached by one or by two contributions |
| `ContentSafety` | last file plays, told once, likes not overstated, hidden when due | one episode, two workers, files and GUIDs, two upload tasks, one waiting fan-out: a retry beside a running task, a webhook while another worker tells; one form, open while the movie is public; two users with three tabs, two comments, threshold 2 so that two reports cross it |
| `CatalogFresh` | nothing older than the bump, current in the end | a reader, a task, a saver and an updater, two changes, three versions: a producer that spans a bump, a version lost and reused |
| `ViewingSafety` | ratings, XP, gifts, next episode, files, uploads, follows | two tabs and two workers at each shared row; two movies to score and to move a row between; three episodes; two pictures, each of which may be uploaded again, two imports that share an actor, one avatar that the command optimises; pairs follow twice |
| `VisitorsSafety` | links, accounts, addresses, collection pages, carousels, facets, index, translations, alerts | two of each actor that races; two movies that share a genre, carousels of two; three addresses, two of them spellings of one; two problems, one of them the cache |

Properties that name mishaps (`edited`, `unsettled`, `spoilt`, ...) say nothing of a
state after one, so the constraints `Undisturbed` of `MCContent`, `MCViewing` and
`MCVisitors` do not continue such states: they are checked, their successors are not
generated.  The other conjuncts of these constraints bound how many things happen at
a time and are explained where they stand.  Symmetry is over values that no
definition tells apart, and is not used where liveness is checked.

`CHECK_DEADLOCK FALSE` is set in the two billing runs, where finitely many orders
come to rest.

Each property of a passing run has a mutant: a plausible bug in the code it is about
(a lock not taken, a check dropped, a value read too late) under which TLC finds
it violated.

## Findings

Where a comment or a documented promise fails, the passing runs check what does hold
besides it.  One disagreement has a run of its own (`BillingLateComplete`); the others
came to light while modelling, and are listed in `PROJECT.json` with the sentence
each contradicts.  Those of the money, with the instance that shows them:

| Finding | Instance that shows it |
|---|---|
| a stale settings form overwrites a credit | `BalanceIsLedger` with `Editor = {e1}` |
| a credit to a profile in debt is refused for lack of funds | the guard `Creditable` of `Billing` |
| the cancellation of an outdated transaction is rolled back | the action `PerformExpired` of `Billing` |
| two Payme transactions are both told the order is theirs; a delayed duplicate create reopens a cancelled order | `CreditedOnce` with `Provider <- AllPayme`, `MaxInFlight = 2` |
| a purchase during a cancel is paid for and hidden; a stale form takes premium away; a gift entered in the admin opens nothing | `CacheAgrees` with `Canceller = {a1}`; with `Form = {f1}`; with `Gifted = {p1}` |
| a plan of price 0 stops every sweep | `DueIsSettled` with `Prices = {0, 1}` |
| two pages read "pending" and both credit; a rejected request that is approved gives nothing | `raced` and `drift` in `TopUpSafety` |
| a stale page of a project undoes contributions, or reopens a cancelled one | `lost` and `raced` in `FundingSafety` |

Of the rest: an episode whose upload is restarted while a task runs, or whose GUID an old
form puts back (`crossed`), followers told again after such a save (`forgotten`), an
un-like repeated (`Lower` when the delete found nothing), a rejection on the filtered
list (`reject_reports` picks no comment) or one that reopens what was reported meanwhile
(`overtaken`), XP overwritten by a profile form (`lost`), a rating that keeps the score
of a row moved away (`unsettled`), a new poster without a new card, an avatar deleted by
a stale save (`spoilt`), a picture overwritten or deleted under a name used twice
(`reused`), the shared avatar deleted by `optimize_images` (`Shrunk` of `Default`), a
list cached between bump and commit, a deleted movie on a cached collection page
(`unsure`), two spellings of one address verified for two users (`Same`), a problem told
by two overlapping rounds (`overlapped`), and withdrawn movies on the pages that do not
filter.

## Fairness

`WalletBlocks`: a block's code runs to its end (weak fairness on commit or
rollback), PostgreSQL's lock queue serves a waiter (strong fairness on `Apply` or
`Refuse`: the row becomes free again and again), and its detector breaks cycles
(weak).  Nobody has to open a block or submit a form.

`SubscriptionsLiveness`: Celery beat starts the sweep every hour and a started task
runs on (weak fairness per worker).  Nobody has to buy, toggle, cancel or edit.

`CatalogFresh`: a request or a task that has begun to produce goes on, a transaction
ends, and the timeouts of keys run out (weak fairness each).  Nobody has to read,
change the catalogue or bump it; that alone, the timeouts, makes `EventuallyCurrent`
true even where a bump was forgotten or came too early.

## Theorems

All proofs assume only the named `ASSUME` of each module, and two theorems a hypothesis
of their own (`BalanceIsLedgerHolds`, `CacheAgreesHolds`).

* `WalletProofs`.  Type correctness is inductive.  `IInv` adds that a free row has no
  private state and that a holder whose view is negative either forced it or
  found the row negative; with it `Isolation` is inductive, profile forms included.
  From `Isolation`, a step moves coins in one of two ways (`CoinsMove`): a commit
  moves balance and ledger alike, a form save moves one balance and `lost`, the
  history of what form saves have taken away.  That gives `CoinsAccountedHolds`,
  `NoOverdraftHolds` and `WalletImplementsLedger` without assumptions, and
  `BalanceIsLedgerHolds` for `Editor = {}`, which it must assume.
* `BillingProofs`.  `IInv` strengthens the properties with: a claim on an order fits
  its amount and exists only after checkout; an order without a claim was never
  touched by a callback; without overlap a claim is the only one, and
  `provider_state` records how far its one life has gone.  One lemma per conjunct,
  one step per handler.  `BillingImplementsOrderBook` maps every callback to `Settle`,
  `Void` or a stutter.  `StateAgreesHolds`, `PaidWasChargedHolds` and
  `ExclusiveUnlessOverlapHolds` are conjuncts worth stating that no run repeats.
* `SubscriptionsProofs`.  `IInv` adds that existing rows name a profile and a plan, that
  rows not yet created have bought nothing, and that pages are open at existing rows.
  For `PeriodsDoNotOverlapHolds` it adds that rows are created in order, that an expired
  one has come to its end, and that the active row of a profile is its last (`Sequel`): a
  renewal moves the end of that one only, and a new row starts when it has ended.
  `CacheAgreesHolds` assumes what it needs, `Canceller = Form = Gifted = {}`: then the
  cached flag of a profile is that of its active row, or off when that row has run out,
  and off if it has none (`SyncedCache`).  Each of the three breaks it (see the findings).
* `TopUpProofs`.  `IInv` adds, for rows not in `raced`, that one admin at most is
  saving the row and that what its `save()` has read is still the status; with both,
  each save moves `net` by what it moves `Owed`, which is `NetIsExplainedHolds`.  For
  rows not in `crowded` it adds that a submission that has looked sees no pending
  sibling until it is saved and that nobody else is submitting, which is what
  `OnePendingHolds` needs.
* `FundingProofs`.  Both modules keep a total beside the rows it adds up, and the
  properties say so with a fold (`MapThenSumSet`), which the library defines by a chosen
  function.  The first part shows that this function exists and is unique on a finite
  set, by choosing the least size at which it would fail (the library's induction over
  naturals takes an operator and cannot be used), and then what one more element and
  one changed number do to a sum.  `FundingIInv` adds to the sum that one request or
  admin holds a project and has read it as it is, that rows are finitely many, and that
  a page about to be saved shows what it was checked against.  `CollectedAccountedHolds`
  and `MoneyIsReturnedHolds` follow, and `GiftsAccountedHolds`, for finite sets of users
  and actors (the tables are), from the actor's lock.
* `ContentProofs`.  `UploadsArrive` alone is not inductive: `VideosIInv` follows the file
  from the task to the video (`VideosGrow`: a video is filled once, by the task that
  created it, and a finished one stays finished), keeps files of episodes apart, says that
  an episode without a GUID has one task, that every later task polls the GUID of the row,
  that what a form shows was in the row (`PagesAreTrue`), and that webhooks tell the truth
  about a video (`HooksAreTrue`), whenever they come.  Episodes whose video a hand or a
  stale save has changed (`crossed`) are counted out of what ties the task to the row.
  For `ToldOnce`, the fan-out that holds the row is alone, with `followers_notified_at`
  still empty; a stale save that empties it again is counted in `forgotten`.  Of `Reviews`: `like_count` is at most the likes and the tabs that are
  about to lower it, sets that a step changes by one; and a comment at the threshold is
  hidden or has a tab on its way to hide it (`PendingAreWatched`), one that is being
  accepted is hidden before its reports close (`AcceptedAreHidden`); a comment that was
  reopened while an admin relied on its closing is counted out in `overtaken`.  Of the cache: what
  a reader holds under a key of the present version, and what is stored there, is at
  least as new as the catalogue at that version's bump.  Lists that tasks write, and a
  version that starts again, are where this fails.
* `ViewingProofs`.  `RatingIsComing`: a rating is that of the scores, or a recomputation
  waits, or one is about to write what the scores are; a task that was overtaken counts
  for nothing, and a movie whose row moved to another is `unsettled` until it is computed
  again.  The XP of a user, with those that form saves have put back (`lost`), are short
  by the awards his tabs still have to write, and no request has loaded more than were
  written or lost (`XpBounded`).
  A pair's notifications are numbered, so that each follow has its own (`Numbered`,
  `Answered`).  `PicIInv` is the largest: what a row or a worker holds was uploaded or
  downloaded for that row, and a name that two rows were given puts both in `reused`
  (`Owned`); a row that nothing was fetched for holds no download (`FirstDownload`), and
  a card of it shows an upload of its movie (`Cards`); for rows neither `spoilt` nor
  `reused`, what a worker is to store has never been deleted, what it is to delete the row
  refers to no more, and what the row refers to is there (`FirstShrunk`); a row neither
  `rushed` nor `spoilt` and the tasks busy with it agree on the upload (`OnLatest`).
  `PicturesExistHolds` and `LatestUploadShownHolds` read off it.  `NextIsQueued` says nothing while a request is on its way, so `QueuesFilled`
  does: after each finished episode the first unfinished one is started, or a request that
  has finished an episode between the two has looked for nothing yet or found that one; with
  `RowsPlaced` (a started row has its place in the list) it is inductive.
* `VisitorsProofs`.  A token was drawn before anybody holds it, is gone once it has
  linked, and has one holder unless it is `shared`; two profiles never have one chat.  No
  step takes a user's last way in, and a row is verified only by a link sent to a spelling of
  its address, and no spelling is verified for two; that two spellings of one address are
  is a finding, and the theorem says nothing of it.  A collection's fragment under the present `updated_at` is its page or a touch is
  still to come, and nothing is stored under a future one (`KeysToCome`).  A film's vector
  is current, or a task waits, or works with what is current (`Current`, `ReadCurrent`).
  Of the lists in the cache (`SlotsIInv`): what is stored, and what a reader is about to
  store under the present version, is what would be computed now, for a bump empties the
  slots and leaves those who compute with an old key; until a movie comes due (`aged`),
  and but for trending ids computed before a bump and stored after it (`crossed`).  Both
  `CarouselsAreCurrentHolds` and `FacetsAgreeHolds` read off it.  The `.po`
  has one entry per string, with the translator's text, and with a plural if the last
  extraction found one (`PoEntries`).  A cooldown key and the alert it was set for age
  together (`KeyAgesWithAlert`), and who is about to tell a problem has found its hour
  over or has looked before another told it (`FoundOnce`, `overlapped`): so no other
  alert comes `again` within the hour.

Every safety property and action property that a run checks is thereby proved, for
every value of the constants the assumptions allow.  Only model-checked are the three
liveness properties (`EveryBlockEnds`, `DueIsSettled`, `EventuallyCurrent`), which the
proof system does not handle.  For `CreditedOnce`, which `BillingLateComplete` refutes,
`CreditedOnceUnlessOverlapHolds` is what is true of Payme orders.

## Not modelled

* Health and metrics endpoints, the blog (its cache has the shape of the catalogue's),
  validators, SEO, PWA, middleware, two-factor setup, the audit log, pagination and
  serialisation: they read, format, filter or log and keep no state others race for.
* `FundingContributorAdmin` (contributors edited by hand), the request behind each page of
  the catalogue, and the read-only viewsets of the API.
* The formats of `.po` and `.mo`, the relevance of search results and the search log,
  signatures of Payme, Click, Bunny and Telegram (taken as valid), the TMDB client,
  the bot's `/search`.
* Creating, deleting or reassigning orders, requests, projects and subscriptions by
  hand in the admin; Celery's 30-minute kill of a sweep, whose next run starts over.
* The upload of films without episodes: the same task on another table, without the
  fan-out.
* `docs/`, deployment scripts, templates and static files.
