# HiveWiki web: a TLA+ model

HiveWiki web is a Django application (one ASGI process or several, PostgreSQL,
a Valkey cache) with a community board, a wiki fed by an external pipeline, and
an administration console. This directory models the parts of it that keep
state which several requests read and write, checks them with TLC on small
instances, and proves the most important results with TLAPS for every instance.

All paths below are relative to the repository.

## 1. How the program runs

Requests are independent: each reads rows and cache entries, decides in Python,
and writes. `DATABASES` uses PostgreSQL's default isolation (READ COMMITTED) and
Django's autocommit: **a request is not a transaction**, unless a function says
`transaction.atomic()`. Four do so and hold a row from one statement to the next
(`get_or_create_user_from_oauth_profile`, `link_oauth_account_to_user`, the
deletion of a user and `PostForm.save`, whose first UPDATE locks the row). Sessions live in the cache
(`SESSION_ENGINE`), as do the login rate limit, the index of a user's sessions,
the unread count, the deduplication keys of notifications and rendered wiki pages;
cache operations are atomic one by one and not together.

So the models share one shape. A variable holds the committed rows or cache
entries; a variable `req` (or `request`, `sync`) holds, for each slot of a constant set `Requests`,
where the request in this slot is and what it has read. Each action is the code
between two accesses to shared state. With one slot the server handles one
request at a time; with two or three, requests interleave at every access.

## 2. Inventory

| Component | State | Operations | Interacts with | Hard behaviour | What makes it correct | Module |
|---|---|---|---|---|---|---|
| User accounts (`apps/accounts/{models,forms,services,views}.py`, `apps/core/views.py` user management) | `users` rows: status, role, username, email, password | sign up (form, provider), profile edit, password change; promote, demote, suspend, activate, delete | sessions (purge), provider accounts (deleted with the user) | every writer is read, decide, UPDATE, without lock or version; the profile form writes every loaded column | names unique; deletion is final and scrubs; role and status change by administrators only; somebody can administer | `UserLifecycle` |
| Sessions (`services.py` 377-483, `middleware.py`) | sessions by key; index of keys per user | login, also over the session of another user, tracking at every request, logout, timezone, purge | user status | the index is read, modified and written; a purge reads it once; a browser changes users | every session is tracked; purge ends all; never another user's | `Sessions` |
| Login rate limit (`services.py` 202-271) | attempts, end of window, timeout | check, failure, success | login view | read and set; whole-second timeouts; overlapping failures | tries are limited, lockouts for cause and over with their window | `LoginRateLimit` |
| Provider accounts (`services.py` 790-906) | `oauth_accounts` rows, row locks | login through a provider, link, deletion | users | two lock orders; unique index races; deletion against link | deleted users own nothing; one account per provider | `OAuthAccounts` |
| OAuth flow (`services.py` 346-374, 559-762; `views.py` 366-529) | state and pending confirmation in the session | start, callback, confirm; login and logout around it | provider accounts, sessions | several tabs save one session whole; reloads; a confirmation page outlives its token; an error page saves nothing | a state is accepted once, or again when the request that took it died; the flow begun last can be finished; nobody is linked who did not ask | `OAuthFlow` |
| Notifications (`notifications.py`; `views.py` 656-739; `core/views.py` 369-396) | rows, dedupe key, cached number | notify, mark one or all read, show the number | likes, comments | key taken by a request that dies; count before, cache after; death before invalidation | equal ones apart, none lost without failure; the number right in the end | `Notifications` |
| Posts and drafts (`core/views.py` 148-194, 336-366, 1299-1317, 2412-2428, 2650-2666; `core/forms.py` 175-293; `core/models.py` 117-193) | post rows, cached columns, labels (tags and wiki documents) | compose, save as draft, edit, delete, restore | tags, search | a submission is several statements; a moderation saves columns derived from a text read earlier | a post is one whole submission; no edit undoes a deletion; the search knows the text | `Posts` |
| Lists, likes and bookmarks (`core/views.py` 82-145, 399-424, 474-506, 890-1059, 1731-1752; `accounts/views.py` 83-214; `core/search.py`) | the rows of likes and bookmarks | toggle; a dozen lists | posts, comments, wiki pages | each list has its own filter; a mark outlives what it marks | what is listed opens; what opens is found again | `Listings` |
| Compose form (`static/js/app.js` 923-1400; `core/views.py` 148-194, 590-624, 1213-1316; `core/forms.py` 186-293) | chips in a tab, draft stored | load, load draft, pick, remove, submit, refuse | posts, wiki pages | search answers that are late; drafts published elsewhere; documents withdrawn | the limit; labels that are true; no published post written over | `ComposeForm` |
| Comments (`core/views.py` 427-550, 1503-1583; `notifications.py` 209-244) | a forest of rows | create, reply, edit | posts, notifications | replies looked for without their post; an unbounded walk to the root; parents deleted while answered | every thread shown whole, the walk ends; each concerned is told once | `CommentThreads` |
| Tags (`core/forms.py` 24-76, 236-321; `core/views.py` 1878-1911, 2450-2466) | names, slugs | create on use, administer | posts | two posts create one tag; suffixes run out; opposite orders deadlock | one tag per name; no needless failure; every submission ends | `Tags` |
| Wiki pages (`core/views.py` 681-851, 2431, 2669; `markdown_rendering.py`) | documents, revisions, rendered texts in the cache | open, publish, archive, delete | embeddings, seed command, pipeline | the cache is keyed by revision, and the seed command rewrites revisions | a page shows its revision | `WikiPages` |
| Recommended pages (`core/views.py` 1062-1192) | none | up to four queries | embeddings | pages published and withdrawn between queries | no page twice, none itself, as many as can be | `RelatedPages` |
| Wiki embeddings (`core/wiki_embeddings.py`, `core/signals.py`, `backfill_wiki_embeddings.py`) | vector, revision and hash per document | synchronise after every save, backfill | embedding service, pipeline, seed command | a slow answer for an old revision, or of another length; failures and crashes; the save that completes a document may be any of four | the row describes the document as it was at one time, and in the end as it is | `WikiEmbeddings` |
| Ingestion console (`core/views.py` 1912-2234, 2469-2499, 2538-2570; `core/forms.py` 79-172; `core/models.py` 418-508) | sources, their documents and jobs | create, edit, delete, list by health | pipeline (external) | an edit writes back what it has read while the pipeline reports; a deletion takes along what it has read; the filter in SQL and the badge in Python | a source shows its last report and stays deleted; a deletion fails for nothing but what was added behind its back; same class in filter and badge | `IngestionConsole` |
| Health (`config/observability.py` 100-192) | one key of the cache, checks kept in the process | ready, metrics | cache, database | concurrent checks share one key; checks are kept from before they ran | no alarm without cause, no report older than promised | `Readiness` |
| Search ranking, Markdown, admin tables, logging, image upload, the rest of the browser code | none that requests share | | | | | section 9 |

`PROJECT.json` lists every hazard at its line, with the properties that bear on it.

## 3. Modules

### UserLifecycle, AccountDirectory, UserLifecycleProofs
`UserLifecycle` has the `users` rows (`row`) and the requests that write them.
`Begin` is `CurrentUserMiddleware`, which loads `id, username, email, role,
status` of an active user. A request then validates (`ProfileValidate`,
`PasswordValidate`, `AdminRead`, `SignupValidate`) against the table as it is,
and writes in a second step. What a write changes is taken from the code:

* `ProfileSave` is `form.save()` without `update_fields`: Django saves each
  column that is not deferred, so role and status are written back as the
  middleware read them. `password_hash` was deferred and is left alone.
* `AdminWrite` saves the columns of `update_fields` only (`Applied`).
* A deletion gives the user the name `deleted_<8 hex digits of the id>`
  (`Tombstone`). Since nothing stops anybody from typing such a name, and two ids
  may share the digits, `Tombstone` is any function into the names, and the
  deletion fails on the unique index when the name is taken.
* Usernames are compared in any case by the forms (`TakenIgnoringCase`) and
  letter by letter by the index (`UniqueViolation`). An email behaves like a
  username and is not modelled twice.

`AccountDirectory` is the abstract specification: each change is one step of an
entitled actor on the accounts as they are. With one request at a time
`UserLifecycle` implements it (`ImplementsDirectory`); with two it does not, and
the runs say what is left.

### Sessions, SessionsProofs
`store` maps session keys to users, `index` is the cached list of keys per user.
Each step is one cache or database call: `ReadIndex` and `Track` are the two
halves of `register_user_session`, `PurgeRead`, `PurgeKill` and `PurgeDrop` the
three of `purge_user_sessions`. A suspension saves the status and then purges; a
deletion purges inside the transaction that sets the status. There are two logins:
`Authenticate` in a browser without a session, `AuthenticateOver` over the session it has.
`login_view` and `signup_view` turn a logged-in user away, but `oauth_callback_view` and
`oauth_confirm_existing_account_view` call `login_user` for whoever the provider names, so a
browser may change from one account to another, and the old key stays in the index of the user
it was of. The session of an account that is not active is left alone (`ReadRow`): its
browser is served as a visitor's (`visit`), and may save the session with a timezone, log
in over it or log out, where `logout_user` looks the user up again (`Logout`, `Unregister`).
`SaveCheck` and
`Save` are what Django's session middleware and cache backend do with a modified
session, `CreateSession` is `flush` and `cycle_key` together: no step of another
request can tell them apart, since nobody else has the new key. `calm` is a
history variable: no two requests have overlapped so far and none has died.

### LoginRateLimit
One counter (one address and one email). Instants are kept as ticks left until
them, so that time needs no bound. `RemainingTimeout` is `_remaining_timeout_seconds`:
whole seconds, rounded up, at least one. `Fail` reads the entry and decides;
`Record` sets it, a step later. `recent` (history) says how long ago each of the last wrong
passwords was typed, as many as the properties count: once more than the limit twice over.

### OAuthAccounts, AccountLinks, OAuthAccountsProofs
The three transactions as statements. `userLock` and `idLock` are PostgreSQL's
row locks (and the lock an uncommitted key in a unique index amounts to); what a
transaction has written is visible from its `Commit`. `DeadlockVictim` is
PostgreSQL's deadlock detector. `AccountLinks` is the abstract specification: a
link, a first login and a deletion are one step each, on the tables as they are.

### OAuthFlow, OAuthFlowProofs
One browser with its cookie, its session (`store`) and two requests in flight. A
request loads the session when it begins and saves all of it when it ends (`Save`), as
Django's cache backend does: the last one wins, and a key that is gone is an error. The
steps between are those of the views: `Start` draws a state, `Exchange` compares it and
takes it out, `LinkAccount`, `Enter` and `ConfirmLink` are the transactions, each one
step of `AccountLinks`, which `OAuthAccounts` implements. `Dies` is a request that ends in an
error nobody catches (a deadlock of those transactions, say) or with its process, at any
step: a response of 500 saves no session, so a state that `Exchange` has taken out of the copy
is still in the session and is accepted again. `past` (history) has the states accepted, those
accepted again, and those whose first request died so (`lost`). It is forgotten when
requests overlap, because each property has a part that holds until then only.

### Notifications, NotificationsProofs
A like's click (`Delete` or `Create`), then `create_notification` with its two
deduplications, the key in the cache (`Add`) and the look at the table (`Look`); a
comment takes the same way with a key of its own. `MarkRead` and `MarkAllRead` are the
author's, `Get`, `Count` and `Fill` are the context processor's of every page. All
writers end in `Invalidate`. A liked comment is the same code with other names. `fresh`
is the time since the number last changed, `overlapped` and `crashed` remember.

### Posts, PostBoard, PostsProofs
`post` has the rows, with the labels of the tables `post_tags` and
`post_wiki_documents` in them; `lock` says which transaction holds a row.
`Compose` is the POST of `community_list` (and of `wiki_detail`, which handles it
the same way), `Edit` that of `community_post_edit`. Both then run
`PostForm.save`: `Update` (the statement that takes the row), `Link` (`tags.set` and
`wiki_documents.set`, which compare the wanted labels with those they find) and
`Commit`, after which others see it all. A text stands for a whole submission, so
that "text of one and labels of another" can be said. `searched` is the text the
cached columns were made from: `Post.save` recomputes them from the instance in
memory and adds them to `update_fields`, for a moderation as well, which is why
`Moderate` writes the text `ModerateRead` has read. `PostBoard` is the abstract
specification: a submission and a moderation are one step each, and each leaves
the other's columns alone. `crossed` (history): a moderation and a submission
have been under way together.

### Tags
`_get_or_create_tag` by statements: `Look` (by name, in any case), `Insert` (under
the next slug, in a savepoint), `Again` (look again after an `IntegrityError`,
then the next suffix or failure). A request holds the tags it has made until
`Commit`; an `Insert` of a slug that another transaction has inserted waits
(`Holders`), which may be circular (`DeadlockVictim`). `SlugFor` is data: which slugs
the attempts for a name give, the twenty of the code cut to two, and attempts of
different names may meet, as those of "C", "C++" and "C-2" do. Administrators enter
any name under any free slug (`AdminMake`, `AdminChange`); they never ask whether the
name exists.

### IngestionConsole, IngestionConsoleProofs
`source`, `document` and `job` are the tables the pipeline, another program, shares
with the console. It is modelled by what it may do to them (the actions
`Pipeline...`): report on a source, add documents, fetch them, queue and move jobs.
Of the administrators' requests, `ReadToEdit` and `SaveEdit` are the two ends of an
edit: `form.save(commit=False)` and `save()` without `update_fields` write every
column, those the form does not show as they were read, and Django inserts the row
when the UPDATE finds none. A deletion is Django's collector: `CollectToDelete` reads
the documents, `ClearJobs` begins the transaction with the jobs, and what it ends with
depends on the deferred foreign keys: `CommitDelete` when they hold, `RefuseDelete`, an error
page and nothing done, when the deletion would leave a document or a job behind (`Orphans`).
`Die` is a request that dies on the way. `late` (history, in a deletion) has the documents that
the pipeline has added, or queued a job for, after the deletion had read or deleted theirs.
`Selects` is the filter of `admin_ingestion_management`, `Health` is
`_classify_source_health`. `overtaken` (history) holds the sources an edit saved
without having read the last report or the deletion.

### WikiEmbeddings
One document, its revisions, and the row with its vector. A synchronisation holds what
it read (`Read`) while the queries, the service and the write take their time. `Generate` has
four ends: the service gives a vector; it fails and the vectors of chunks take its place; there
is neither; or a vector is given up for its length, since the column has 1536 places, the
service is asked for `settings.WIKI_EMBEDDING_DIM` and
`sync_wiki_document_embedding` writes only what has both lengths. `fits` says whether the
setting, which comes from the environment, is the column's length: where it is not, no row is
ever written. Where it is, the service may still answer with another length, or with no data,
which raises outside the `try`: then nothing takes its place, not even the chunks. Each save
through the models is one action (`SaveDocument`, `SaveRevision`, `SaveSource`,
`SaveVector`), followed by what its receiver does; `Pipeline` and the deletion of a source
change the tables with no receiver, or one that finds nothing; `Seed` is the command's
transaction in stages. `past` (history) has every document there was, `calm` and `missed`
say which changes nobody has followed.

### WikiPages
One document with two revisions, and the cache of rendered texts. `Open` reads, `Look` and
`Fill` are the two halves of `get_cached_revision_render`, `ActRead` and `ActWrite` those of
an administrator's action. `Seed` rewrites title and text in place, `Pipeline` adds
revisions, `Evict` is the cache's. Time is in steps of which `Timeout` make a week.

### RelatedPages
One request that puts together the recommended pages: by vectors (`Vectors`, `Fetch`), by
common sources, by date, each a query of what is published by then. Any order the
database may return is an initial state. `Best` is what one would put together from the tables
at one moment, and is compared with what the queries put together one after the other.

### CommentThreads
The rows of comments in the order of creation; requests hold a parent found earlier. The
tree (`InTree`), the replies loaded on demand (`Children`) and the walk to the root
(`Walk`) are state functions, compared with each other. `told` has the notifications.

### Readiness
The checks of `/readyz/` and `/metrics` call by call, the shared key (`probe`) with the
request whose value it holds, and the checks kept in the process (`kept`). Database and
cache go down and come back. `alone` (history) has the requests no other has disturbed.

### Listings
Posts, one wiki page, and the rows of likes and bookmarks. The toggle reads whether the
post opens and writes later. Every list is an operator translated from its query; the
property compares them with `Opens` and `WikiOpens`, what the detail views let through.

### ComposeForm
One tab (`page`, `chips`, `target`, the search results `shown` and `ticked`), the stored
draft (`row`), the published documents (`open`). `Apply` is
`renderCommunitySelectedWikiDocuments`, `PickerKnows` and `PickerAnswers` the two queries of
a search. The server checks (`Valid`), looks for the draft (`Find`) and saves in three
steps, between which administrators and the other tab act.

### MCPages, PagesProofs
The last seven, `LoginRateLimit` and `Tags` share no state with each other: a composition
would multiply their states and show nothing. `MCPages` puts them side by side, `part` saying
which one a behaviour is of, so that one run checks all of them; variables of the same name
serve whichever part runs. The runs `rate_limit` and `tags` check what needs fairness, which
`MCPages` does not state. `PagesProofs` has the proofs, a section for each part. The modules
`MC...` otherwise hold constants and symmetry sets for TLC.

## 4. Runs

| Run | Instance | Shows |
|---|---|---|
| `users` | 2 users, 5 names, 2 requests | Until a write overtakes what another request holds, the pages implement the directory (so deletion is final and scrubs), an administrator remains, names differ in more than case; afterwards a deleted account still returns only by a write decided before the deletion. |
| `users_resurrection` | the same | **Violated:** a profile edit in flight brings a deleted account back (finding 1). |
| `sessions` | 2 users, 3 keys, 2 requests, crashes | No index ever names another user's session, though browsers change users and sessions; until requests overlap or die, each session is tracked and a purge leaves none. |
| `sessions_purge_race` | the same, no crash | **Violated:** a login in flight leaves a session of a suspended account (finding 2). |
| `rate_limit` | limit 2, window 2 s, 2 ticks/s, 2 requests | Lockouts end, whatever overlaps. |
| `oauth` | 2 users, 2 emails, 2 identities at 1 provider, 2 transactions | Links stay sound, the transactions implement `AccountLinks`, and each of them ends. |
| `oauth_flow` | 2 users, 2 identities, 2 flows, 3 keys, 2 requests, 3 overlaps | Until requests overlap, a state is accepted again only when the request that accepted it died, and the last flow can be finished; nobody is linked who did not ask. |
| `notifications` | 2 notifications, number kept 3 ticks, dedupe 2, 2 requests, crashes | Equal notifications apart, none held back without cause; the number wrong for cause and for one timeout at most, right in the end. |
| `posts` | 2 posts, 2 submissions with a label each and one they share, 3 requests | Submissions and moderations implement `PostBoard`; a post is whole; the search knows its text until a moderation and a submission overlap. |
| `tags` | 4 names over 3 slugs, 2 attempts, 2 names per submission, 2 submissions, 1 change by an administrator | Each submission ends, those included that wait for each other. |
| `ingestion` | 1 source, 2 documents, 4 reports, 2 requests | Each class of health lists what bears its badge; a deletion fails exactly for what the pipeline has added behind its back and is still there; a source shows the last report unless an edit has overtaken it. |
| `pages` | embeddings: 2 titles, 2 texts, 2 revisions, 1 chunk, 2 synchronisations, 3 changes; pages: the same texts, 2 requests, a week of 1 step, requests of 1 step; related: 4 pages, list of 2; threads: 2 posts of one author, 3 users, 3 comments, 2 requests; health: 2 requests, 1 tick; lists: 2 users, 2 posts, 1 mark, 1 request; compose: 3 documents, 1 chip, 1 change by others; logins and tags: as in `rate_limit` and `tags` | The properties of the nine parts, 16 in all: besides those of pages, that tries are limited and windows fixed while logins follow one another, one tag per name, and that a submission fails only when all its slugs belong to others. |

Why the bounds are enough. Each property relates two actors (a writer and the
one it overtakes) and one or two rows, so two slots and two users show every
order of their steps. The five names hold the interesting cases: two that differ
in case, the names two deletions give, and one of those in another case. Three
session keys allow a session, its successor, and another user's. The window is
two seconds of two ticks, so that it ends between whole seconds. Limit 2 is the
least that tells the first failure from the last. Two identities at one provider
are what a second link at that provider needs, and two flows are one given up for
another. Three overlaps are a request that loads before, and saves after, each of two
others. Dedupe is longer than a request may take and shorter than twice that. Three
requests on posts are two tabs and a moderation. The four names of `tags` are two
spellings of one name, one that shares their slug and one whose slug is their
second attempt: enough for a lost race, a suffix, two names that wait for each
other and two attempts that are both taken. An administrator acts once per
behaviour there (the guard of `Administer`) and enters one of two tags
(`Entered`), because the state after an arbitrary change multiplies the space by
ten and only `EverySubmissionEnds` says anything about it. In `ingestion` a class of
health is a matter of one source; two documents are one that a deletion has
collected and one that comes after (a job or a document), and the four reports have a failure without a
message, a message without a failure, and neither with the message missing or
empty. Two requests are an edit and a deletion that cross, or two of either.

In `pages`, three changes of a document are one that a synchronisation begins with, one
that overtakes it and one that comes after. `Timeout` and `MaxDelay` of a step each make
the horizon three: with two `ShowsItsRevision` is false, so the bound is the least.
Four pages and a list of two leave something to choose in each query. Three
comments are a parent, its reply and the reply's. Three users are the author of both
posts, the author of a comment, and a third. One chip is the least maximum; the documents
beside it are the one that is locked and one too many. One mark that may be
set, outlived by its post, and taken back shows every filter at work, since filters look at
one post at a time.

History variables stand in for separate runs: `overtaken`, `calm`, `past`, `overlapped`,
`crashed` only remember, no guard reads them (`overlaps` in `OAuthFlow` is a bound and
named as one), and a property conditioned on them speaks of the behaviours up to the
first overlap or failure. It claims nothing once the race it names has happened: that two
signups at once keep names unique in any case, that two administrators leave one, that a
purge sees a login in flight or an index keeps what two requests wrote, that the search follows
a submission a moderation overlaps with, that a report survives an edit, none of this is
promised by the code, and no property says so. What becomes of these races is in section 8,
and in the notes of the hazards in `PROJECT.json`.

Symmetry is declared over requests (and users, keys, documents where they are alike) in
runs that check invariants and action properties only, never in one with liveness.

Deadlock is checked except in `users`, where two administrators who suspend each other
leave nobody to act, in the two runs of `Sessions`, where all accounts may be deleted, and in
`pages`, where a list of pages is put together once and changes are bounded.

## 5. Fairness

* `LoginRateLimit`, `Notifications`: time passes (`WF` of `Tick`). `LockoutEnds` asks
  nothing of requests. `CountSettles` asks that a request which has begun is
  carried on or dies (`WF` of `Step`): the ASGI server does not suspend requests.
* `OAuthAccounts`: `SF` of each transaction's statement, because PostgreSQL serves
  the queue of a row lock in order, and `WF` of `DeadlockVictim`, because its
  detector looks after `deadlock_timeout`. Without the detector two transactions
  may wait for each other for ever: a login locks account and then user, a link
  or a deletion user and then account.
* `Tags`: likewise `SF` of a submission's statement, because an INSERT that waits for
  a key is woken in order, and `WF` of `DeadlockVictim`.

No other specification needs fairness, and no request is ever obliged to begin. What
`WikiEmbeddings` says about the end (`CurrentWhenCalm`, `EmbeddedWhenPossible`) is said of the
moments when nobody is synchronising, because the service may fail for ever.

## 6. Assumptions

* READ COMMITTED, autocommit, unique indexes as in the migrations.
* Django's cache session backend: `save` of an existing session fails if the key is
  gone, `cycle_key` draws a key nobody has. Modelled from how it is used.
* Ids, states of flows and session keys are drawn at random and never twice.
* The signature of a pending confirmation cannot be made by others; that it has expired is one
  of the refusals `Confirm` chooses from.
* `Notifications`: a request that has taken the dedupe key is over before the key's
  half minute is (`MaxDelay < Dedupe`). A request slower than that may repeat a
  notification; `Tick` is where the assumption enters.
* Names that are equal in any case have the same slug. True of `slugify` and
  PostgreSQL's `UPPER` for the letters in use here; an exotic pair ("ı", "I") that
  SQL holds equal and `slugify` tells apart would be two tags.
* The session index outlives the sessions it names (same timeout, written later), those of an
  account that is not active excepted: visits save them without touching the index
  (`ExpireIndex`).
* `WIKI_EMBEDDING_DIM` is read when the program starts and stays what it is (`fits`); what a
  restart with another value leaves behind is not asked.
* `None` stands for what is absent and is none of the rows, records and ids of a module. The
  modules say so of each (`NoneIsNoRecord`, the `...Assumption`s), since a proof has to know
  what TLC takes for granted of a model value.
* The wiki documents of `ComposeForm` are finitely many, as the rows of a table are.
* `CommentThreads`: no program but this one inserts comments (the constraint that a parent
  is of the same post is in no table), and a later comment has a later `created_at`.
* `RelatedPages`: the pages are the rows of a table, so they are finitely many, and `Latest` has
  each of them once.
* `Listings`, `ComposeForm`: one query sees one state of the tables, so a list is taken at
  one moment.

## 7. Proofs

Eight modules are checked to the last leaf: `UserLifecycleProofs`, `OAuthAccountsProofs`,
`PostsProofs`, `IngestionConsoleProofs`, `SessionsProofs`, `NotificationsProofs`,
`OAuthFlowProofs` and `PagesProofs`. They assume what the modules state of their constants
(section 6), and nothing about the number of users, names, keys, documents or requests, the
lengths of timeouts or the bounds. Each proves the type invariant as well, which no run checks
separately: TLC checks what says more. In each, `Invariance` (or `Spec => []IInv`) has the
inductive invariant, which TLC has agreed with on the instance of the run, and the theorems
that name a property follow from it.

**UserLifecycle.** `TypeOK` and `NamesUnique` are inductive only together with
`RequestOK` (a request that is about to write has a target, and one that is about
to update has a target that exists) and `FreshIds` (two signups never hold the
same id, and no row has it): without them a signup could overwrite a row. From
this invariant follow unique names and `ReturnNeedsStaleRead`, for any
interleaving. For the behaviours in which no write has overtaken a request, the
invariant is strengthened (`SInv`) by what the requests still rely on: what a request has
read is what the table still holds, and what it has validated is still valid. Then every
write maps to a step of `AccountDirectory`, and deletion being final, scrubbed accounts, the
remaining administrator and names that differ in more than case follow.

**OAuthAccounts.** The invariant says what a transaction may rely on at each
statement, because of the locks it holds: a link past `lockUser` holds a user that
is active and not deleted; a link past `checkProvider` has seen no account of its
user at this provider, and none can appear since every link of that user waits;
a login past `insertUser` has an id no row and no other transaction has, and an
email nobody uses; a deletion holds every account it will remove. From it follow
the three safety properties and the refinement of `AccountLinks`: a statement is a
stutter, a commit is a `Link`, `Join` or `Leave`, and `OtherWrite` is a `Change`.

**Posts.** `TypeOK` and `WholeSubmission` are not inductive: what a commit leaves
depends on what `Link` has computed and on nobody having changed the labels since.
`RequestOK` says so: a submission at `link` or `commit` holds its row, and at
`commit` the labels it will remove and add turn those of the row as it is into
the wanted ones. A commit of another request needs the lock, a moderation leaves
labels alone, so the claim is stable. `SearchFindsText` needs `InStep` besides:
until the first overlap, what a moderation has read is the text of its row. The
refinement maps the rows to `Public` (the cached columns aside); a commit is a
`Submit`, a moderation a `Remove` or `Restore`, all else a stutter.

**IngestionConsole.** `FilterMatchesBadge` follows from the types of a row alone (a
count is positive exactly if it is not zero; a message is missing, empty or a
text), so filter and badge agree for every table. `ShowsLastReport` is inductive
together with `IssuedOK`: rows and requests name sources whose id was handed out, and
nothing was reported before that, so a new source overwrites nobody. For
`FailsOnlyForLateRows`, `TakesAll` says of every deletion under way that it has read all
documents of its source but for the late ones (`ReadsAll`), and deleted all their jobs but for
the late ones (`ClearsAll`), whatever another deletion or an edit has done to them since: a
document never changes its source, and a job goes with its document. So if nothing late is
left, nothing is left behind, and what is late and still there is in the way.

**Sessions.** `IndexIsOwn` is not inductive: an index entry is written by a request that has
carried the key for some steps. `OneUserPerKey` says that whatever ties a key to a user, the
session, the index or a request that holds it, ties it to one, which needs no more than that keys
are fresh: a login over another user's session ties a new key to the new user, and the request
has let go of the old one, which is the old user's wherever it is still named. The rest is said of `calm` (`CalmInv`): a session that is not tracked is that of the
one request about to track or to end it (`Tracked`), a session of an account that is not active
is about to be purged (`Alive`), and `Holds` says at which steps the keys a request has read
are still all there are. Without `Holds` a purge could drop an index it has read before a
session was added.

**Notifications.** `NoticesApart` needs the clock: the request with the dedupe key has waited at
least as long as the key has been there (`OneHolder`), so it is over before the key is, and no
two have the key; `StillApart` then says that what the look at the table found is still so at the
insert. `HeldForCause` follows from `KeyForCause`: a key nobody has is that of a notification
sent lately. `WrongForCause` is inductive with `CountedRight`, that what a page has counted
is the number until the page or a writer uses it.

**OAuthFlow.** Before the first overlap at most one request is under way (`Alone`), and `Carried`
says how its copy of the session may differ from the one kept: by the state it has put in or
taken out, and the token it has taken out or is to show. `SessionRight` says the converse of
the session kept: a state accepted already is in it only while the request that took it out
is about to save, or after it has died (`Unused`), so a state is accepted twice only if it is in
`lost`. `LinkedAsAsked` has a half that holds
whatever overlaps, which follows from the guard of the link and needs `Shape` alone; the other needs
`Carried`.

**The parts of MCPages.** A step of the whole is a step of its part (`PartStays`), so each part
has an invariant of its own, and `PartsInv` joins them.

* *Embeddings.* `RowDescribesDocument` needs that what a synchronisation holds is a document
  there was (`HoldsPast`). For `CurrentWhenCalm`: as long as `calm`, every synchronisation
  that may still write holds the document as it is (`CalmHeld`), and if the row is another's,
  some synchronisation is on its way to put it right (`CalmFollowed`). For
  `EmbeddedWhenPossible`: where the dimension fits and nothing was missed, each chunk that could
  give the document its row has a synchronisation that has not yet given up (`Hope`), which is why the last of the saves that
  complete a document finds something to do, in whatever order they come.
* *Wiki pages.* How old what is shown may be is a sum along its way: a text is at most as old as
  the request that has read it (`ReadLately`), in the cache a request's and the time it has been
  there (`KeptLately`), shown a request's more (`ShownLately`).
* *Comments.* A request that has saved a comment will tell those the comment asks for, though
  parents change meanwhile (`RequestTells`: what decides, they do not change), and
  is the only one to do so (`OneTells`); before, nobody has been told, afterwards exactly these
  (`ToldOnce`).
* *Health.* What a check has found of the database was so, or has become so, since it began
  (`FoundLately`), what is kept since one time to live before it expires (`KeptFromLately`).
  A check alone finds its own value, since nobody else wrote the key (`FindsOwn`).
* *Lists.* From the types alone: the filters agree on every state of the tables, whatever
  sequence of moderations and toggles has led there.
* *Compose form.* `SavesAreSound` needs what is known of a form under way: it has left its page,
  so nobody changes it; a row that was a post when it was sent can become nothing else, so
  the look for a draft finds none; past the check, only what was withdrawn since is closed
  (`ComposeUnderway`). `LabelsFollowChips` needs `SearchInv` besides: what a search has for chips
  is right, except for what has moved since it went out. `AtMostOneTooMany` (`Sizes`) counts:
  what the server sends is within the limit but for the locked document, and the browser adds a
  chip only below the limit.

* *Logins.* `LimitIsKept` compares the counter with the passwords typed. `CountIsRight` does: as
  long as logins follow one another, the counter (or the request about to set it) has n, the last
  n wrong passwords are of its window, the first of them is as old as the window is, and the one
  a limit before that is older than a window's length. A new window begins only when the old one
  is over, so what is left of the old one is no more than the limit. `EntryEndsWithWindow` is
  inductive as it is, from what rounding up to whole seconds does (`TimeoutBounds`).
* *Tags.* Names are unique though only slugs are: a submission makes a tag under the first slug of
  its name that is free, so a tag has its slug only because those before it were taken
  (`InTurn`, said of every tag a submission has made and of every tag that has come to have a name
  since it was looked for). `Tried` says that what a submission has passed over belongs to other
  names, and stays so until it commits, since rows that are not committed keep their slugs
  (`SlugsUnique` is about both). Two makers of one name would have taken the slugs in the same
  order, and the second would have met the first. `GivesUpForCause` is `Tried` when no slug is left.
* *Related pages.* The list after each query is the beginning of the best one (`BestSoFar`):
  filling up what is missing from the next query is taking the first of one list after the other
  (`FilledUp`). Fetching pages by their ids gives them all back, in that order, when none has been
  withdrawn (`PickedWhole`). What holds whatever is published (`Fits`, `Reached`) follows from
  each query leaving out what was found before it.
* *Threads.* `ParentsInv`: a parent is older than its replies and of their post, and so is the
  parent a request holds, whatever is deleted meanwhile. So the walk upwards ends (each step
  goes to an older comment, and there are no more steps than comments), the replies of a
  comment are those of its post, level by level, and a parent is shown before its replies.

`RelatedPages` and `CommentThreads` define a list and a tree step by step, as recursive
functions. Two lemmas make them accessible to proof: what is defined step by step exists
(`Recursion`), so that a definition by `CHOOSE` may be unfolded, and `Induction` over the members
of a set of numbers, which is had from the well-foundedness of their order (`LeastNumber`).

Only model-checked: the liveness properties (`LockoutEnds`, `CountSettles`, `EveryTransactionEnds`,
`EverySubmissionEnds`), since liveness under fairness is beyond the prover used here.

## 8. Findings

1. **A deleted account comes back** (`users_resurrection`).
   `apps/accounts/views.py:746` saves the instance the middleware loaded. When an
   administrator deletes the account between the load and the save, status and
   role are written back, and the new name replaces the tombstone.
   `apps/core/views.py:2610` promises that a removed user cannot be activated
   again. `update_fields` in the form's `save` would do.
2. **A suspended user keeps a session** (`sessions_purge_race`). `login_user` creates
   the session before it is tracked; a suspension in between finds nothing to
   purge. The session is unusable while the status lasts and works again after
   an activation. `apps/core/tests/test_admin_console.py:425` asserts that the
   session is gone.

Observed, and promised otherwise by nobody:

* Accounts: two administrators who suspend each other at once leave no administrator.
* Sessions: a request that began before a logout in another tab answers with an error,
  since the session it would save is gone. A logged-in user who comes back from a provider as
  somebody else is logged in as that user, and the index of the former keeps a key that is gone.
* OAuth flow: with two tabs the confirmation page of one may be answered with the token of
  the other, because the form posts only the decision, so that what is linked is what the
  session says, not what the page said (`LinkedAsAsked` without `Overlapped` is false). The
  comparison of the user who began a link with the user of the session can never fail: a
  login throws the state away. A callback that ends in an error page (a deadlock) has not
  given up its state, and a reload tries again with it: the session is saved at the end, and not
  at all after an error.
* Notifications: a page that counts while notifications are being read shows the old number
  for up to a minute; a request that dies with the dedupe key silences the event for half
  a minute; a notification may lead to a post that has been deleted.
* Posts: a moderation that overlaps with an edit leaves the search with the text before the
  edit, until the post is saved again; a post whose body begins with a heading loses it when
  it is edited, since the form is filled from the cached body, which leaves the heading out.
* Lists: the wiki documents a post links are shown though they have been withdrawn, and lead
  nowhere; the filters of the lists themselves agree.
* Compose form: a draft with ten documents, loaded beside the document the page is about,
  makes eleven, and the form is refused; a draft that links a withdrawn document is refused
  once; after a refusal nothing is locked any more; the answer of a search labels documents
  by the chips there were when it was asked, and never knows the locked one.
* Tags: an administrator can enter a tag whose name exists already under another slug; two
  submissions that create the same tags in opposite order may end in an error page; a
  suffix behind a slug of fifty characters does not fit its column.
* Comments: the number shown with a post counts replies under a deleted parent, which no page
  shows.
* Embeddings: a row made from the vectors of chunks is never made anew when chunks change or
  the service comes back, because its hash is that of the text (`UpToDate`): the properties
  claim what is true, that revision, title and text are right. A deleted source sets the
  references of revisions to NULL before the receivers run, which find nothing to refresh.
  With a `WIKI_EMBEDDING_DIM` other than 1536 no document ever gets a row, and a warning in the
  log is all one sees; an answer of another length is dropped though the chunks had a vector;
  an answer without data ends in an error after the save has been committed.
* Wiki pages: what the seed command rewrites in place may not show for a week.
* Health: two probes at once may each find the other's value, and report a cache that is well
  as failing.
* Ingestion console: an edit of a source loses what the pipeline has reported since it was
  read, and inserts a source that was deleted meanwhile, without its documents; a deletion
  during which the pipeline adds a document ends in an error page; the tile of the dashboard
  counts disabled sources among the failing ones (`consecutive_failures`,
  `core/views.py:2506`), the ingestion page does not.

## 9. Not modelled

* The ranking of searches and of related posts, and full-text matching: PostgreSQL's.
* Markdown, its rendering and the extraction of titles: functions of a text, without state.
* The tables of the administration pages, their filters and pages: read-only. Their actions
  are modelled where their rows are, the health filter in `IngestionConsole`.
* Request logging and HTTP metrics: counters nobody reads back.
* Image uploads: the server signs a form, the browser and S3 do the rest.
* Browser code but for the compose form: it keeps no state that outlives a gesture.
* The seed command's tags, users and posts: development data.
* Lengths of names and of columns.

## 10. Plan

Done: the modules of section 3, and the proofs of every invariant and action property the runs
check. What is left are the four liveness properties, which need a prover that knows fairness,
and the lengths of names and columns, which would let the suffix behind a long slug be modelled.
