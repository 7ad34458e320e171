# Formal models of the student-marketplace backend

TLA+ models, TLC runs and TLAPS proofs for the NestJS backend in this
repository. The program is a set of stateless server processes around one
PostgreSQL database (through Prisma), with a polling background worker in each
process, a mail provider, an image store and two socket.io gateways. Nearly all
state lives in the database, and nearly all of what can go wrong happens
*between two statements* of one request or worker: an `await` gives every other
request of the same process, and every other process, the chance to run. The
models therefore have one action per database statement (or per transaction
whose isolation makes it one step), and every `await` is a scheduling point.

## Inventory

| part | state | operations | hard behaviour |
| --- | --- | --- | --- |
| job queue (`modules/ai/listing-moderation-job.service.ts`) | `listing_moderation_jobs`: one row per listing with status, revision, attemptCount, nextRunAt, updatedAt | enqueue, claimNextJob, complete, fail, retry, recoverStaleJobs | non-atomic claim and read-back, fencing by revision, concurrent enqueue, stale recovery, retry budget |
| worker (`listing-moderation-worker.service.ts`) | `running`, the claimed job | onModuleInit, poll, processJob | crash and restart, unhandled rejections, exceptions retried |
| workflow, audit, model adapter (`listing-moderation-workflow`, `moderation-audit`, `ai-moderation`) | `listing_moderation_runs`, `Listing.approvalStatus` | runForListing, approveListing, rejectListing, createSuccess, createError, evaluateListing | a verdict on content that has changed, partial failures, timeout |
| listings (`modules/listings`) | listing, images, favourites, slug, view count | create, update, updateStatus, remove, save, unsave, queries | stale read before write, work lost between write and enqueue, images destroyed before or after the write |
| admin, reports (`modules/admin`, `modules/reports`) | reports, approvalStatus | approve, reject, rerun, resolve, dismiss, create | races with the worker and with sellers |
| authentication (`modules/auth`) | users, `otp_verifications`, cookie | register, resendOtp, verifyOtp, login, logout, socket token | several valid codes, double use, un-verifying race, mail after commit |
| users (`modules/users`) | profile, avatar, `user_blocks` | create, updateMe, blockUser, unblockUser | asset destroyed before the write |
| conversations, chat (`modules/conversations`) | conversations, participants with lastReadAt, messages | create, sendMessage (HTTP and socket), markRead, unread counts | duplicate conversations, block race, message stored but reported as failed, clock order |
| notifications (`modules/notifications`) | notifications, sockets | create, markRead, markAllRead, emit | decision stored without its row, decisions told in another order than they were stored |
| mail (`core/mail`) | provider, transporter | onModuleInit, sendOtpEmail | no recovery after a failed startup |
| images (`core/media`, `modules/uploads`) | assets in Cloudinary | upload, destroy | assets and rows disagree |
| configuration, bootstrap (`config/env.validation.ts`, `main.ts`, `app.module.ts`, `core/database`) | the environment: shell, `.env` files, `process.env`, the validated settings | validateEnvironment, start of the services, listen | one variable read by two readers with two syntaxes |
| plumbing (guards, filters, categories, dashboard, stats, health) | none, or read only | | |

Interaction: an API handler of listings or admin *enqueues* a listing (a shared
row); a worker of any process *claims* the row, runs the workflow (which calls
the model, writes an audit row, may write the listing's approvalStatus and
create a notification) and *settles* the row. Deleting a listing cascades to
its job row and its audit rows. Handlers and workers share nothing but the
database.

What makes each part correct is the list under "hazards" of `PROJECT.json`,
each at the line where it bites; the one that no property covers says why.

## Modules

| module | models |
| --- | --- |
| `JobLifecycle` | abstract: what the queue promises of a job |
| `ModerationQueue` | the job table, its enqueue transactions, and the workers that poll, claim and settle; faults, restarts and time |
| `MCModerationQueue` | the instances TLC checks |
| `ModerationQueueProofs` | invariants and theorems of the queue; it implements `JobLifecycle` |
| `ListingModeration` | extends the queue with listings, the workflow a claimed job runs, the handlers of sellers and the decisions of admins |
| `MCListingModeration` | the instances TLC checks |
| `ListingModerationProofs` | the whole implements the queue, and what follows; invariants and theorems of workflow, sellers and admins |
| `AccountOtp`, `MCAccountOtp` | accounts, one-time codes, logins; the accounts an admin creates |
| `AccountOtpProofs` | invariants and theorems of accounts and codes |
| `MailProvider` | choice of the mail provider, its startup, transporter, mails |
| `Environment` | the variables as functions of a text: what the validation makes of it, and what each reader does |
| `ServerStartup`, `MCServerStartup` | extends both with the start of a server, from shell and files to listening |
| `ServerStartupProofs` | invariants and theorems of the environment, the start and the mails |
| `MessageDelivery` | abstract: what a sender is promised |
| `Messaging`, `MCMessaging` | conversations, messages, blocks, read marks and the notification of each message |
| `MessagingProofs` | invariants and theorems of conversations; they implement `MessageDelivery`, and what follows |
| `StoredImages`, `MCStoredImages` | assets in the image store and the listings and avatars that refer to them |
| `StoredImagesProofs` | invariants and theorems of the stored images |
| `ListingCatalog`, `MCListingCatalog` | slugs, who sees which listing, views, favourites and reports |
| `ListingCatalogProofs` | invariants and theorems of the catalogue |
| `Notifications`, `MCNotifications` | extends the catalogue with decisions in their three statements and the rows that tell sellers of them |
| `NotificationsProofs` | it implements `ListingCatalog`, and what follows; invariants and theorems of the notices |

The modules share no variables except where one extends another
(`ListingModeration` extends `ModerationQueue`, `Notifications` extends
`ListingCatalog`, `ServerStartup` extends `MailProvider`). `listings.service.ts`
appears in five of them: each looks at the columns it is about and at all
handlers that write them, and takes the handlers of the others as moments at
which a row may change.

Refinements: `ModerationQueue` implements `JobLifecycle` (`queue_jobs`, and
proved), `ListingModeration` implements `ModerationQueue` (`moderation_faults`,
and proved), `Messaging` implements `MessageDelivery` (`messaging_send`, and
proved), `Notifications` implements `ListingCatalog` and `ServerStartup`
implements `MailProvider` (both proved only).

### JobLifecycle

A job has a phase, a version and the workers that work on it. It is submitted,
begun, confirmed, finished or left, submitted again or removed; only a worker
whose version is the current one can finish it, and a removed job is never
submitted again. The mapping takes the status of a row for its phase
(`PhaseOf(l)`: "REMOVED" once the listing is deleted), its revision for the
version, and `WorkOf(w)` for the work of `w`: a
worker between claim and read-back has "claimed" what it claimed, one that runs
or settles has "confirmed" what it *read back*. That `Confirm` may take a newer
version than the one claimed is the race of the two statements, seen from above.
Attempts, backoff, polls and lost races are stutters.

### ModerationQueue

State and code: `job[l]` is the row (`status`, `revision`, `attemptCount`;
`due` stands for `nextRunAt <= now`, `stale` for `updatedAt < now -
staleRunMs`), `pc[w]` the statement worker `w` is at (its value "idle" is
`running = false`), `token[w]` the candidate and then the `ClaimedModerationJob`
it holds, `taken[w]` the loop counter of `poll`, `outcome[w]` what
`runForListing` returned, `request[r]` the enqueue transaction of a request
between its read and its write. `superseded`, `late` and `lapses` are history:
they are never read by a guard. A worker is in `superseded` when the row it
claimed has been queued again, recovered or deleted after the claim. `late[l]`
counts the claims of listing `l` that were read back in spite of that, `lapses[l]`
the crashes of workers that held `l` and the runs of `l` that outlived their lease,
both since the last enqueue of `l`.

Each statement is an action: `EnqueueRead`, then `EnqueueCreate` (which the
unique index or the foreign key may refuse) or `EnqueueUpdate` (which addresses
the row by listingId only); `RecoverStaleJobs`, `FindCandidate`/`NothingDue`,
`Claim`/`ClaimLost`, `ReadBack`/`ReadBackThrows`, `RunEnds`, `Settle` (complete,
fail or retry with the same where clause, `OwnsRow`). Prisma's interactive
transaction runs at READ COMMITTED, so the two statements of enqueue are two
steps. Faults: `Crash`, `SettleThrows`, `RunOutlivesLease`, `EnqueueAborts`.
`poll` is started with `void` and the process has no handler for unhandled
rejections, so an error that leaves it ends the process (`ReadBackThrows`,
`Crash`); the container restarts it (`Restart`).

Abstractions: any due row may be picked, where the code takes the earliest
`nextRunAt` (so every order of the code is included); time is the two Booleans;
error messages, logs and the returned status views are left out.

### ListingModeration

`content[l]` stands for title, description, category and department together,
`approval[l]` for approvalStatus, `runs[l]` for the set of audit rows, `step[w]`
for the statement of `runForListing` that `w` is at while the queue says "run",
`client[r]` for a handler between its read, its write and its enqueue. `byAdmin`,
`judged`, `overtaken`, `misread`, `lost` and `threw` are history for the properties;
`threw` has the workers whose own run, or settling of it, ended in an error
outside the try block. Audit rows of one content, status and action count as one
row. An
update request carries all four content fields; one that leaves them all out
(price, images, sale status) changes nothing that is modelled here and is not
an action. The model's answer is any verdict, with one assumption: it never
approves a content of `Suspicious`. The try block of `runForListing` is
`EvaluateListing`, `CreateSuccess`, `ApproveRead`, `ApproveWrite`,
`NotifySeller`; an error in it leads to `CreateError` (`ToCatch`); an error
outside it (`LoadInput`, `CreateError`) leaves the workflow and is retried by
`processJob`.

Both modules assume AI_MODERATION_ENABLED = 'true'.

### AccountOtp

`account[e]` is the user row of an email (student id, isVerified, isOnline),
`otp[o]` a row of `otp_verifications` (email, consumed or not, age), `request[r]`
what a handler has read and will write. register, resendOtp, verifyOtp, login
and the admin's UsersService.create are a read and a write each; what one
transaction writes is one step, at its commit, because READ COMMITTED lets
others run between its statements and its reads. The mail is sent after the
commit and may fail; what was committed stays. The unique indexes on email and
student id refuse a write (`IndexesAllow`). The code itself, its hash and the
passwords are left out: entering the right code of an account is a choice of
the row. Age is counted in five-minute units and matters only to
`account_mail_lifetime` and `Usable`.

History: `late` are requests whose read was overtaken by a verification of the
same account or code, `demoted` accounts made unverified again, `reused` codes
used twice.

### MailProvider

A configuration is the set of variables that are set or true; `config` is chosen
in Init. `onModuleInit` is `StartWithoutVerify`
(Resend, manual delivery, or no verification), or `StartVerify` followed by
`VerifySucceeds` or `VerifyFails`; a production configuration that lacks a key
never starts, so the run of `ServerStartup` does not check deadlock. `SendOtpEmail` records what
became of the last mail. `ProviderFails`, `ProviderRecovers` and `ProcessExits`
are the world outside (external in the map).

### Environment and ServerStartup

`Texts(v)` has one text of every class that a reader of variable `v` tells
apart: unset, blank, each word, other capitals, numbers with something after
them, out of range. `Parse` is what validateEnvironment makes of it (or
`Throws`), `Accepts` its two cross-checks; the readers below them are the field
initialisers of the moderation services, which ask `process.env` and not
ConfigService: `=== 'true'`, `!== 'false'`, `parseInt(x ?? default)`, `trim() ||
default`. Conversions of the language and the units of jsonwebtoken are external.

`ServerStartup` is one process after another in one deployment: `LoadConfig`
merges the shell over the files, validates, and writes the result to
`process.env` for the variables the shell has *not* set (`Assigned`; that is what
ConfigModule does). `StartupRefused` is the constructor of PrismaService or
MailService, `ServerStarts` goes through MailService's onModuleInit to listening,
and then mails are sent as in `MailProvider` until the process ends.

So a text with two meanings does no harm in `.env`, but does in the shell (as
docker-compose sets it). `ReadersAgree` says for every variable *exactly* which
texts these are (`Misread`): `1` or `TRUE` for AI_MODERATION_ENABLED, `0` or `FALSE`
for the two features, `Test` (for the worker) and `Production` (for the CORS
option) for NODE_ENV, a blank number (parseInt gives NaN: a blank
AI_MODERATION_TIMEOUT_MS ends every evaluation at once). It also says that
cookie and token live equally long unless JWT_EXPIRES_IN is a number without a
unit, which the validation's message calls seconds (env.validation.ts:89) and
jsonwebtoken takes for milliseconds, or has a fraction of a second, which
jsonwebtoken cuts off. `AutomationIsValidated` says what holds in spite of
that: moderation is on only with an enable flag and a key that were validated,
approvals compare with the validated confidence or with NaN, and the worker
polls under a validated NODE_ENV of test only if the shell says `Test`. It does
not speak of the two features, which the shell's `FALSE` leaves on. The other
variables of the model service (base URL, referer, title) are read as
AI_MODERATION_MODEL is and are left out.

Observed: TRUST_PROXY=1 is read as the word for true, not as a hop count of one.

### MessageDelivery

A draft is stored, then its recipient is notified, then its sender is told. It
is stored again only for a sender who was told of a failure. `Messaging` maps
the message rows of a draft to `copies`, those with a notification to `noticed`,
the clients' knowledge (`acked`, `unheard`) to `acked` and `failed`; that the steps
of several requests for one draft compose to this is the point.

### Messaging

`conv[c]` is a conversation (its two participants and its listing or none),
`msg[m]` a message row with the draft it carries and its createdAt,
`lastMessageAt`, `lastReadAt`, `blocks`, and `notified`, the messages whose
notification row exists. A *draft* is what a client wants to say: it sends the
same draft again until it is acknowledged, which is what a client of a socket
does after SEND_FAILED. sendMessage is `SendCheck` (conversation, block),
`SendInsert` (createdAt is taken), `SendCommit`, `SendNotify`, `SendReply`;
create is `CreateRead` and `CreateWrite`, markRead `MarkRead` and `MarkWrite`.
Clock values are small numbers and several rows may have the same one.
`late` says by what a request was overtaken. Rooms and the `chat:message` event
are left out: clients read the rows again.

### StoredImages

`store` is the set of assets that exist, `images[o]` how the rows of a listing
or user refer to each asset (not at all, by url only, by url and publicId).
`update` writes first and destroys what the listing no longer names afterwards;
`remove` and `updateMe` destroy first. `doomed` in a request is the set of assets
it has asked the store to destroy; `DestroyImage` and `DestroyFails` take them in
any order, as Promise.all does, and the failure of one ends the request while
the others go on ("failed"). Two owners may refer to the same asset: a client
may send any url it has been given.

Observed while modelling, and contradicted by no document: `updateMe` compares
public ids only, so a client that sends the url it already has without its
publicId has the asset of its own avatar destroyed. `OwnIsKept` therefore
speaks of payloads that name their assets.

### Notifications

A decision, of an admin or of a moderation run, is `DecideRead` (findUnique; a
listing that has the approval already is returned as it is), `DecideWrite`
(update by id) and `DecideTell` (the notification row); any of them may fail
(`DecideFails`), and the two last are not tied by a transaction. Everything else
the catalogue does goes on beside them (`CatalogStepUntold`); what changes an
approval there - an edit that resets it, a resolved report - tells nobody.
`MarkRead` and `MarkAllRead` are the reader's. `outdated` and `astray` are history:
decisions overtaken before they were told, and listings whose seller was not
told or told too late. `NewestNoticeIsTrue` says that there is no other way for
the newest notice of a listing to be wrong.

### ListingCatalog

`listing[l]` is the row as the catalogue needs it (seller, title, slug,
approvalStatus, viewCount), `report[p]` a report, `saved` the favourites.
generateSlug is a loop of queries: `SlugLook` is one of them, `Candidates[t]` the
slugs it tries for a title, in order. The write that follows may be refused by
the unique index. The lists (`Feed`, `SellerPage`, `MyPage`, `SavedPage`,
`ReviewPage`) are single queries that change nothing, so they are operators and a
property compares them with `MayOpen`, the check of the page of a listing.
resolveReport is one transaction. Approvals and rejections come at any moment.
An edit here carries a title; one without it changes no slug. Ids are not used
twice. Left out: sale status and prices (plain overwrites), search, filters,
sorting, page numbers and totals.

Observed: the slug of an empty base is `listing`, but its second candidate is
`-1`, not `listing-1`; dismissReport also turns a RESOLVED report back to
REVIEWED and leaves its listing rejected.

## What is checked

| run | instance | states | shows |
| --- | --- | --- | --- |
| `queue_jobs` | 2 listings, 2 workers, 1 request slot, 2 enqueues, 2 attempts, 1 fault | 383,311 | `TypeOK`, `ClaimsExclusive`, `AttemptsBounded`, `StaleResultsDiscarded`, the refinement `LifecycleIsImplemented`, `JobsSettle` |
| `moderation_faults` | 1 listing, 1 worker, 1 request, 1 edit, 1 worker fault, 1 failed statement | 623,985 | every error path: `ModerationTypeOK`, `SettledIsAudited`, the refinement `QueueIsImplemented`, and `EveryListingModerated` |
| `moderation_race` | 1 listing, 2 workers, 2 requests, 2 edits or decisions, no faults | 1,339,592 | edits, decisions and reruns at every point of a run, and edits that read the listing before one another: `PublishedWasCleared`, `CompletedJudgedContent` |
| `account_race` | 2 emails, 2 student ids, 3 codes, 2 requests | 233,549 | `AccountTypeOK`, `EarnedByCode`, `OnlineIsVerified`, `VerificationKept`, `CodesForUnverified`, `CodeUsedOnce` |
| `startup` | each variable in every way in shell and file, the five about moderation combined, every mail configuration, 1 outage | 52,334 | a start is refused exactly for what could not work (`StartupTypeOK`, `RefusalIsExplained`), mails fail only for a reason (`RefusedForAReason`), `ReadersAgree`, `AutomationIsValidated` |
| `messaging_open` | 2 users, 1 listing, 3 conversations, 2 requests | 36,076 | `OneConversation` |
| `messaging_send` | 2 users, 1 conversation, 2 messages, 2 requests, 1 draft each, 2 clock values | 189,255 | `MessagingTypeOK`, the refinement `DeliveryIsImplemented`, `BlockedIsSilent`, `UnreadIsOwn`, `NewIsUnread`, `ListedByNewest` |
| `images_race` | 1 listing, 1 user, 2 assets, 2 requests | 94,329 | `ImagesTypeOK`, `ShownIsKept`, `OwnIsKept`, `ForgottenIsDestroyed` |
| `catalog_slugs` | 1 seller, 2 titles with overlapping candidates, 2 listings, 2 requests, 1 view | 1,448,088 | `CatalogTypeOK` (with `SlugsIdentify`), `ConflictsAreRaces` |
| `notices_reports` | seller, admin, visitor, 1 listing, 1 report, 1 request, 2 deciders, 2 notices | 973,525 | `NoticesTypeOK`, `ListsAgreeWithPages`, `ResolvedIsOffShow`, `NewestNoticeIsTrue` |
| `moderation_stale_verdict`, `account_mail_lifetime` | small | | two statements of the documentation and the mail that the code does not keep (below) |

The invariants worth reading first:

- `StaleResultsDiscarded` - revision fences stale workers off. It is not
  obvious because the claim and the read-back are two statements: a worker
  holds what it *read back*, not what it claimed.
- `ClaimsExclusive` - two workers hold the current version of one row only
  after such a read-back race of this very row, three only after two (`late`);
  the model reaches it.
- `AttemptsBounded` - for each enqueue of a listing `maxAttempts`, plus one
  attempt per crash or overlong run of its own job (`lapses`), plus one per
  read-back race of its own row (`late`). Without either term TLC finds the bound
  exceeded; what happens to another listing does not loosen it.
- `PublishedWasCleared` - what is published without an admin was cleared by a
  run with an audit row, but for two ways around it, which the property names.
- `CompletedJudgedContent` - an edit in the middle of a run is followed by a run
  of its own; this is where fencing, `preserveRunning` and the resetting update
  have to work together.
- `LifecycleIsImplemented`, `DeliveryIsImplemented` - the two promises of which
  most of the other properties are consequences, each in a page.
- `NewestNoticeIsTrue` - what a seller read last is what holds, but for the
  failures and reorderings that the property names.
- `ReadersAgree` - an exact list of the texts two readers understand differently.
- `SettledIsAudited` - a worker that completes a job has a SUCCESS row of the
  content it judged, one that fails it or sends it back an ERROR row, unless a
  statement of this very run failed outside the try block, or its settling did
  (`threw`); a crash or a failure elsewhere excuses nothing.

Bounds. One listing is enough for every property of a row, since rows do not
interact except through a worker's poll (`queue_jobs` has two). Two workers and
two requests give every pairwise race; a second enqueue queues a row again
during its run, or races with the first one. A run that outlives its lease
meets its successor in `queue_jobs`; with the workflow and with edits beside it
the instance is too large for a run. The safety properties of every
passing run are also proved, for all values of the bounds.
`MaxFaults`, `MaxEdits`, `MaxFailures` and `MaxEnqueues` bound counters and are
guards of the actions they count. With `PollBudget` 1 a poll ends after one job
and the timer starts the next, so both ends of the loop occur; the code's 5
only delays the timer. Symmetry is used in safety runs only.

The other components race pairs of requests over the fewest rows that can
conflict: two accounts (for the student id), two assets (for an update that
swaps one for the other), two listings (for a slug that is taken), one more
conversation row than there are distinct conversations of a kind. A code can
be asked for three times, so that two are valid while a third is created.
`MaxDrafts`, `MaxClock`, `MaxViews`, `MaxNotices` and `MaxOutages` bound counters in guards;
two clock values are enough to order two events or to make them equal.
`Candidates` has one slug more than there are listings, so the loop always ends
on a free one, as the code's unbounded loop does. Two deciders and two notices
are enough for two decisions to be told in the wrong order; one request slot is
enough there, since requests race with deciders, and requests with one another
in `catalog_slugs`. In `startup` each variable is set in every way alone, the five
that decide about moderation together, and mail in every configuration.

Deadlock is checked in every run but `startup`, where a process whose
environment is refused stays down: elsewhere a worker or a client can always do
something.

Fairness: weak fairness of each worker's next step, of a handler's next
statement, and of time (a backoff and a lease end). It stands for the event
loop, the interval timer and the supervisor (`restart: unless-stopped` in
docker-compose.yml). Nothing is assumed about requests being made, about faults
or about which verdict is given. Weak fairness is on the whole worker, not on
one of its actions, and the number of enqueues is bounded: `JobsSettle` says
nothing of a row that is queued again for ever.

### Where code and documentation disagree

Two statements are refuted by a run:

1. `SuspiciousStaysPending` (README.md:136): a verdict on the old content
   publishes an edited listing, and the edit's own run does not undo it.
2. `MailKeepsItsWord` (mail.service.ts:189): the mail says ten minutes, the
   default of OTP_EXPIRES_MINUTES is five.

Others were met while modelling. The models do what the code does, and the
properties name these cases as their exceptions:

- docs/AI_MODERATION.md:47 resets every edited listing to PENDING;
  `shouldRemoderate` compares with a read that may be out of date at the write
  (`PublishedWasCleared`).
- README.md:133 enqueues after every content edit; an error of the image store
  between the stored edit and its enqueue loses it (`CompletedJudgedContent`,
  `EveryListingModerated`).
- docs/AI_MODERATION.md:52 retries only TIMEOUT and PROVIDER; the catch block of
  `processJob` retries after any exception.
- docs/AI_MODERATION.md:53 allows three retries; the recovery of stale rows
  ignores attemptCount, and a late read-back lets two workers use up attempts of
  one row (`AttemptsBounded` counts both).
- README.md:110 lets SMTP_FAIL_FAST=true end a failed startup; it does so in
  production only (`FailsFast`).
- env.validation.ts:89 calls a lifetime without a unit one in seconds; the token
  takes it for milliseconds, the cookie for seconds (`ReadersAgree`).
- mail.service.ts:156 says that delivery "is disabled until SMTP recovers";
  nothing creates the transporter again (`RefusedForAReason`).

## What is proved

TLAPS, for every number of listings, workers, requests, attempts and faults:

- `TypeCorrect`: `Spec => []TypeOK`. `TypeInv` strengthens `TypeOK` by what the
  steps need to keep it: a worker that looks at a row knows which listing it
  belongs to, and a worker that is claiming has budget left.
- `StaleWorkersAreFenced`: `Spec => StaleResultsDiscarded`. The invariant
  `FenceInv` says that a worker never holds a revision its row has not reached,
  that a superseded worker holds an older one, and that a row some worker has
  seen disappears only with its listing, which never comes back. So a superseded
  worker at "settle" has an older revision and `OwnsRow` is false.
- `ClaimsAreExclusive`: `Spec => []ClaimsExclusive`, from `ClaimInv`: a worker whose
  claim was not overtaken holds its row at the row's revision (`HoldsCurrent`), a
  RUNNING row has one holder and any row one more for each late read-back
  (`HoldersPaid`). The proof counts with cardinalities of finite sets of workers.
- `AttemptsAreBounded`: `Spec => []AttemptsBounded`. The bound is not inductive
  alone: `AttemptsPaid`, also part of `ClaimInv`, says that once a row has used its
  attempts up, a lapse or a late read-back of this listing has paid for what it
  has used and for all that may still come: a claim of a row that waits or can be
  recovered, and the holders that can still send it back.
- `QueueImplementsLifecycle`: `Spec => LifecycleIsImplemented`. Under the mapping
  above each of the queue's actions is one of `JobLifecycle` or a stutter, with one
  more invariant, `RowInv`: a row that does not exist has revision 0, so that a
  created row is a submission of version 0. That a removed job stays removed
  rests on `TypeInv`: a listing that has a row is live.

For every number of contents, edits, decisions and failed statements besides
(`ListingModerationProofs`):

- `ModerationImplementsQueue`: `ModerationSpec => QueueIsImplemented`. The
  refinement mapping is the identity on the queue's variables; one invariant,
  `ClientInv` (a handler that will enqueue knows its listing), is needed for
  `HandlerEnqueues` to be an `EnqueueRead` of a listing.
- `ModerationFencesWorkers`: the two fencing properties in the whole system.
- `ModerationImplementsLifecycle`: the two refinements compose, and
  `AttemptsBounded` holds in the whole system too.
- `ModerationTypesHold`, `PublicationsAreCleared`, `SettlementsAreAudited`,
  `CompletionsJudgeContent`: always `ModerationTypeOK`, `PublishedWasCleared`,
  `SettledIsAudited` and `CompletedJudgedContent`. Each speaks of the tables, and
  the tables are written by workers that decided some statements ago, so each is
  strengthened by what a worker on its way holds: one that is about to approve
  has an audited success on the content it read, and has read the content of
  the listing or been overtaken (`PublishInv`); one that is about to settle has
  the audit row of its outcome or is in `threw` (`AuditInv`); one that may complete and holds the
  current revision has judged the present content, unless somebody will still
  enqueue (`FreshInv`). A worker that overlooked an edit holds an older revision
  and is fenced off, so `FreshInv` rests on the queue's `FenceInv`.

For every number of emails, codes and requests (`AccountOtpProofs`):

- `AccountTypeCorrect`, `AccountsAreEarned`, `OnlineAreVerified`,
  `VerificationIsKept`, `CodesAreForUnverified`, `CodesAreUsedOnce`. The properties speak of the
  tables; what makes them inductive is what a request still knows at its
  write. `AccountInv` adds, for each request: a registration that saw an
  unverified account saw one no admin has created, and is `late` once that
  account is verified (`ReadIsKept`); a verification holds a code of its own
  account and is `late` once the code is used (`CodeIsKept`); a login under way
  has seen an earned account (`LoginIsEarned`).

For every number of owners, assets and requests (`StoredImagesProofs`):

- `ImagesTypeCorrect`, `ShownImagesAreKept`, `OwnImagesAreKept`,
  `ForgottenImagesAreDestroyed`. `ImagesInv` adds to the types what each handler
  relies on between its statements: its step fits its owner, what it has doomed
  is spared by the payload it writes, what it owes the store is what its rows
  named when it read them, and, until it is overtaken, the rows are still those.

For every number of users, titles, candidates, listings, reports and requests
(`ListingCatalogProofs`):

- `CatalogTypesHold`, `ConflictsStayRaces`, `ResolvedStaysOffShow`. `CatalogInv` is `CatalogTypeOK` (with `SlugsIdentify`),
  `ConflictsAreRaces` and `ResolvedIsOffShow`, and for each handler what its step
  may hold: a request that looks for a slug is at one of the candidates of its
  title, one that acts for a user has a user. The two races are then inductive
  as stated. `ListsAgreeWithPages` compares filters with a check and is not about
  steps at all: the lemma `ListsAgree` derives it from the types, list by list,
  for the lists of ListingsService and AdminService. The listing that the
  conversation list embeds (conversations.service.ts:457) is shown to its
  participants whatever its approval, and is not among them.

For every number of deciders and notices (`NotificationsProofs`):

- `NoticesImplementCatalog`: `NoticesSpec => CatalogSpec`. The three statements of a
  decision are, with what the catalogue does beside them, the approvals and
  rejections that `ListingCatalog` lets come at any moment; so `NoticesKeepLists`:
  `ResolvedIsOffShow` and, with the lemma `ListsAgree`, `ListsAgreeWithPages` hold
  with overlapping decisions.
- `NoticesTypesHold`, `NewestNoticeStaysTrue`. `NoticesInv` adds `Holding` (a decider
  that is to tell, and is not outdated, has the approval of the listing in
  hand), `TellersKnow` (and its seller), and `NewestExists`: a non-empty set of notices
  has a newest one, kept as an invariant because notices are only appended.

For every number of conversations, messages, drafts and clock values
(`MessagingProofs`):

- `MessagingDelivers`: `MessagingSpec => DeliveryIsImplemented`, and with it
  `SendersCanRely`: an acknowledged draft is stored with a notification of it, and a
  draft is stored twice only if its sender was told SEND_FAILED. The second is an
  invariant of `MessageDelivery` and is proved of its variables; the refinement
  brings it down to messages and sockets.
- `MessagingTypesHold`, `ConversationsAreOne`, `BlocksSilence`, `NewMessagesAreUnread`,
  `NewestIsListed`, `UnreadStaysOwn`. `MessagingInv` adds that one request at a time
  sends a draft and that it knows its row (`SendInv`), that no row and no read mark
  is later than the clock (`ClockInv`), that a request which would not find now
  what it found has been marked late (`KnownInv`), and what became of every stored
  draft: on the way to its reply, acknowledged, or reported as failed (`StoredInv`).

For every deployment, that is for any *combination* of texts, where the run
sets one variable at a time (`ServerStartupProofs`):

- `StartupImplementsMail`: `StartupSpec => MailSpec`; a server that loads its
  environment first is a mail service whose configuration is given.
- `StartupTypesHold`, `RefusalsAreExplained`, `RefusalsHaveReasons`,
  `AutomationStaysValidated`, `ReadersAgreeUnlessMisread`. `StartupInv` adds that the
  settings and `process.env` are what this deployment yields, and that nothing
  is running without having been accepted (`LoadInv`); and that a started SMTP
  service without a transporter was to verify it (`VerifyInv`). What is left is
  a case analysis of the texts of each variable.

Assumptions, all evaluated by TLC on every instance: `NoListingAssumption`,
`BoundsAssumption`, `ContentsAssumption`, `AccountAssumption`, `ImagesAssumption`,
`CatalogAssumption` (generateSlug tries at least one slug), `NoticesAssumption`,
`MessagingAssumption`, `OutagesAssumption` and `DeploymentsAssumption` (a deployment gives a
variable one of its texts). They say that the bounds are numbers and that the
value for "none" is not one of the others. The strengthenings were checked by
TLC before they were proved.

Only model-checked: liveness (`JobsSettle`, `EveryListingModerated`), which is
out of the prover's reach, and the two violated properties. Every other
property of a run is a theorem.

Taken from outside the code: the model approves no suspicious content; a client
repeats a draft until it is acknowledged; the provider and the image store fail
and recover as they like; the supervisor restarts the container; ConfigModule
lets the shell go before the files and writes back what the shell has not set;
jsonwebtoken takes a bare number for milliseconds and expires tokens at whole
seconds; PostgreSQL keeps unique indexes, foreign keys and their cascades.

## Plan

Done: the queue with its abstract life cycle, workflow, sellers and admins and
the refinements between them; accounts; messages with their abstract delivery;
images; catalogue and notifications; environment, startup and mail; a proof of
every safety property that a run checks. Next:

1. What the refinement of `JobLifecycle` promises, as `SendersCanRely` does for
   messages: versions only grow, a removed job stays removed, and a finished
   version was begun and confirmed by the worker that finished it.
2. An abstract specification of accounts (a code earns an account) that
   `AccountOtp` implements.
3. Sale status of listings beside their removal and the conversations about
   them, the part of `listings` that is not modelled.

## Not modelled

Prompt texts and the LangChain adapter (their effect is the verdict); HTTP
guards, filters, logging, CORS but for its reading of NODE_ENV, cookies and the throttler (stateless, or a
counter of a library); socket rooms and events (lost events are repaired by
reading the rows); read-only queries of categories, dashboard, stats and health;
filters, sorting and pages of the lists; sale status, prices and profile fields
(plain overwrites); seed data, migrations and scripts. Which due row is taken
first is not modelled (claimNextJob takes the earliest `nextRunAt`, and a row
that is queued again gets a later one, so no row waits behind it for ever).

## Running

    tlc -config queue_jobs.cfg MCModerationQueue
    tlc -config moderation_faults.cfg MCListingModeration
    tlc -config account_race.cfg MCAccountOtp
    tlc -config messaging_send.cfg MCMessaging
    tlc -config startup.cfg MCServerStartup
    tlc -config notices_reports.cfg MCNotifications
    tlapm ModerationQueueProofs.tla
    tlapm ListingModerationProofs.tla
    tlapm AccountOtpProofs.tla
    tlapm StoredImagesProofs.tla
    tlapm ListingCatalogProofs.tla
    tlapm NotificationsProofs.tla
    tlapm MessagingProofs.tla
    tlapm ServerStartupProofs.tla

`PROJECT.json` lists every run with its module, the source lines of every
definition, and for each property a mutant: a plausible bug in the code that
makes TLC find the property violated.
