# Models of the scraper's job, account, feed and reporting protocols

TLA+ modules for `DoSomething-scraper`, the TLC runs that check them on small instances, and
theorems that TLAPS proves for every instance. Every module is a reading of the Python in
`src/app`; `PROJECT.json` maps each definition to the lines it stands for and lists, under
`hazards`, the places in the code that the properties are aimed at.

1. [The system](#1-the-system) 2. [Modules](#2-modules) 3. [Runs](#3-runs)
4. [Fairness](#4-fairness) 5. [Proofs](#5-proofs) 6. [Findings](#6-findings)
7. [What is not modelled](#7-what-is-not-modelled) 8. [Plan](#8-plan)

## 1. The system

Five kinds of process share a PostgreSQL database and a message queue, and nothing else.

```
 dashboard -> API ----.                                .---- worker process (1..n)
                      |--> scrape_jobs, influencers, --|      worker_loop: slots of _run_one
 scheduler (one) -----'    posts, accounts, tokens     |      login poller, revalidator
   daily dispatch,    \                               /
   recovery ticks      '--> queue (Redis / SQS) -----'
```

| component | state it keeps | operations | what makes it correct | module |
|---|---|---|---|---|
| job lifecycle (`scrape_job_repo`, `scrape_job`) | a row per job: status, retry_count, heartbeat, cancel request | create, heartbeat, reap, list retries, request cancel, outcome of an attempt | one attempt at a time; a bounded number of retries; what is over stays over; every job ends | `JobFleet`, `JobLifecycle` |
| queue (`redis_queue`, `sqs_queue`) | messages that wait, SQS messages that are held | enqueue, dequeue, delete, visibility timeout | a queued row has a message on its way | `JobFleet` |
| scheduler (`scheduler/runner`) | nothing but its ticks | daily dispatch, retry tick, reap jobs, reap leases, token refresh, alerts | restartable at any point; everybody who is active is dispatched again and again | `JobFleet`, `AccountPool`, `Intake` |
| worker loop (`worker_runner`) | running tasks, the slot cap | receive, run, acknowledge, stop | a message is acknowledged once its task is done | `JobFleet` |
| job processors (`workers/*_processor.py`) | an ORM session per attempt with objects as loaded | the attempt: start, acquire a credential, work, write the outcome, lead to the next job | the outcome they write is about the attempt that owns the row | `JobFleet`, `Intake`, the walks below |
| dispatch (`dispatch_service`) | none | pick a backend, create the row, enqueue | jobs do not pile up; the backend suits the account | `Intake` |
| account pool, login poller, revalidator | a row per account: status, cookies, failure_count, cooldown, lease; what one round loaded | acquire, renew, release, reap, register, log in, probe, reactivate, disable, delete | one job per session; every lease ends; disabled is final | `AccountPool` |
| Instagram client, Graph token pool, YouTube key pool | usage counters, cooldowns, quota day; the credential at hand | request, classify the answer, retry, rotate, mark | no healthy credential is blamed, a spent one has a date to come back on, requests end | `ApiClients` |
| feed walk (`_run_scrape` on Instagram and YouTube) | posts, snapshots, backfill cursor and flag | page, save, advance, stop, choose what to sync | nothing that is wanted is skipped; a backfill ends | `FeedScan` |
| hybrid walk (Graph job and enrich job) | the same posts and one snapshot per post and day | page, save, merge, link, sync | gaps are closed; each post gets its first comments | `HybridScan` |
| comment sync (`comment_sync`) | comments, the count and cursor of a post | walk threads, delete what is gone, count | only what is gone is deleted; counts agree with rows; a truncated walk goes on | `CommentSync` |
| influencers, creators, categories | rows, a unique key each, flags | register, import, edit, rename, pause, close, delete | one name is one group; whoever is off is off for a reason | `Registry`, `Intake` |
| analytics (`creator_stats`) | outlier scores | pure computations over snapshots, recompute | reports agree with each other and with their definitions | `CreatorStats` |
| alerts, API, dashboard, query console | what has been paged | queries, messages | - | - |

The hard behaviours come from how these are put together.

- *Stale objects.* Sessions are opened with `expire_on_commit=False`; an attempt, a retry tick, a
  poller round, a client and `release()` all act on what they loaded minutes earlier.
- *Two stores.* A row is committed, then a message sent; nothing reconciles the two.
- *Death.* Workers are redeployed at any time; the reaper, the lease timeout and (on SQS) the
  visibility timeout each recover a part, at different times.
- *Resumption.* A backfill, a comment walk and a hybrid walk take many attempts, of which any may
  be cut off between two commits.
- *Partial readings.* Days without a scrape, broken readings and posts that are found late must not
  show up as growth.

## 2. Modules

| module | models | used by |
|---|---|---|
| `JobLifecycle` | what the fleet promises: one right to attempt a job, and where it may go | `JobFleet` (refinement) |
| `JobFleet` | job rows, API and scheduler writes, both queues, the attempts of all workers | `MCJobFleet`, `JobFleet_proofs` |
| `AccountPool` | account rows, jobs that lease them, reaper, both pollers, operator | `MCAccountPool`, `AccountPool_proofs` |
| `Intake` | who is due, dispatched, switched off and on again; how one job leads to another | `MCIntake`, `Intake_proofs` |
| `FeedScan` | one influencer's feed, the walk, its cursor, the posts saved and synced | `MCFeedScan`, `FeedScan_proofs` |
| `HybridScan` | the Graph walk and the enrich walk over the same posts | `MCHybridScan`, `HybridScan_proofs` |
| `CommentSync` | the comments of one post and the walks over them | `MCCommentSync`, `CommentSync_proofs` |
| `ApiClients` | the three clients, their answers, and the credentials they report on | `MCApiClients`, `ApiClients_proofs` |
| `Registry` | requests that register, import, group and delete, as transactions with locks | `MCRegistry`, `Creators_proofs` |
| `CreatorStats` | snapshots as scrapes leave them, and the reports on them | `MCCreatorStats`, `Creators_proofs` |

An action is one committed transaction or one queue operation, or, where a section says so, a
transaction that reads and writes a single row and leaves nothing to come between. What is loaded in
one and used in another is a variable of its own. The modules compose by what
one assumes and another shows: the walks have one attempt at a time, which is `JobFleet`'s
`AtMostOneAttempt`; jobs end, which is its `JobsSettle`; a lease is one job's, which is
`AccountPool`'s `SessionsAreExclusive`.

### JobFleet and JobLifecycle

`status, retry, beat, cancelReq` are the columns of a row. `creating`, `deleting` and `cancelSaw`
hold an API request between its read and its write, `retryList` and `requeue` the retry tick
between its query, its commit and its send. `ready`/`orphan` are the messages of a job that can be
received, and those that a dead worker had received from SQS. `pc, job, seen, stop, receipt` are a
task of `_run_one`: where it is, its message, the `retry_count` its object was loaded with, its
`_cancel_event`, and whether its SQS receipt still deletes the message.

All five processors are one state machine; where they differ (`verify` counts an empty pool and
has no heartbeat, `graph` ignores the cancel flag, `verify` completes on a missing handle) an action
looks at `Kind`. The processor for enrichment jobs behaves like `cookies` here.

`JobLifecycle` is the abstract specification. A job's right to be attempted is `out` (with a message
or a send), `held` by a task, `back` with the scheduler, `adrift` (a worker died, a message was
lost) or `over`; failures are counted on the way. `RightOf` is the refinement mapping. The
promise that is not visible in any single row: no step creates a second right, `over` is never left,
and a failure is only counted by the one who holds the right, or by the reaper when it is adrift.

Abstractions:

- Heartbeat age is `fresh` or `stale`. Without the fault `stalls`, only a row that nothing attempts
  becomes stale; that fault is the one the design cannot tolerate, and every property of exclusive
  ownership fails with it.
- `Counted` stops counting at `RetryCap > MaxRetries + 1`. The code compares `retry_count` with
  `MaxRetries` and nothing else, so no comparison changes.
- `Send` waits while a job has `MaxCopies` messages. The proofs of single ownership show that this
  never blocks under Redis.
- Which slot is free is not modelled by a cap; `Slots` is the set of tasks that may ever run at once.
- The redrive of SQS to its dead-letter queue is left out.

### AccountPool

The columns `status, hasSession, failures, cooling, lease`; a job as `pc, uses, knew` (the account
it acquired and the `failure_count` it loaded); the pollers' lists `logins` and `probes` of each
worker process. `release()` writes through the loaded object, so `Release` overwrites whatever
the row has become. `OperatorActs` says which admin calls are made. `failure_count` saturates at
`MaxFailures`, the only value it is compared with. Which of the eligible accounts is chosen is open.

### Intake

An influencer's `row` has the four flags that decide whether and how it is scraped (`is_active`,
`paused_by_category`, a deactivation reason, `api_supported`); `handle` and `kind` are what the
operator and the platform know, `category` its group. `Tick`, `PassOver`, `Clear`, `DispatchDue` are
`run_daily_scrapes` with its gap between `has_active_job` and the dispatch. A job carries the handle
of its message and the row it loaded (`seen`), and writes through it (`Written`).

Where one handler commits more than once, each commit is an action and the job's `at` says how far it
is. On the Graph API, `GraphReads` has the profile, `GraphSucceeds` commits `completed` with the
recompute (or leaves the row running, `stuck`, when that is rolled back), and only then
`EnrichFollows`. `NotProfessional` commits the note, `FallBack` the row of the cookie job,
`GivesWay` the outcome of the job that gave way: between the last two both are active, and a worker
may die at each of these points. What a dead worker leaves is `Reaped`, which compares before it counts;
`Fails` counts first (`Counted`, `Reclaimed`). `ticked` is history: whether a scrape comes of a tick,
itself or through a fallback. `UpdateDetails` corrects the handle and may move the influencer to
another category, which leaves `paused_by_category` as it is; opening and closing a category
(`SwitchCategory`) looks at it. `offBy` is history: who switched an influencer off last, or that it
was moved while paused. What lies between a row and its message is `JobFleet`'s. `Room` bounds the jobs
that are about at a time: a new one leaves a place for one that follows from another.

### FeedScan

Posts are numbered by publication. `Page(c, last)` is what the platform shows after cursor `c` down
to post `last`, the pinned ones first on the first page of Instagram; where a page ends is any
choice. The walk is `Start`, then `SavePage` and `Advance` until `Close`, `EmptyPage` or
`FetchFails`; each is one commit of `_run_scrape`. `SaveFeedPage` is the cookie processor's,
`SaveUploadsPage` YouTube's, which hydrates a page in a second request, knows no pinned posts,
forgives one expired page token (`Restart`) and leaves out videos whose comments are disabled. `recorded` is what the latest metrics snapshot says of a post's comments,
`fetched` its rows, `synced` the `comments_synced_count` column; the column is written by the
attempt's last commit, the rows by the sync's own session, which is why a death separates them.

The comments of a post are a number here, and a fetch is complete, capped or fails; YouTube's walk
counts the rows of one that fails, too. A post leaves
the window only between attempts, because an attempt computes its cutoff once. After a block,
`asyncio.gather` leaves the other tasks running; what they still commit is dropped in the model.

### HybridScan

`gpc, gat, ...` are the Graph job and `epc, eat, ...` the enrich job, each between reading a page and
committing it, so that they interleave over `stored`, `linked` (the row has the cookie API's media
id) and `dayRows` (today's snapshots of a post: both jobs look for one before they insert). `horizon`
is the newest post when a walk began. `calm` is set once enrich attempts fail no more.

### CommentSync

Comments are numbered in the order the platform lists them. `stored` are the rows, `cursor` and
`count` the committed columns, `nextCursor` and `nextCount` what the attempt's object holds until it
commits. A sync is `Begin`, `TopPage`, the replies of the page (`BeginThread`, `ReplyPage`,
`DeleteMissingReplies`), `PageDone`, and `Close` or `Truncated`. YouTube differs in what it resumes,
in the replies it lists inline and in which threads it walks (`Changed`).

A sync begins only for a candidate (`IsCandidate`): `news` says that the number the platform reports is
not the one of the last snapshot, or that there is none; the enrich job also takes a post whose
count is zero. The snapshot is committed before the comments are asked for, so that `Begin` uses `news`
up whether or not the walk gets anywhere, and so does a scrape in which the post gets no place
(`PassedOver`).

### ApiClients

A credential is a row and the generation of its value. A client holds `current`, what it was handed;
its tasks are requests with `attempt`, `looks` and `rotation` as their loops' counters. A request
without a credential asks the pool: `LoadRows` reads the rows, decides what is due for a reset and
which one to take, `TakePick` writes the resets (only the columns that differ from what was
loaded) and hands the choice out; between them others use, mark and reset the same rows. A `mark_*` or
`add_usage` reads its one row and writes it in one step here. Each answer a platform may give is a disjunct: `Refused`, `Redirected`, `Stalls`, `Accepted`,
`Bodies` for the cookie client, `GraphAnswers`, `NearCap`, `YouTubeAnswers` and `BadRequest` for the
others; the last is YouTube blaming the request (`badRequest`, `forbidden`, `accessNotConfigured`), which
marks a key that is good. Quota counts up to `Limit`, the soft stop. The rate limiter delays and is
left out.

### Registry

`req[r]` is a request with its open transaction: the creator it found, the one it has flushed
(`fresh`), the handle it has flushed (`held`), and the items of an import that are left. What is
flushed is a lock for the others (`NameIsLocked`, `HandleIsLocked`, `RowIsLocked`), as PostgreSQL's
unique keys and row locks are; `DeadlockFound` ends one of two that wait for each other. An update may
put the influencer under a name, unlink it, or change the handle alone (`to`).

A name is a key and a spelling of it; `get_or_create_by_name` compares keys (`Fold`), the unique
constraint spellings. `late` and `apart` are history: `late` are requests that looked for a creator in
vain and during which one came by the name; `apart` are the creators such requests made, and those
renamed to what another is called in other capitals.

### CreatorStats

Here the state is a history of readings (`profile`, `snaps`, `posted`) that grows by scrapes, and
the reports are operators over it: `Scores`, `Shown`, `GrowthSeries`, `Milestones`, `PaidViews`,
`SummaryBase`, `ViewsInWindow`, `ViewsSeries`. The properties compare them with definitions that see
the whole history. Readings are any: a profile may read zero, or less than before, any number of
times; a post's row may have views and likes, either alone (the Graph API reads no views, photos have
none, likes may be hidden) or neither (`Blank`), and a later row of a post may have less than an
earlier one.

The windows are the code's: a chart shows the readings from `ChartStart`, so many `days` before today,
a summary reaches back `Window` days from the day of the latest reading of the profile
(`SummaryStart`), for followers and for views. A page of posts is one of the latest or of the best, of
all or of one format, each with the pool that is fetched for it (`Fetched`, `Shown`).

A series is a function from days to values. Sums are a recursive function (`Total`), the median is
that of any sort (`Ascending`); the reference for a score finds the middle by counting (`Nth`) and
fetches nothing. `subject` selects the bounds of a behaviour and nothing else: behaviours with a
profile and few posts, or with posts and few readings of the profile, keep the instances small.

## 3. Runs

Deadlock is checked in `FeedScan_walk`, whose system never stops. It is not in the others: when every job
has ended, every account is disabled, every comment is written or every bound is reached, the system
is rightly quiet.

| run | instance | checks |
|---|---|---|
| `JobFleet_redis` | 2 jobs (one cookie scrape, one verify of a paused influencer), 2 workers, Redis, all deaths, `MaxRetries` 1; 0.9 M states | `TypeOK`, `AtMostOneAttempt`, `SoleOwner`, `SettledStaysSettled`, `ImplementsLifecycle` |
| `JobFleet_live` | 1 job, 1 task at a time, SQS, deaths and messages that outlast their timeout, 2 copies, `MaxRetries` 2, fair; 0.13 M states | `QueuedIsBacked`, `JobsSettle` |
| `AccountPool_leases` | 2 accounts, 2 tasks of one worker, `MaxFailures` 2, deaths and aborts, no operator, fair | `TypeOK`, `SessionsAreExclusive`, `HolderAgrees`, `LeasesEnd` |
| `AccountPool_operated` | 2 accounts of which one is registered later, 1 task, every operator call, every fault; 1.3 M states | `InUseIsLeased` |
| `Intake_due` | 1 influencer of either kind under either handle, up to 3 jobs at a time, `MaxRetries` 1, workers that die between any two commits, 1 act of the operator, 2 categories that may open and close any time, fair; 0.45 M states | `TypeOK`, `OffForAReason`, `TicksDoNotPile`, `EveryoneIsScraped` |
| `FeedScan_walk` | 3 posts on either platform, the oldest pinned or without comments, one before `scrape_posts_since`, a cap and a budget of 1, every fault, fair; 0.31 M states | `TypeOK`, `WalkMissesNothing`, `BackfillEnds` |
| `HybridScan_walk` | 3 posts, the oldest pinned and too old, 2 pages at most for each job, a budget of 1, failures, fair | `TypeOK`, `WindowIsFound`, `CommentsOfTheRightMedia`, `FirstSyncHappens` |
| `CommentSync_walk` | 3 comments of which one has 2 replies, either platform, no cap or a cap of 2, pages of 1, a reported number that moves or stands still, scrapes that pass the post over, failures and deaths, fair; 0.35 M states | `TypeOK`, `CountIsTrue`, `CapHolds`, `OnlyTheGoneAreDeleted`, `EveryCommentArrives` |
| `ApiClients_pool` | 2 credentials, 2 concurrent requests, each of the three clients, 1 retry, 2 rotations, 1 act of the platform or the operator (on accounts and tokens), fair; 0.41 M states | `TypeOK`, `HealthyIsNotBlamed`, `DatesAreKept`, `RequestsEnd` |
| `Registry_requests` | 2 requests at a time, 3 in all, 2 handles, one name in 2 spellings, fair; 0.42 M states | `TypeOK`, `NoGroupLeftBehind`, `SameNameSameGroup`, `RequestsEnd` |
| `CreatorStats_reports` | 5 days of a profile with readings from 0 to 3 and charts of 2 or 4 days; a post of any rows over 4 days; 2 posts over 3; 5 posts to score; 0.14 M states | `ScoresAgree`, `GrowthIsReal`, `WindowsAgree`, `GainsWereSeen` |
| `JobFleet_cancelled` | the smallest instance that shows the point | `CancelledStaysCancelled`, which the code violates: see [findings](#6-findings) |

What the less obvious ones show. `ImplementsLifecycle`: dead workers, reaper, retry tick and API together
never do more with a job than the seven actions of `JobLifecycle`. `TicksDoNotPile`: whatever triggers,
retries, reaped rows and the gap in the tick do, one scrape of an influencer comes of the ticks at a
time; a fallback makes it two, since the new job is committed before the old one gives way, and a
worker that dies between leaves both. `EveryoneIsScraped`: an influencer that stays active is attempted
again and again by a way that can read the account; an attempt counts, whether or not it gets to
the end. `WindowIsFound`: a Graph walk that reaches the end has closed the gaps that failed walks
before it left. `FirstSyncHappens`: although the Graph job refreshes the number that the enrich job
compares with, every post gets its first comments, unless two snapshots of a day stop the job.
`OnlyTheGoneAreDeleted`: absence from a walk proves that a comment is gone only if the walk was
complete. `HealthyIsNotBlamed`: of all answers, those a good session or key may get never mark it,
except the ones in which YouTube blames the request. `DatesAreKept`: a credential that runs out has a
date to come back on, unless somebody commits a reset that was loaded before. `NoGroupLeftBehind`: a
failed registration leaves no creator behind. `SameNameSameGroup`: one spelling is one creator always,
one name in several capitals just as long as no two requests for it overlap and no creator is renamed
to it; the two exceptions are where the code falls short of its docstrings. `GrowthIsReal`: milestones
and earnings follow from the readings of the chart, with one leading zero told from a reading and a
second one not. `WindowsAgree`: the days of the growth chart add up to the summary's gain where its
older reading is on the chart, and the summary's views are what the views chart ends above where the
posts stood, if all of them have views. `ScoresAgree`: stored scores and those of the latest posts are those of the
whole history, and the pages of the best and of a format differ at most at the end of their pool.

Why these bounds. Jobs do not interact except through the retry tick's list, its one pending send
and the tasks of a dying worker, so two jobs of different kinds meet everything one job can meet in
company; two slots in two workers give an attempt a rival. `MaxRetries` 1 reaches the limit within
two attempts, 2 leaves a count on either side of it. Accounts interact through the reaper's one
UPDATE and the pollers' lists; two of them and two tasks are enough for a lease to change hands
while its former holder lives. Influencers meet only in the category's switch, which treats them
alike, and in the pool, whose answer is any: one is enough, with three jobs (a scrape, what follows
it, and one triggered) and a category to be moved to. Three posts are the fewest with one that is pinned and out of scope and
two that a page boundary, an interruption or the end of the window can separate. Three comments and
pages of one make a walk longer than its page limit of 2; two replies do so for a thread. Two
credentials are the fewest to rotate over, two requests the fewest that share a client. Two
transactions make every race; the third request finds what they left. That two updates wait for
each other takes more requests than that. Five days hold a start of two broken readings, a dip, a gap and
a chart that begins before, with or after the window of the summary. Five posts are more than the
four that a page of the best looks at, with a lookback of two. The slots are
symmetric in one safety run; no liveness run uses symmetry.

## 4. Fairness

- `JobFleet`: each scheduler tick is weakly fair (APScheduler runs it again after ten minutes,
  and `SchedulerDies` only empties what it held); so are pending API writes and the steps of a live
  attempt. Receiving is strongly fair because a slot frees and fills again. Acquiring is strongly
  fair: the pool is not empty at every single attempt. `<>[][~WorkerDies]` says that deployments
  come to an end for one job; without it a job that dies every time is reaped into `failed` by the
  retry count, but a worker that dies between receive and start, for ever, never counts.
- `AccountPool`: the reaper and the passing of a lease's time, and that a live job comes to its end.
- `Intake`: the ticks come and get through their list, messages are received and jobs end, each as one
  weakly fair step over all jobs, since a job under way is never overtaken for good; the reaper
  finds the rows that were left running. Two are strongly fair: a start (`PoolReturns`: cookie
  accounts become available now and then) and that the platform some day says what it knows of an
  account (`NotProfessional`, `NotFound`). A worker need not die.
- `FeedScan`: attempts are dispatched again; asking for a page, and the two commits after it, are
  strongly fair, so they succeed now and then although each may be cut off any number of times.
- `HybridScan`: enrich jobs are dispatched and go on, since each Graph job dispatches one. Their
  failures must end (`calm`); the Graph job needs no fairness.
- `CommentSync`: a sync under way goes on. That the post is picked again is not assumed: nothing
  guarantees it (its number may stand still, others may have more backlog), so it is a premise of
  `EveryCommentArrives` (`PickedAgain`), as is that failures and deaths come to an end (`Calm`).
- `ApiClients`: a request that is under way gets an answer, or a timeout takes its place, and the
  database answers. Nothing is assumed of time, of jobs and of new requests.
- `Registry`: a request that can go on does. Nothing is assumed of locks: that waiting ends is shown.

## 5. Proofs

All theorems are about `Spec` (`StatsSpec` of `CreatorStats`) with any constants that satisfy
`ConstantsAssumption` (`StatsAssumption`). A theorem that assumes more says so in its statement; each
such assumption excludes a case in which the property fails, most of them listed under
[findings](#6-findings). `Creators_proofs` holds the proofs about two modules that share no state.

| theorem | says | assumes besides |
|---|---|---|
| `JobFleet_proofs!TypeCorrect` | `TypeOK` | - |
| `... OwnerCorrect` | `SoleOwner` | `HandedOutOnce`: Redis, or SQS without dying workers and attempts that outlast their message; heartbeats of live attempts arrive |
| `... OneAttemptAtATime`, `BudgetIsKept`, `SettledIsFinal` | `AtMostOneAttempt`, `RetryBudget`, `SettledStaysSettled` | the same |
| `... FleetImplementsLifecycle` | `ImplementsLifecycle`, the refinement | the same |
| `... QueuedStaysBacked` | `QueuedIsBacked`, on either queue | neither API nor scheduler dies between commit and send; workers die under SQS only |
| `AccountPool_proofs!TypeCorrect`, `EveryLeaseHasAnExpiry` | `TypeOK`, `InUseIsLeased` | - |
| `... HolderCorrect`, `OneJobPerSession`, `DisabledIsTerminal` | `HolderAgrees`, `SessionsAreExclusive`, and that a disabled account stays out (not in a run) | one worker process, every task renews its lease and is heard, the operator leaves alone what a job or poller has in hand (`[][Considerate]_vars`); for the last, and only disables and deletes |
| `Intake_proofs!TypeCorrect`, `ReasonsStand`, `TicksStaySingle` | `TypeOK`, `OffForAReason`, `TicksDoNotPile` | - |
| `FeedScan_proofs!TypeCorrect`, `WalkCorrect` | `TypeOK`, `WalkMissesNothing`, on both platforms | - |
| `HybridScan_proofs!TypeCorrect`, `WindowStaysFound`, `MediaStayRight` | `TypeOK`, `WindowIsFound`, `CommentsOfTheRightMedia` | - |
| `CommentSync_proofs!TypeCorrect`, `CountStaysTrue`, `CapIsKept` | `TypeOK`, `CountIsTrue`, `CapHolds` | - |
| `... TombstonesAreTrue` | `OnlyTheGoneAreDeleted` | no answer lacks its list of comments |
| `ApiClients_proofs!TypeCorrect`, `DatesStay` | `TypeOK`, `DatesAreKept` | - |
| `... HealthyStaysInService` | `HealthyIsNotBlamed` | no operator replaces a value (`Rekeyed = FALSE`) |
| `Creators_proofs!TypeCorrect`, `NoGroupStaysBehind`, `GroupsStayRight` | `TypeOK`, `NoGroupLeftBehind`, `SameNameSameGroup` of `Registry` | - |
| `... HistoryKept` | `History`, the inductive invariant of `CreatorStats` | - |
| `... ScoresStayRight`, `GrowthStaysReal`, `WindowsStayEqual`, `GainsStaySeen` | `ScoresAgree`, `GrowthIsReal`, `WindowsAgree`, `GainsWereSeen` | - |

The arguments.

- **One owner.** "No two tasks attempt a job" is not inductive: a second message, a stale retry list
  or a reaped row of a live attempt each lead to it steps later. `SoleOwner` therefore follows the
  right to attempt a job, one token, through every place it can be: about to be sent by the API or
  the retry tick, in the queue, with a task, or nowhere, in which case the row waits for the tick or
  is over. An attempt knows the `retry_count` of its row, and a row that may be attempted has
  budget left. With the token unique, the next three theorems are a step each.
- **The refinement.** `RightOf` is read one case at a time (`RightIsRead`). An action leaves most jobs
  `Untouched`, and for these it stutters; for the job it is about, `SoleOwner` says where the token
  was, the action where it goes, and that pair is one of `JobLifecycle`'s seven actions. A dying
  worker moves many jobs in a step, each as `Dropped` or `Settled` (`DeathMoves`).
- **Queued rows.** `QueuedIsSafe` adds to `QueuedIsBacked` what the next step needs: under SQS, a task
  that has received a message and not started it still holds its receipt, or the message has become
  visible again (`Carries`). A dying worker turns each receipt into an orphan, counted by
  `UnackedIsCountable`.
- **Leases.** `HolderAgrees` adds to exclusiveness that the holder's row says `in_use` with its lease
  ahead, so that neither `Acquire` nor the reaper can pass the account on, and that what the
  revalidator loaded is still a checkpointed account, so that its late write cannot free a leased
  one, and that a login under way is still pending. The assumptions are just what each of the account
  hazards breaks. `Considerate` restricts the operator's steps and not `OperatorActs`: every act is
  allowed at any time on an account that nothing has in hand.
- **Why someone is off.** `NotesAgree`: the category's note stands only while the category is closed and
  never next to the operator's word, so that opening it brings back only whom closing it has paused.
  A job writes through a row that it loaded earlier; of its columns, one that differs from what was
  loaded is written and the others are left (`Written`), so that a late write switches off or does
  nothing, and never on.
- **Ticks.** At most two scrapes of the ticks and, if two, neither can send another (`IsSingle`,
  `CanSend`); whom the tick has found without a job has none of them, so that the gap before the
  dispatch is paid for in advance (`TicksAreSingle`). Most steps are `Tame`: they add none and give no
  job a way to send. A fallback is the one that is not; that it happens once for an influencer rests on
  `TasksAgree` and `KindsAgree`: a job that has noted that the API cannot read the account is of one whose
  row says so, only personal accounts have that note, and it is never taken back.
- **The walk.** "A walk that ends has missed nothing" needs what is true along the way. `WalkInv`
  says that a post shown by pages before the committed cursor is saved if it was there when the
  backfill last left the top (`CursorIsSafe`), that the same holds of the pages of the walk under
  way (`WalkIsSafe`), and that a backfill continues where the cursor says. A new page then extends
  it: what is not looked at lies beyond a post that ends the walk, and is not wanted. A YouTube walk
  that restarts is one that leaves the top again.
- **Two walks over the same posts.** The type invariant needs to know that both jobs together insert at
  most two snapshots of a post and day (`SnapshotsAreFew`). `PassedIsFound`: what the Graph walk has
  passed is stored, so a walk that comes to its end has found its window. `CandidatesGetLinked`:
  whoever is chosen for comments is on the page in hand, and the write of that page links it first.
- **What a comment walk has seen.** `OnlyTheGoneAreDeleted` is a property of one step; it rests on
  `WalkHasSeen` and `ThreadHasSeen`: `seen` covers what the platform lists up to the cursor and, after
  the last page, every row of a comment that stays; likewise the replies of a thread. Who comes while a
  walk is under way is listed last (`NewcomersAreLast`) and so is still ahead of it.
- **The count and the cap.** `CountIsReady` says of an attempt's uncommitted `nextCount` what `CountIsTrue`
  says of the committed one. For `CapHolds` the number of rows is bounded before an answer is
  stored; the answer adds no more rows than it has places, by an injection of the new rows into these.
- **Credentials.** `HeldIsCurrent`: while no value is replaced, what a client holds is the value in the row,
  so that a refusal of the one is a fact about the other (`Blameless`). For the dates, each action that
  exhausts a credential or adds to its count also sets one, and what takes one away is a reset
  (`AnswerKeepsDates`); if it was loaded from a row that has not changed since, it takes all three
  columns back.
- **Groups.** In `Grouped`, the names of committed creators differ (`NamesAreOne`), a flushed creator has
  a name that no other has as long as its transaction is open (`FreshIsNew`), an influencer's group
  has the name it was given (`GivenIsTheName`), and a group without members has lost them
  (`NoGroupLeftBehind`). `Parted` adds what is true of capitals: of two creators of one name at least one
  is `apart` (`ApartAreKnown`), and if a request has looked for a name in vain and is not `late`, there
  is none of that name (`LateAreKnown`).
- **Sums.** `Total` is a recursive function, so that its value is known only once such a function is shown
  to exist. Of the lengths for which it might not, or for which two sums might differ, take the least
  (`LeastNumber`, from the library's theorem that numbers are well-founded): it is not 0, and one less
  has its sums (`SumsExist`, `SumsAgree`). From this, a total of differences is the difference of the
  ends (`TotalOfSteps`), and totals compare as their summands do (`TotalGrows`). These carry earnings,
  the summary and the chart.
- **Growth.** What `_strip_phantom_zero_lead` leaves is the series without its first reading if that is a
  zero before a positive one, and else the whole series (`StrippingIsRight`); so a chart starts with the
  first genuine reading just if there is at most one broken one before it (`BrokenReadings`). The
  highest mark before a day is below a threshold just if no earlier reading reached it
  (`HighWaterIsHighest`), so a threshold is announced on the first day that reaches it. An interpolated
  series rises or falls between two readings as they do and meets them at its ends
  (`InterpolationRuns`), rounded to even or not (`RoundedKeepsOrder`), so that what is paid day by day
  up to a reading is the sum of the rises up to it (`PaymentsAddUp`, by a least counterexample).
- **Summaries and views.** `History` says that the tables have rows of the right kinds (`Recorded`) and
  none of a day to come (`NothingAhead`), which makes the last row of a post the one that counts; its
  number is one of those the post has had, and so is that of its baseline, so what the post adds to
  the sum is at most the span of them, or all of it where the baseline lacks the number
  (`GainsHold`). If all posts count and have views in their last rows, the chart ends where the last rows stand
  (`KnownInTheEnd`). If the summary's older reading is on the chart, the differences from there on add
  up to the gain (`SummaryHolds`).
- **Scores.** Finitely many posts can be sorted: take a largest, sort the others, put it last
  (`PostsCanBeSorted`, again by a least counterexample). The k-th of any sort is the k-th by counting
  (`NthOfSorting`), of which there is one (`NthIsOne`). Posts of a pool are the last ones of the
  history with other numbers, and a sort of the one is a sort of the other (`SortingsMove`); with
  `Lookback` more posts than are scored, all that a score depends on is in the pool (`ScoresMove`); on
  the other pages the same holds of the posts that are not `Cut` (`UncutIsReference`).

Only model-checked: all liveness (`JobsSettle`, `LeasesEnd`, `BackfillEnds`, `EveryoneIsScraped`,
`FirstSyncHappens`, `EveryCommentArrives`, both `RequestsEnd`), which is out of the
prover's reach. Every other property of a passing run is a theorem.

## 6. Findings

`JobFleet_cancelled` ends in a counterexample to what `request_cancel` says of itself: a job cancelled
while queued runs when its message arrives, since `process()` sets `running` whatever the row says.

The models show more, without a run of their own. Each is reproduced by the change in brackets.

*Jobs.*
- On SQS a dead worker's job is retried after 180 s by the reaper and redelivered after 30 minutes by
  the queue: two attempts at one row, though no job was slow, while `infra/sqs.tf:15-19` has the
  visibility timeout match the lease timeout. [`AtMostOneAttempt` in `MCJobFleet` with `OneJob`,
  `TwoWorkers`, `Queue = "sqs"`, `WorkerDeaths`, `MaxCopies = 2`]
- A scheduler killed between commit and enqueue leaves a `queued` row that no tick selects and that
  keeps its influencer from being dispatched again; `scheduler/runner.py:47-51` says that a restart
  "self-heals any backlog". [`JobsSettle` with Redis and `SchedulerDeaths`]
- A failing outlier recompute rolls back the uncommitted `completed` and leaves the row running until
  it is reaped, though `job_processor.py:234` says "Never fails the scrape job". [`RecomputeFails`
  leads to `acking` with the row still `running`]
- The graph processor's heartbeat drops what `ScrapeJobRepo.heartbeat` returns
  (`instagram_graph_job_processor.py:236`): a cancel of a running graph job never takes effect.

*Accounts.*
- Registering a login for an account in use leaves a row without cookies in the pool after the job's
  release, and the login is never attempted. [an `active` account without `hasSession`, with
  `OperatorActs <- Logins`]
- A disable of an account in use is undone by its release; refreshing the cookies of an account in
  use puts it back into the pool; with two worker processes one revalidator frees an account the
  other's job leased; an account deleted during its login is created again.
- A key or token that an operator replaces while a job still holds the old value is marked invalid by
  the old value's refusal. [`HealthyIsNotBlamed` with `Rekeyed = TRUE`, `MaxActs = 2`, 6 states]
- `badRequest`, `forbidden` and `accessNotConfigured` (`youtube_client.py:41`, `197`) say that a request or
  a project is at fault; a key that is good is marked invalid for them all the same, and the client
  goes on to the next. [`HealthyIsNotBlamed` without its exception, 5 states]
- Of two overlapping `get_usable_key`, the later one commits a reset that it decided on before the key
  was used or marked again, and takes the new date away: a spent key is left without one, though
  the docstring of `add_usage` says that the stamp "guarantees `_reset_if_due` always has a real deadline"
  (`youtube_api_key_repo.py:117`). [`DatesAreKept` without its exception, 10 states]
- The `mark_*` methods overwrite an operator's `disabled`, and the reset then makes the row active.

*Intake.*
- While no cookie account is available, an enrich job waits uncounted and hides its influencer from the
  daily tick, so that not even the Graph API scrapes it, though
  `docs/INSTAGRAM_GRAPH_API_PLAN.md:292` promises that "core metrics are already fresh".
  [`EveryoneIsScraped` with `PoolReturns = FALSE`]
- `update_details` moves an influencer to another category (`influencer_repo.py:209-210`) and leaves the
  note `paused_by_category` as it is: moved out of a closed category it stays off, though no category
  that it belongs to is closed, until its new one is closed and opened. [`OffForAReason` without
  "move", 3 states]
- A fallback's new job is committed before the old one gives way, so a worker that dies in between
  leaves two scrapes of one influencer. [`TicksDoNotPile` with one scrape at a time, 7 states]
- As in the cookie processor, a failing recompute leaves the Graph job's row running until it is reaped.
- A job with the old handle deactivates an influencer whose handle has been corrected meanwhile.
- `models/category.py:23-26` says that deactivation does not cascade; `CategoryRepo.update` does.

*Feeds and comments.*
- A post that loses its slot to a larger backlog is no longer a candidate, since its new count has
  been recorded with its page; the ranking of `job_processor.py:549-554` that is to keep it from
  starving never sees it again. [2 posts, `MaxSync = 1`, no faults:
  `synced[p] < recorded[p] ~> synced[p] >= recorded[p]` fails in `FeedScan`]
- A gap left by a failed later page outlives the comment window, and an earlier
  `scrape_posts_since` does not reset `backfill_completed`.
- Graph and enrich job may both insert a post's snapshot of the day, after which
  `scalar_one_or_none` raises in both for the rest of it. [`dayRows[p] <= 1` in `HybridScan` fails in 13
  states] A view count may be lost to an enrichment without one. [`Faults <- NullViews`]
- An answer without a list of comments ends the walk, and on a first page deletes every row of the
  post. [`OnlyTheGoneAreDeleted` with `Faults <- Emptied`]

*Registry.*
- Two overlapping requests under two spellings of a name make two creators, as does a rename to what
  another is called in other capitals; every later request under that name then fails in
  `scalar_one_or_none`. The docstrings (`creator_repo.py:51-55`, `influencer_repo.py:114-118`) say that the
  match is case-insensitive and a near-duplicate is not created. [`SameNameSameGroup` without `apart`, 9
  states]
- After a duplicate Instagram handle, an import row that also has a YouTube handle ends the request
  (an expired object is read), so "partial" is not reached.
- A duplicate handle in `update_details` is flushed before the `try` and so becomes a 500.

*Reports.*
- `_strip_phantom_zero_lead` goes on only while a zero is followed by a positive value. Two broken readings
  in a row are both kept, though its docstring (`creator_stats.py:354`) says "any leading zero(s)", and
  the first genuine one becomes income and milestones of a day. [`GrowthIsReal` without its exceptions
  for `Broken`, 6 states]
- A reading of zero later on is a reading: the chart falls to it, and the rebound is paid for in full,
  although only the highest mark counts for milestones.
- `_instagram_views_in_window` takes likes before the window for a baseline (`creator_stats.py:991`) and then
  subtracts the views, of which there were none: a post that the Graph API read before the window and
  that is enriched in it counts with all the views it ever had, though the comment next to it says "no
  real baseline for a pre-existing post -- exclude, don't overcount". [`GainsWereSeen` without the `base`
  clause of `whole`, 8 states]
- Where the Graph API's row of the day is not enriched, the last row of a video has no views: the chart
  falls to its likes while the summary counts the likes gained.
- The summary's window starts from the latest reading of the profile and the chart's from today, so the
  two may begin on different days even if asked for the same number of them.
- The pages of the best posts and of a format score the last posts of their pool against less than the
  lookback, although the comment (`creator_stats.py:1401-1405`) has the fetch provide it. [`ScoresAgree`
  without `Cut`, 10 states]

## 7. What is not modelled

- **Alerts**: one read of other tables and one JSON value per tick. Its message contains counts, so a
  count that changes pages again; a crash between the post and the save pages twice.
- **Token refresh and snapshots** of the scheduler; deleting keys and tokens.
- **Worker loop's cap**, graceful shutdown, dead-letter queue: see `JobFleet`.
- **Parsers, earnings, features, benchmarks, recommendations**: conversions and arithmetic without state.
- **Read API, dashboard, query console, configuration, migrations, scripts**: queries, presentation
  or declaration.
- The browser login, Instagram, YouTube and the Graph API appear as outcomes.

## 8. Plan

Modelling: the token refresh against use, the worker loop's cap, the alerts. No safety property waits for a proof.
