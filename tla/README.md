# urls4irl in TLA+

urls4irl is a web application for keeping URLs in shared collections, *UTubs*:
a Flask back end (`backend/`), a TypeScript front end (`frontend/`), PostgreSQL
for the data, Redis for web sessions, rate limits and metrics, and a mobile API
under `/api/v1`. This directory models its core in TLA+, checks the models
with TLC and proves theorems about them with TLAPS.

## The system

Production runs four synchronous gunicorn workers
(`docker/startup-flask.sh`). A request is served by one of them, start to end,
in one database transaction or in a few. PostgreSQL runs at its default level,
READ COMMITTED. The code never takes a row lock at a read (there is no
`with_for_update`); it reads, decides in Python, and writes at a commit.
Everything hard about the program follows from that: **between the read of a
request and its commit, other workers commit.** What then still protects the
data is what PostgreSQL and SQLAlchemy check at the commit: primary and foreign
keys, unique constraints, and that an UPDATE finds the row it names
(`StaleDataError`; a DELETE that finds none only warns).

| Component | State | Operations | Interacts with | Hard behaviour |
|---|---|---|---|---|
| UTub membership and ownership | `Utubs`, `UtubMembers` | create, add, leave, remove, delete; admin: lock, delete, remove, erase an account | contents (a UTub's deletion cascades), accounts (erasure) | two transactions per creation; ownership kept twice; transfers that overlap departures |
| UTub contents | `Urls`, `UtubUrls`, `UtubTags`, `UtubUrlTags` | save, move and delete a URL; apply, batch-apply and remove tags; coin and retire a tag; admin deletions and purge | membership (guards, lock) | limits and uniqueness checked before the insert; batches; commits in the middle of a request |
| API refresh tokens | `ApiRefreshTokens` | login, refresh, log out a device or all of them; admin: suspend, kill sessions, erase | accounts | reuse detection, lost answers, revocation racing insertion |
| Web sessions and account state | Redis session, `Users.is_suspended`, `sessions_invalidated_at` | login, logout; admin: suspend, release, sign out, reset, verify, erase | refresh tokens, every decorator | time stamps compared across processes; the last active admin |
| Registration, e-mail validation, password reset | `EmailValidations`, `ForgotPasswords` | register, resend, validate, forget, reset; admin force-reset and resend | e-mail service, accounts | attempt counters over windows of time, ages that wrap after a day, links that are replaced |
| OAuth sign-in and linking | `UserOAuthIdentities`, intents in the session | sign in, find or create, collision link, unlink | accounts | check-then-act on the last sign-in method; expiring intents |
| Permission decorators, `/api/v1` mirror routes | session cookie, bearer token | the tests of every route, in their order | everything with a route | two surfaces that must agree; pages that redirect to one another |
| Metrics pipeline | the page's buffer; Redis counters, lists, reservations; `AnonymousMetrics`, `AnonymousLatencySamples`, the rollup | emit, send, retry, reserve, record, flush every minute, roll up, prune, query | all routes (middleware), cron, admins | drain before commit, a lock that expires, retried batches, answers from two tables |
| Backup jobs | dumps, log archives, remote copies, a sentinel; a flag and a lock in Redis | dump, verify, prune, archive, upload, report; request one from the portal | cron, admins | runs that overlap and share names; a stop between any two steps; time-outs in Redis |
| Admin pages: operations, audit, database browser, health | `AuditLog`, failure flags in Redis | run a job by hand, purge the log, verify; read | all admin actions, cron's jobs | work and its audit row in two transactions; alerts about another process |
| Search, home page | none | read | membership, contents | none |
| E-mail, notification and URL-validation services, contact form | none here | calls to the outside | accounts, contents | failure of the service |
| Front end: decks, store, event bus | the client's copy of the selected UTub | select, refresh, edit | contents over HTTP | answers for a UTub that is no longer selected |
| CLI, migrations, OpenAPI generation, configuration | - | - | - | tools, not modelled |

What makes each one correct:

- **Membership**: a UTub has exactly one owner, who is a member of it and whom
  both records of ownership (`Utubs.utub_creator`, which admin actions read, and
  `UtubMembers.member_role`, which the decorators read) name; no membership
  outlives its UTub; an erasure is all or nothing.
- **Contents**: what is applied exists; no URL or tag is twice in one UTub; no
  tag twice on one URL; the limit of tags; a batch is atomic; the counts
  reported after a deletion are the counts.
- **Refresh tokens**: one live token per device, a family that is closed stays
  closed, a suspended or erased user gets no token.
- **Accounts**: there is always an active admin; a killed session stays dead.
- **Password reset, e-mail validation**: a link works once and not after its
  hour or its replacement; no more than so many e-mails in an hour; and a user
  who forgot the password can always get one.
- **OAuth**: nobody links an identity without having proved to own the account;
  no account loses its last sign-in method; an erased account is out.
- **Gates**: the web and the mobile surface let the same through; what is not
  the caller's looks like what is not there; redirects come to an end.
- **Metrics**: an event is counted at most once, and once when nothing fails; a
  sample is in the rollup before it is pruned; the answers agree.
- **Backups**: good dumps remain; a request is served unless something named
  stopped it; the sentinel and the alerts tell the truth.
- **Front end**: what is shown is of the UTub that is selected.

## Modules

| Module | Stands for |
|---|---|
| `RefreshTokens` | `api_v1/services/tokens.py`, `auth.py` and the admin actions that revoke tokens |
| `DeviceSessions` | the promise of it: a device session is open, is closed once, and its key changes hands one at a time |
| `UtubMembership` | `utubs/services`, `members/services` and the moderation and erasure of `admin/` |
| `UtubOwnership` | the promise of it: every UTub has one owner, a member |
| `UtubContents` | `urls/services`, `tags/services` and the admin deletions |
| `Bookmarks` | the promise of it: a UTub is a set of URLs, each with a set of tag names |
| `AccountSessions` | `users/routes.py`, the login stamp, `admin/account_service.py`, `account_data_service.py`, `guards.py` |
| `EmailLinks` | `splash/services` for the links in e-mails, with `EmailValidations` and `ForgotPasswords` |
| `SignInMethods` | `splash/services/oauth`, native sign-in, and the unlinking and erasure of identities in `admin/account_data_service.py` |
| `RequestGates` | `api_common/auth_decorators.py`, `parse_request.py`, the identity of a request in `backend/__init__.py`, and the decorators of every route |
| `MetricsIngest` | `frontend/lib/metrics-client.ts` and the ingest route of `metrics/routes.py` |
| `MetricsFlush` | `extensions/metrics/writer.py` and `scripts/flush_metrics.py`: counters and latency lists from Redis into PostgreSQL |
| `LatencyHistory` | the rollup and the prune of `scripts/flush_metrics.py` and the latency questions of `metrics/query_service.py` |
| `MetricsQueries` | the counter questions of `metrics/routes.py` and `query_service.py` |
| `BackupRuns` | `scripts/daily-docker.sh` and what it calls |
| `BackupTrigger` | the request for a backup: `admin/ops_service.py`, `scripts/run_backup_if_requested.py` |
| `AdminOperations` | `admin/ops_service.py` with its audit rows, and the alerts of cron's jobs |
| `RefreshTokensProofs`, `UtubMembershipProofs`, `UtubContentsProofs`, `SignInMethodsProofs`, `MetricsFlushProofs` | theorems about the module each is named after |
| `LinksAndGatesProofs` | theorems about `EmailLinks` and about `RequestGates` |
| `OperationsProofs` | theorems about the parts of `MCOperations`: accounts and sessions, backup runs, their trigger, the jobs and the audit log |
| `MetricsRecordsProofs` | theorems about the parts of `MCMetricsRecords`: ingest, latencies, the questions of the dashboard |
| `MC...` | instances for TLC: symmetry sets, and parts put side by side |

**How a request is modelled.** A request that reads, decides and writes is two
actions: `...Read` has the guards of the decorators and the handler's early
returns and leaves in `request[w]` what worker `w` carries on (ids, a plan, a
count); `...Commit` writes, guarded by what the database checks. A request that
writes a constant to a row it names by key is one action (`Lock`, `LogoutDevice`).
`Fail`, `Abort`: a request is rolled back at any time before its commit, by a
constraint, an error or the end of its process. `Spec` lets the requests of all
workers interleave at will. `SerialSpec` takes the same actions but starts a
request only when no other is under way; it is what the unit tests of the
repository exercise one call at a time, here over all sequences of calls.
Primary keys come from sequences and are not reused; in the models a key may be
reused once no row has it and no request remembers it, which keeps them finite.

**Metrics.** In `MetricsFlush` a step is one command of Redis, one MULTI
pipeline or one commit; the runs of the flush interleave at each of them with
the web workers and with each other. The lock is a Boolean that anybody may
find gone: `ReleaseLock` is its expiry, and no run gives it back. `SCAN` returns
at least the keys that were there when it began, in any order, possibly one
that came later and possibly one twice. What a run holds between `GETDEL`, or
`LRANGE`, and its commit is in its memory only; `Fail` drops it. The increments of a
counter are numbered, and a count is the set of the increments it is made of: what
the code adds up the model takes together, and what it would count twice is an
increment that is stored twice.

**Membership and contents.** The UTub tables meet in two places: a UTub's
deletion deletes its contents (`UtubContents!DeleteUtub` is the commit of
`UtubMembership!RemoveCommit` as the contents see it), and the lock guards both.
They are separate modules because nothing else connects them: no operation on
contents reads the roster but for its permission check, which a creator always
passes.

**Signing in.** In `SignInMethods` a browser's session holds its user and two
stashes that a logout leaves there: the intent to link a provider and the
identity that collided with an account's e-mail. Creating, linking, unlinking
and erasing are a `Read` and a `Commit`; a callback that only changes the session
is one step. What a provider answers is any subject with any e-mail it may
report. The field `shown` of an intent or a request to link is history: the
account of which the browser has, for that link, given the password or come back
from a provider.

**Accounts.** In `AccountSessions` a login and an admin's button are a `Read`
(the guards of `guards.py` and the service, and the time stamp the login takes)
and a `Commit`; the clock moves at each stamp. The history variable `overlapped`
says that two browsers' requests were ever in flight together. `EmailLinks` is
one account with its two rows of links: every request is one step, time is kept
as the ages of rows and tokens, and ages the code reads with `timedelta.seconds`
start again at `Day`. `LostCommit` is an e-mail of an admin's button that is sent
before a transaction that then fails.

**Gates.** `RequestGates` has a table of every route with its decorator, method
and inputs; a decorator is the sequence of its tests. A request is one step that
computes the answer (the limits of all requests and those of a route are one test,
where the code looks at the route's own after the others); the state is what identifies the caller (cookie, token, the
cached `email_validated`) and the last request with its answer, which `Follow`
continues when it is a redirect.

**Metrics before and after the flush.** `MetricsIngest` ends where `MetricsFlush`
begins: an event that is recorded in Redis. A batch stands for its id, a request
for one attempt to send it; the reservation, each `record` and the answer are
steps of their own, and a worker may die between them. In `LatencyHistory` a
percentile is the set of samples it is computed from, so that two answers can be
compared; in `MetricsQueries` the questions are operators over the rows and the
state is only what there is to ask about. The times of a question come with an offset
there: the code floors the start of a chart in it, PostgreSQL the rows in UTC. The
questions of `LatencyHistory` are in UTC only. In both, the clock does not move between
the reading of now and the SELECT. A `SUM` there is the union of the sets of
occurrences that the rows count, so that "adds up" says more than that two numbers
are equal: each occurrence of the whole is in one part.

**Operations.** In `BackupRuns` a step of the shell pipeline is an action, its
files are `whole`, `mixed` (two runs wrote them) or `torn`, and the order that
pruning sorts them in, by mtime, is kept as the dumps that are newer than each; runs
start at any time because the nightly run takes no lock. `BackupTrigger` is where the lock is: each
command of Redis and each minute is a step, a command may fail with its effect or
without, a poller may die alone or with its pipeline, and the container may stop and
start. Its history says how the last request that is gone ended (`fate`: a run, a
drop because one was in flight, a drop because a lock was left behind, a loss between
`GETDEL` and the run, or its age) and how long ago a lock was orphaned (`mishap`).
`AdminOperations` is one job of cron with its failure flag and messages, and the
admins' requests with the two transactions of work and audit row. A run that cannot
connect to PostgreSQL is a step of its own (`_build_pg_conn_from_env`), as it ends
outside the code that tells of failures.

**Side by side.** Three MC modules run several components that share no state a
step reads in one specification: `part` says which of them moves, the others rest
in one initial state. The behaviours are those of the components; nothing
interleaves across `part`, and no property but the types speaks of two parts. Cron's jobs and the
admins' requests are together where they meet, at the lock of the flush, and the
requests that never meet a job are a part of their own.

**Mutants.** An operator marked `\* mutant` is the definition next to it with a
plausible bug; it is not part of any specification. Each property is listed in
`PROJECT.json` with a mutant that breaks it.

## Runs

| Run | Question | Instance | Result |
|---|---|---|---|
| `refresh_tokens` | Whatever overlaps, are families sound, is closing final, does a suspension lock out? | 3 tokens, 2 users, 2 workers | holds |
| `refresh_tokens_serial` | One at a time, is there one live token per device, and does the code keep the promise of `DeviceSessions`? | 4 tokens, 2 users | holds |
| `utub_membership` | Whatever overlaps, does no membership outlive its UTub, and does the role follow the column? | 1 UTub, 3 users, 2 workers | holds |
| `utub_membership_serial` | One at a time, do the two records of ownership agree, and is the promise of `UtubOwnership` kept? | 2 UTubs, 3 users | holds |
| `utub_contents` | Whatever overlaps, is everything applied there, once, and is a batch atomic? | 2 URLs, 2 tag names, 2 rows each, 2 workers | holds |
| `utub_contents_serial` | One at a time, do the limit, the single application and the promise of `Bookmarks` hold? | 2 URLs, 3 tag names, limit 2 | holds |
| `utub_contents_counts` | Are the counts reported after a deletion right? | 1 URL, 1 tag | violated: one is subtracted twice |
| `metrics_flush` | Is an event stored at most once, and lost only for a cause; do failed runs leave later ones able to drain? | 1 counter, 1 list with cap 2, 2 events, 3 samples, 2 runs, 1 failure | holds |
| `sign_in_methods` | Whatever overlaps, does a link need a proof, does everybody keep a way in, and is an erased account out? | 2 users, 2 e-mails, 2 Google and 1 GitHub subject, 1 browser, 1 mobile client, 1 admin | holds |
| `links_and_gates` | Does a link work once and in time, does the hourly limit hold, is there a way out of the limit of resets? Do web and mobile agree, is what is not one's own hidden by every route that has it in its path, and what does home tell; do redirects end? | 2 tokens, hour 5, day 7, limits 2; every route with every caller and target | holds |
| `operations` | Do good dumps, logs and true reports remain; is a requested backup served; do alerts tell the truth of what connects to PostgreSQL; is every action on record; does an admin remain and a killed session stay dead? | 3 backup runs on one day or 2 over two days, keeping 2, 2 pollers, 2 cron processes, 1 request, 3 users of whom 2 admins, 2 browsers | holds |
| `metrics_records` | Is an event that is sent again counted once, does none vanish; is a sample rolled up before it is pruned; do the dashboard's answers agree? | 3 events, batches of 2, 2 attempts; 2 samples over 10 hours; 2 counts over 5 half hours, asked about in the offsets 0, half an hour and one hour | holds |

What "holds" excepts is in the properties themselves, next to the code that makes
the exception: `NothingLost` has `intact` and `overran`, `MethodRemains` has
`raced`, `AnAdminRemains` has `overlapped`, `BackupsRemain` the runs that share a
name, `CountedOnce` the batches whose id expired, `RequestsAreServed` a
lock's life after a `mishap`, `AlertsTell` a last run that was `unconnected`, `OnRecord`
an answer of Redis that was lost (`unanswered`). Each exception is an event the
model makes happen, and each is smaller than the failure it excuses. Type
invariants are checked where nothing stronger says the same: `TypeOK` in
`refresh_tokens` and `operations`, as a part of `RowsFit` in `utub_contents`; the
others describe the state, and that of `UtubMembership` is proved.

**Bounds.** Two workers are enough for every race between a read and a commit;
a race of three takes two commits inside the window of one request, which two
workers also produce (the second serves both). Three users are an owner, an heir
and one more heir or newcomer; two UTubs are needed only where a request covers
several (erasure). Three tokens are two rotations of one family, or a family and
another one; four give the serial run a rotation in each of two families. With
two URL strings and two rows, URLs collide, move onto each other and are saved
again after a deletion; three tag names exceed the limit of two. The constant
`MAX_URL_TAGS` is 20 in the code and 2 in the runs, the smallest value at which
a batch, a single tag and the tags of a new URL can meet below the limit.
`MaxEvents`, `MaxSamples` and `MaxFailures` bound `metrics_flush`: two events put
one on each side of a `GETDEL`, three samples overflow a cap of two (200 in the
code) and refill a list that is drained, and one failure comes at any step;
two runs are one that hangs and the next.

`sign_in_methods` has one browser whose users change at every logout, which is
what its stashes could mix up; the client and the admin are what its requests
overlap with, and the third subject is one that collides, by its e-mail, with
either account. `links_and_gates` scales minute, hour and day to 1, 5 and 7: what
matters is that they are different, that a wait fits into an hour several times,
and that the day ends soon after the hour, so that a wrapped age can be taken for
a new one. Two tokens are a current link and one it replaced; `DeleteMail` makes
room for the next. `operations` starts three backup runs with two dumps kept, so
that pruning removes one; a run meets fewer than `KEEP` others while it dumps (the
code keeps 90, and a dump does not last 90 days), a bound that `BackupRuns` counts
in `met`. The three share one day, which pruning and names need;
in a part of their own (`nights`) two of them run over two days, whose midnight a
run crosses between the dump and the log: a log concerns the runs of its day alone.
The theorems are about any number of runs and days. `FLAG_TTL` 2 and `LOCK_TTL` 3 keep the order of
15 and 60 minutes and let a poll fall inside each. `MaxTime` 3 is two kills and a
login, in any order, whose stamps are compared. In `metrics_records` the threshold
of a flush (3) is above the size of a batch (2), although it is below it in the
code (50 and 100): it stands for a buffer that grew while a batch was in flight,
the only way to have more than one batch full. `HOURS`, `BACKFILL`, `RETENTION` and
`ROLLUPS` (2, 2, 3, 4) keep the order of 24 hours, 3, 35 and 730 days, and
`MaxHour` 10 lets a sample outlive all of them. `DAY` 4 is two hours of two half
hours, so that windows cut hours and days; the offsets (`Zones`) are a multiple of the
hour and of the day, of the hour alone, and of neither.

Deadlock is not checked in the runs of tokens, membership and contents, where with
every token issued and revoked, or every UTub gone and every user erased, the
finite instances have nothing left to do, nor in `operations` and
`metrics_records`, where runs, events and the clock are bounded: neither is an
error of the code. `metrics_flush` checks it, as cron never stops;
`sign_in_methods`, as a browser can always log out; and `links_and_gates`, as time
passes and a browser can always ask.

**Fairness.** None is assumed for requests whose properties are safety
properties; no code in those components waits for anything.

- `MetricsFlush` assumes that cron starts a run again and again (`* * * * *` in
  `docker/crontab.workflow:50`), that a run goes on until it ends or fails (its
  steps are bounded calls, and the number of failures is bounded), and that Redis
  expires the lock. It assumes neither that web workers record nor that keys
  expire: what `EventuallyDrained` shows is the work of the flush alone.
- `WayOut` assumes that time passes and that the owner of the account opens the
  reset link that is in the mailbox; that is what the e-mail is for, and without
  it no code could help. It does not assume that any e-mail arrives.
- `RedirectsEnd` assumes that a browser follows a redirect.

**Known limits of the code that the runs or the models show**, besides the
violated run.

*UTubs.* The limit of tags and the single application of a tag are decided at the
read, so `WithinTagLimit` holds in `SerialSpec` and not in `Spec`; the lock, too, is
read only at the start of a request. A worker that stops between the two
transactions of `create_new_utub` (`FailToEnrol`) leaves a UTub without members. A
transfer of ownership that overlaps the heir's departure leaves a UTub whose owner
is no member (`admin/moderation_service.py:252`); `CreatorIsMember` is therefore of
`SerialSpec`. A creator can add an erased account by its tombstone name, and no
second erasure removes it. A URL is committed to the catalogue, and a tag to the
vocabulary, before its use: a request that fails later leaves the row. The tags
reported as changed by a deletion are read before its commit.

*Tokens and sessions.* Two overlapping refreshes of one token both insert a
replacement (`api_v1/services/tokens.py:125`), so `OneLiveTokenPerFamily` is of
`SerialSpec`. No sign-in asks whether an account was erased: an erasure bars it only
by taking its credentials, and one that a link or a reset under way gives back lets
it in again, for a second erasure is a no-op. `LockedOutUntilUnsuspended` starts
once no such request is left. `guards.py:45` counts erased admins as active; two overlapping admins
can suspend each other. Links from e-mails and registering again do not look at
`is_suspended`. After an address was validated in another browser the cached
`email_validated` makes splash and home redirect to each other until `/logout`.

*Links.* The counter of resets never goes down with time once it is full: only
opening the link, or an admin, resets it (`WayOut`). E-mails that fail are counted.
Ages are taken modulo a day. An admin's buttons send before they commit. Any answer
below 500 of the e-mail service passes for success. An unreadable validation link
deletes the account, opening a used one is a 500.

*Signing in.* Two unlinkings of an account without a password, one by its user and
one by an admin, both see the other's identity and leave it without a way in; a link
that overlaps an erasure is added to the erased account. `MethodRemains` and
`ErasedStaysOut` except such accounts (`raced`) and show that nothing else does this.

*Gates.* `/home?UTubID` answers 404 for a UTub that does not exist and a redirect
for another's, where the docstring (`utubs/routes.py:69-70`) has both rerouted: `HidesTheRest` says that no other route
tells the two apart, and that home does nothing else (`home_page.py:78`); a
request with a cookie and a bearer token is the cookie's, which the mobile surface
refuses.

*Metrics.* A batch is reserved before it is checked, so that the second attempt of
one that was refused, or whose worker died, is answered as if it were recorded; a
second attempt after the reservation expired is counted again; one bad event refuses
its batch. The beacon is skipped while a batch is in flight and takes one batch. A
flush that fails between `GETDEL` and its commit loses what it drained
(`flush_metrics.py:13-16` speaks of a risk of counting twice instead, which
`StoredAtMostOnce` excludes), and one that outlives its lock stores samples twice
(`flush_metrics.py:450`). An answer from the rollup takes its whole first day, leaves
out its last and ignores the device; without a method its chart keeps the row of one
method per day (`query_service.py:1292-1305`), which `ChartShowsSummary` excludes. The
times of a question may have any offset (`schemas/requests/metrics.py:222-227` names
`+05:00`): a chart of one event in one that is no multiple of its resolution, as by day
in `+05:00`, is all zeros beside totals that are not, because its buckets are floored in
that offset (`query_service.py:429`) and never equal those of the rows. The docstring
(`query_service.py:352-354`) and the comment on the first bucket (`:420-427`) have them
align; `ChartsAddUp` states what happens. A
sample that is stored more than the backfill's days late is never rolled up. The
total of the API's category includes requests without a route. The steps of a funnel
are read one after the other; its percentages are clamped.

*Operations.* A second run of a day truncates the log archive of the first; the
nightly run and the poller can share a file name. A request that is taken while a
triggered backup is in flight is dropped; the lock is released by whoever ends, owner
or not. A poller that dies, or whose container stops, leaves its lock behind: until the
rest of its hour is over every request is taken and dropped, with a log that one is in
flight, so that `run_backup_if_requested.py:68-69` ("can never wedge future triggers")
holds of the triggers after it (`OrphanExpires`). A request is lost if its poller dies,
or Redis fails, between its `GETDEL` and its run. Outside production the exit code is 0 even if the dump failed. An admin's
flush that holds the lock makes cron's next run look like a recovery; the failure
flag is set before its message is sent, so that a lost message is not repeated;
outages of Redis itself are never told, and none of PostgreSQL, to which both jobs
connect before the function that tells of failures (`flush_metrics.py:745-748`,
`sample_gauges.py:308-315`); the liveness probe of the flush, which is not modelled,
is what can notice. If the answer to the flag of a backup is lost, it is requested
without an audit row (`ops_service.py:331-337`). A failed audit row does not stop the work it
is about.

## Proofs

Each module of proofs holds for any values of the constants that meet the
assumptions named.

`RefreshTokensProofs`, from `Null` being no token and no user:

- `IInv` = the types, `FamilySound`, and `Carried` (what a worker carries names
  an issued row). It is inductive for `Spec`; without `Carried`, a rotation could
  insert into the family of a row that is not there. From it: `TypeCorrect`,
  `FamiliesSound`, `ClosedFamily`, and `LockedOutUsers`, which takes nothing from an
  erasure but what it does to the credentials (`keyless`): a sign-in asks for one, and
  whether the account is suspended.
- `SInv` adds, for `SerialSpec`, that one worker at most carries something
  (`Lone`), that no family has two rows that are not rotated (`OneUnspent`), that
  a revocation takes whole families (`WholeFamilyRevoked`) and that what a worker
  read is still true (`CarriedStillTrue`). `OneLiveTokenPerFamily` alone is not
  inductive: the revocation of one row of two would break nothing now and let
  a rotation break it later. From it: `SerialOneLiveToken`,
  `SerialSuspendedHasNoLiveToken`, and `SerialKeepsPromise`: each action maps to
  an action of `DeviceSessions` or to a stutter.

`UtubMembershipProofs`, from `Null` being no key and users being numbers (the heir
is the smallest, and every set of numbers has one: a well-founded induction):

- `IInv` = the types, `NoStrayMembership`, and `Founding` (a UTub between the two
  transactions of its creation has no members and belongs to the one who creates
  it, and of the other requests only deletions concern it). Without `Founding` the
  second transaction could make somebody the creator of another's UTub. From it: `TypeCorrect`, above all that an heir is always a user, `NoMembershipStrays`
  and `RoleComesWithOwnership`.
- `SInv` adds, for `SerialSpec`, `Lone`, `CreatorIsMember`, that each UTub has an
  owner (`Owned`), and `CarriedStillTrue`: what a removal or an erasure decided for
  each UTub at its read is right at its commit (`Right`). Without it the commit could
  hand a UTub to a user who has left: exactly the step that breaks `CreatorIsMember`
  in `Spec`. From it: `OwnershipAgrees`, and
  `SerialKeepsPromise`: every step is one of `UtubOwnership` or a stutter.

`UtubContentsProofs`, from `MAX_URL_TAGS` being a number, `Null` being no URL and no
name, and the names being finitely many (strings of bounded length):

- `IInv` = `RowsFit` (types, `AppliedExists`, `EachOnce`), `Catalogued` (the URL a
  request is about to save is in the catalogue) and that the applied rows are
  finitely many, without which the counts a deletion reports, and the types with
  them, would not be numbers. From it: `RowsAlwaysFit`, and
  `BatchesAreAtomic`.
- `SInv` adds, for `SerialSpec`, `Lone`, `WithinTagLimit`, and `CarriedStillTrue`:
  the room for tags a request found is still there. From it `SerialWithinLimit`,
  by counting: a batch adds at most one row per net new name, since a name is in
  the vocabulary once. And `SerialKeepsPromise`: as a URL is saved once (`EachOnce`), its
  names are those on its only row, and every step changes them as one of `Bookmarks`
  does, or not at all.

`SignInMethodsProofs`, from the assumptions of `SignInMethods` (a subject has one
provider, `None` is no value, the admin is no browser and no client), about `Spec`:
`IInv` = the types, `MethodRemains`, `SoundIntent` (an intent to link was shown by the
account it is for), `Gone` (an account that is not there has no password, no identity
and no browser), and of each request under way `Sound`: about an account no two
requests ever shared, what it read is still so at its commit. Without `Sound` an
unlinking could take the last row, and a link could be committed to an erased account.
From it: `TypeCorrect`, `MethodsRemain`, `ErasedStayOut`, `LinksAreProven`.

`LinksAndGatesProofs` is about the two parts of `MCLinksAndGates`.

*The links*, from `WaitsAssumption` (positive waits and limits, Minute < Hour <
Day, `None` no token and no number), about `EmailSpec`, the steps of the part
`emails` of `MCLinksAndGates`: `IInv` = the types, `LinksWorkOnce`, `RowsAlive` (the
token of a row is not among those replaced or used) and `Counting`: the attempts in a
row are at least as many as the e-mails asked for within an hour, and its last one is
the youngest of them. The second half is what the modulo turns on: when the age of the
last attempt starts again at 0, no e-mail of the last hour is left. From it:
`LinksOnce`, `MailsLimited`.

*The gates*, from no assumption, about `GatesSpec`, the steps of the part `gates`. The
argument has three layers.

- A decorator is a sequence of tests, and the first that fails answers. `InTurn` says
  what one sequence after another lets through and which of the two refuses (that a
  first failure exists is a well-founded induction); `AlikeInTurn`, `RefusedBefore` and
  `RefusedAfter` carry "refused alike" from sequences to those built of them.
- `GateBuilt`: the decorators of both surfaces are the same tests on top of who asks
  (`Base`). `WebTable` and `ApiTable` go through all routes once, and `TwinRows` pairs
  them: an operation of both surfaces has, on the second, the decorator that is built
  as its own is. A route added with the wrong decorator breaks this lemma.
- `GatesInv` relates a state to the answer that was given before it: the session's key
  is "yes" for a validated address only, and whoever passed an e-mail gate would get
  the same answer in the session which that answer left behind (`CacheAnswersAlike`).
  Without the first half the web would let through what the same account's phone is
  refused, and `MirrorsAgree` would not follow.

From it: `RestHidden`, `MirrorsAlike`. Home has no decorator that looks at the UTub: that
all its tests answer a stranger's UTub and a missing one alike, and only its handler does
not, is `HomeTells`. The lemmas under them (`Hidden`, `TwinsAgree`) are
wider than the run: they are about every session and every combination of the fields of
a request (`Request`), which the run narrows to those worth telling apart.

`OperationsProofs` is about the parts of `MCOperations`, each a specification of its
own (`SessionsSpec`, `TriggerSpec`, `AdminSpec`, `BackupSpec`), and, for `TypesHold`,
about all of them: `Spec` implies each part's specification.

*Accounts and sessions*, from admins being users, `NoUser` being none and `MaxTime` a
number:

- `SessionsInv` = the types, no stamp of the future (`StampsPast`), sessions and logins of
  accounts that are there (`OfAccounts`), and `SuspendedSince`: the kill switch of a
  suspended account is newer than the look that any login of it took at the
  suspension. From it `KilledStaysDead`: each step's effect on one session is
  followed through, and only an unsuspend makes a refused one resolve.
- `Calm` adds, until two requests overlap: a request under way is the only one, an
  admin can use the portal, the sessions of erased accounts are refused, a login
  under way is of a live account, and whoever suspends or erases leaves another
  admin behind. The refused sessions are what it turns on: an erased admin who
  could still press a button would be the "other" admin. From it, and one admin to
  begin with, `AdminsRemain`.

*The requested backup*, from the lives of flag and lock being positive numbers:
`TriggerInv` = the types, `LockHeld` (until a lock was outlived, one process holds it
and it is there), `LockKept` (a lock that no living poller will release is no younger
than the mishap that left it) and `FreshAfterPoll` (a request that this minute's poll
has seen to has all its time ahead). `LockHeld` speaks of pipelines whose poller is dead
too; `LockKept` must not, as nobody releases their lock. From it, if the flag outlives a
minute, `RequestsServed`.

*The jobs and the audit log*, from no assumption: `OpsInv` = the types and, as long as
nothing of the kind that each conjunct names has happened (`muddled`), that one run of
the job is under way at most (`OneAtATime`), what the flag and the last message say of
each other at each line of `notify.py` (`FlagIsTold`), what the flag says of the last
work (`FlagIsTrue`), and that whoever clears the flag saw the job succeed
(`ClearedAfterSuccess`); and of each request how far its work and its row have come
(`Recorded`). `FlagIsTold` is needed because the flag moves before the message: in
between the two disagree, and only a run that is about to send may be there. A run that
does not connect changes neither, so that only how the last run ended must except it.
From it: `AlertsTrue`, `RecoveriesTrue`, `EffectsOnRecord`.

*Backup runs*, from `KEEP` above 1 (below that the bound on overlaps leaves no room
for any), at least one day and finitely many runs: `BackupInv` = the
types, with the order of the dumps, and

- what is on disk under a name that is one run's own, at each of its steps (`Names`,
  `Files`);
- `Met` and `NewerAreMet`: runs that dump at one time have met, a run meets fewer than
  `KEEP` others while it dumps, and a dump newer than one that is being verified is of
  a run it has met. That is why pruning cannot reach a dump between its `gzip` and its
  verification, nor the newest whole one: fewer than `KEEP` are newer. The count of
  what is met is the model's bound (90 in the code), and the proof is where it is used;
- `HasDump` (once a dump passed its verification a whole one is there), `Logs`,
  `Turns` (a run past a day's log has been counted, and two of them twice) and
  `Copies` (what a run believes to have archived and copied is there).

From it `GoodBackupsRemain`. `SentinelHasDump` alone is not inductive: a whole dump must
be shown to survive each pruning.

`MetricsFlushProofs`, from the cap being positive and the bounds numbers, about `Spec`:
`IInv` = the shape of the variables and

- whatever overlaps, `HoldsInTime` (a run has rows until it has committed them, and
  samples until it ends) and `CountedOnePlace`: an increment is in Redis, in the memory
  of one run or stored, in one of them, and only if it was made;
- until a lock is outlived, `OneActive` and `SampleOnePlace`: a sample is in one list, or
  under one `:draining` key, or in a run's memory, or stored; the one place it may be in
  twice is the key that a run has read and is about to delete. A second run would rename
  onto that key, or read it once more: this is where the lock is needed;
- while nothing failed, expired or was trimmed, `AllCounted` and `AllSomewhere`, and
  `InHand`: what is under a `:draining` key is in the hands of a run.

The first part does not need the lock, as `GETDEL` gives an increment to one run only.
From it: `EventsStoredOnce`, `NothingIsLost`.

`MetricsRecordsProofs` is about the parts of `MCMetricsRecords`, as the theorems about
`IngestSpec` and `LatencySpec` and, through the lemma that `Spec` implies each part's
specification (`PartsOf`), about `Spec`.

*The events of a page*, from the bounds being positive and the events refused being
events: `IngestInv` = the types, the two properties, and where an event can be. Batches
share no events (`Apart`); the events of a batch whose id was reserved are counted,
stopped or in the request that reserved it (`ReservedSettled`); a batch that can still
be lost on its way is held by the page (`HeldBack`); and of a batch whose id was kept
one request records (`RecordedByOne`). Without the last, a second copy of a batch could
be recorded beside the first. From it: `EventsCountedOnce`, `NoEventVanishes`.

*The latencies*, from positive periods (`LatencyAssumption`) and from `PolicyAssumption`:
samples come late by no more than a rollup makes up for, and are kept for longer than
that (3 and 35 days in the code; a later sample is the known limit below the runs).
`LatencyInv` = the types, `PrunedIsOld` (what is pruned is older than any window that is
answered from the samples) and `UnrolledIsYoung`: a sample in no row of the rollup is
still there, and its day was not over, or its lateness not, when a rollup was last
committed. From it: `OldStaysRolledUp` and, with lemmas about days and buckets (whole
division by any period), `LatenciesAnswered`.

*The questions about counters*, from a day of whole hours and `None` being no time and
no name: the types, which say that no occurrence is counted by two rows, are inductive;
the rest is about the answers in one state. `SplitIs` is what each of them comes down
to: if the rows of a window fall into parts that share none, the totals of the parts
split the total. From it, one lemma for the tops and their resources, one for the charts
with their first bucket before the window (floors in an offset that is a multiple of the
resolution are those in UTC, `Aligned`; in any other no bucket of the chart is one of the
rows', `Unaligned`), one for the two windows, one for the funnel;
and from these `CountersAnswered`.

What is only model-checked: liveness (`EventuallyDrained`, `WayOut`, `RedirectsEnd`),
which is out of the prover's reach. Two modules were written so that they can be reasoned about
without induction over data: a count is a set of occurrences where the code adds
numbers, and the order of dumps is a relation where the code sorts a list.

## Not modelled

Titles, names, descriptions, e-mail addresses and all formatting; the HTTP layer
below the decorators (schemas, CSRF tokens, rate limits, error bodies); the
normalisation and validation of URLs (a model's URL is already normalised); the role
`CO_CREATOR`, which no code path assigns; the access JWT, which has no state on the
server; read-only services; the monthly copy and the restore of backups; the
definitions of events, dimensions and gauges (`metrics/event_registry.py`), which are
data; the command line, mock data, OpenAPI generation and migrations, which are
tools; and the front end's decks and pages, which show one UTub to one user. A part
listed as `partly` in `PROJECT.json` has a note of what is left out.

## Plan

Done: tokens, membership and contents, each with the promise it implements; metrics
from the page to the dashboard; sign-in methods; links in e-mails; accounts and
sessions; gates; backups and operations; and theorems: every safety property and every promise
that a run checks is proved for all values of the constants.

Open: `DeckStore`, the front end's selected UTub and late answers.
