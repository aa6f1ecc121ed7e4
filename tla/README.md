# Verification of the YouPass share service

TLA+ models of the service in `src/` (Go, PostgreSQL, Redis), the TLC runs that
check them on small instances, and theorems about them that TLAPS checks for
every value of the constants. `PROJECT.json` lists the components, the runs, the
mutants of each property, the source lines of each definition, the findings, the
hazards and the theorems.

## The system

A student shares a submission by a short link. The service has several
processes ("instances") behind a load balancer. They share one PostgreSQL, which
is the source of truth, and one Redis, which holds caches, view counters and rate
limits.

| Part | State | Operations | What makes it correct |
|---|---|---|---|
| View counter (`redisstore/view_counter.go`, `AddViews`, `main.go`) | per instance: a channel of 10 000 events, workers, a flusher; Redis: `share:{id}:views`, `share:{id}:seen:*`, `share:dirty`; `view_count` | `Track`, worker loop, `record`, `flush`, `restore`, graceful stop | a view is written at most once; a counted view is not lost; every counter is found by a flush; a stop drains the channel and ends |
| Opening a link (`share/resolve.go`, `redisstore/link_cache.go`, `share/manage.go`) | `share:link:<code>` or `-`; a singleflight call per instance and code; timers of second DELs | `Resolve`, `getLink`, `SetStatus`, `Delete` | a changed link is not served as it was beyond a bound; a client that leaves harms no one; requests end |
| Creating a link (`share/create.go`, `pgstore/link_repository.go`, `001_init.sql`) | `share_links` with two unique indexes | `Create`, `SoftDelete` | one live link for each submission; a code belongs to one submission for ever; only the author shares |
| Snapshot cache, submissions (`redisstore/content_cache.go`, `usecase/submission`) | `submission:snapshot:*`; `submissions` | `Snapshot`, `Invalidate`, `Delete` | a deleted submission is not served beyond the TTL |
| Link and viewer rules (`domain`) | none | `Accessible`, `CountsViewFrom`, `ValidCode`, `NewCode` | pure functions |
| Statistics (`manage.go`, `Pending`) | none of its own | `Stats` | a view that moves from Redis to the row between the two reads is not counted twice |
| Rate limiter (`redisstore/rate_limiter.go`) | `rl:<key>:<bucket>` | `Allow` | at most `limit` requests in a window; fails open |
| Start-up (`datastore/postgres.go`, `redis.go`) | `schema_migrations`, an advisory lock | `Migrate`, `retry` | each migration is applied once |
| HTTP delivery (`httpapi`), tokens | none of its own; the browser's cookie | handlers, `OptionalAuth`, `statusOf` | the status says what is the case; parallel visits of a browser do not become visitors of their own |
| In-memory doubles (`memstore`) | maps under a mutex | the ports, for tests | answers as the database does, but for whom it takes for an author |
| Logging, metrics, configuration | none | | stateless |

How they interact: `Resolve` calls the link cache, then (on a miss, one flight
for each instance) the repository, then the snapshot reader, and hands the view
to `Track`, which never blocks. `SetStatus` and `Delete` commit to PostgreSQL and
then delete the cached link, now and once more after 500 ms. Workers and flushers
of all instances meet in the Redis counters and in `share:dirty`; the flusher
writes to `share_links` through `ViewStore`. `main.run` stops the HTTP server
first and the counter's context after it.

What is hard in it: the view counter moves views between three stores by
commands that can fail, lose their reply or be cut off, with a crash or a stop
between any two; several flushers and restores meet on one counter; a cache fill
races a change and its two DELs; concurrent creates meet in unique indexes; a
visit checks its link and then waits for its page, while both change; and
windows of the limiter follow clocks that differ, over a client library that
sends a pipeline again when its reply is lost.
`PROJECT.json` lists these hazards at their lines.

## Modules

| Module | What it is |
|---|---|
| `ViewLedger` | abstract: a view is counted, and a counted view is persisted at most once |
| `ViewCounter` | the view counter of all instances, Redis and the written views |
| `ViewCounterProofs` | theorems about `ViewCounter` |
| `LinkCache` | opening a link against changing it, for one code, in discrete time |
| `LinkCacheProofs` | theorems about `LinkCache` |
| `ViewStats`, `ViewStatsProofs` | `Stats` and its two reads, over the whole of `ViewCounter`; what a stop leaves in a channel; theorems |
| `LinkReader` | abstract: what `getLink` promises, in one step; `LinkCache` implements it |
| `PageContent` | abstract: what the `ContentReader` promises, in one step; `SnapshotCache` implements it |
| `Resolve`, `ResolveProofs` | visits of a browser from route to status, on the steps of `LinkReader` and `PageContent`; theorems |
| `RateLimiter`, `RateLimiterProofs` | the rate limiter and its middleware; theorems |
| `SnapshotCache` | showing a submission against deleting it, in discrete time |
| `SnapshotCacheProofs` | theorems about `SnapshotCache` |
| `LinkRegistry` | abstract: creating a link is one step |
| `ShareCreate` | `Create` statement by statement, the two indexes, and deletes |
| `StoreTwin` | the tests' double of the database, in lockstep with `ShareCreate` |
| `ShareCreateProofs` | theorems about `ShareCreate` and `StoreTwin` |
| `SchemaHistory` | abstract: each migration is applied once, in order, together with its row |
| `Startup` | how replicas start: the retries and every statement of `Migrate` |
| `StartupProofs` | theorems about `Startup` |
| `MCViewCounter`, `MCViewStats`, `MCLinkCache`, `MCSnapshotCache`, `MCResolve`, `MCShareCreate`, `MCStartup` | values of the constants for TLC |

An operator whose name has a suffix and the comment `mutant`
(`Reset_Kept` before `Reset`) is a plausible bug in the operator after it. No
specification uses it; it is there to show that a property fails when the code
has that bug.

### ViewCounter

Redis is `inRedis`, `dirty` and `seen`; the database is `written`. A Redis
counter is modelled as the set of the views it counts, and `written[v]` is how
often view `v` was added to `view_count`: so a property can tell a lost view from
a view counted twice, which the sum of two integers hides. An instance has its
channel `events`, its life `phase`, and its flusher's program counter `fpc` with
the local variables of `flush` (`todo`, `mark`, `deltas`, `more`).

Each Redis command or SQL statement is a step of its own (`Script`, `MarkDirty`,
`Pop`, `GetDel` for each command of the pipeline, `ReAdd`, `WriteOk`,
`RestoreIncr` and `RestoreMark` for each command of the restoring pipeline), with
the error that the code sees next to it (`ScriptErr`, `PopErr`, `GetDelErr`,
`WriteErr`, `RestoreErr`). `Faults` says which errors an instance of the model
has: commands not executed, commands executed whose reply is lost, a refused
`AddViews`, an `AddViews` that commits and reports an error, a crash at any point,
a final flush cut off after 5 s, handlers that outlive `Shutdown`.

Contexts matter here. `ctx[i]` is the context of the flush in progress: live,
done, or `inflight`, which is cancelled while a command is under way. A command
on a context that is done is not sent; one under way may take effect although
its caller sees an error (`WriteAborted`).

### ViewStats

Extends `ViewCounter` with a request for the statistics between its two reads:
`ReadFirst` takes `view_count` from the row, `ReadSecond` the counter in Redis,
and every step of workers, flushers and restores may come between. What a read
finds is a number for each view, so that the answer shows which view it counts
twice. A view that a flush holds when Redis is read is in neither of the two: the
total is then behind, which the code accepts, and never ahead.

It also notes which views were queued when the instance was no longer serving
(`late`): a handler that outlives the deadline of `Shutdown` does that, and
`LeftIsLate` says that nothing else is left in the channel when the final flush
starts.

### LinkCache

All operations on a link concern one code, so one code is modelled: its row as a
version number with the kind the version has, its key in Redis with the version
and expiry, the singleflight call of each instance, and the second DELs that are
due. A reader goes `get`, `sf`, `wait`, `done`; a flight `find`, `set`.

An owner's request is `SetStatus` or `Delete`: `Change`, the UPDATE that is
answered, and then `Invalidate`; or `ChangeFails`, any error of the UPDATE, which
ends the request before `invalidate` (`manage.go:14-17`, `24-26`). The statement
runs on the context of the request, so when the client leaves (`cancel`) or the
reply is lost (`dbReplyLost`) the row may have changed although the owner hears of
an error; neither DEL is ever sent then, and the old link stays for its TTL. The
history variable `silent` notes these versions. The bounds `StaleBound` and
`ServedWithinLimit` hold for them as for all others. `DoubleDeleteCleans` is about
what the second DEL is for, a fill that races an invalidation: it speaks of a link
that was superseded by a change that went through (`Announced`), though the row
may have changed silently before and after it.

Time is a counter, so that the properties can speak of TTLs and deadlines.
`Tick` does not pass a flight beyond its deadline (its context is done), nor a
Redis command beyond `CmdTime` after it (the client's timeouts). Assumed of
Redis: a command runs within `CmdTime` of being sent or never; so a `SET` whose
caller has given up does not land later still.

`LinkReader` is the caller's view of it: one answer, a version of the row that
was superseded no longer ago than `LinkAge` (`MissAge` when it is "no such
code"), or an error. `ReaderSpec` is the refinement, where `Got` is what a reader
that is done was answered. Everything that is above `getLink` is checked on
these two numbers, and not on caches and flights once more.

### SnapshotCache

One submission with one version, which is visible until its author deletes it or
the account is locked. The readers' side is that of `LinkCache` without a second
level; the author's is the `UPDATE` and then the DEL, whose error is the answer.
`TryAgain` is the author repeating the request: the row is gone, so the answer is
404 and the DEL is not repeated. `LockAccount` is another service's write to
`users.status`; no code calls `Invalidate` for it, though the comment of
`Invalidate` names it. A client that leaves is `redisErr`: its context is that of
the GET and of the DEL. The same is assumed of Redis as in `LinkCache`.

`PageContent` is the caller's view of it: the page while the submission is
visible, or was no longer than `PageAge` ago; that it is gone, when it is; or an
error. `ContentSpec` is the refinement.

### Resolve

The visits of one browser to one link. A visit is `new`; `Visit` is the request
with the cookie the browser has at that time, `OptionalAuth` and `viewerFrom`;
then it is refused by the limiter (`Limited`) or asks for the link (`GetLink`:
`getLink` and `Accessible`), then for the page (`Snapshot`), and has a status;
`Receive` is the response, in any order of the visits, with the new cookie. The
owner changes the link meanwhile, its submission is hidden, and time passes:
between the check of the link and the answer, `PageTime` at most.

What `getLink` and `Snapshot` answer is `Links!MayServe` and `Pages!Answers`: the
module is composed with the two abstract specifications, which `LinkCache` and
`SnapshotCache` implement. So its properties are about the service end to end:
`AnswersInTime` adds the two ages and the time of `Snapshot` for a page that is
shown (`PageInTime`), and says what a 404 and a 410 mean (`RefusalInTime`). A
visitor id is the number of the visit whose response set it.

`KeysFromFirstVisits` is about first visits that overlap. Each of them is given an
id, under which its view is counted, and an answer that comes later overwrites
the one before: so an overwritten id is in the statistics though no visit comes
with it any more. What the property says is that this ends: with all first visits
answered, every later view of a guest is under one id. The history variable `open`
holds the first visits that had no answer when a visit was sent, and two visits
with cookies have two ids only if the later one's is of such a visit.

Two things of the code that the model shows and no property objects to: an owner
whose token has expired is a guest and is counted; and a browser that takes no
cookies is given a new id, and counted, at each visit of the HTML page.

### RateLimiter

The requests of one client, in the order in which they come. `Ask` computes the
window by the clock of the instance, up to `MaxAhead` ahead of time; `Incr` and
`Expire` are the two commands of the pipeline, which no transaction holds
together. `Pass` drops keys whose time has come. Every send runs within `Delay` of
the computing of the window or never, and both of its commands in one unit of
time.

`redis.go:12-20` leaves `MaxRetries` at the library's default of 3, so go-redis sends
a pipeline again when its reply does not come: a send is a pair of a request and
a try. `NoReply` is the reply that does not come, before INCR, between the two
commands or after them; then `Resend` sends the same pipeline for the same key
once more, or, with the retries used up or the client gone, `Break` is the error
with which the middleware lets the request on. A send that was given up before it
ran is `astray`: it may still run (`Stray`), beside the one that replaced it. So
one request may be counted up to `MaxRetries` + 1 times, and is judged by the rank
of its last send.

`LimitHeld`: the comment says a fixed window, and its bound is twice the limit in
the length of a window when clocks and delays agree. With clocks that differ a
third window can take part, as long as the spread is within a window; a key that
expired early would be counted from nothing, and that every INCR renews the TTL
by a whole window is why it does not. `RefusedJustly` is the other side: who is
refused had the limit used up by the client's other requests together with the
sends whose reply was lost, its own among them. With no lost reply that is `Limit`
other requests; with one, a client may be refused at its first request, which is
what the retries of the library cost. Both properties speak of requests that were
answered: what passes while Redis fails is not limited.

### StoreTwin

The double of `LinkRepository` and of `IsOwner` (`memstore.go`) beside the tables
of `ShareCreate`: each insert, delete and hiding goes to both. `TwinAgrees` says
that every query about links would be answered alike by both, and says of the
check of the author where it is not. `memstore.go:212-216` looks at the id alone and
takes user 0 for the author of an id it does not know; the statement of
`submission_repository.go:26-34` filters on the type. A resource is a type and an
id (`IdOf`, with `OwnerOf` `None` where no submission has that type and id), so
that a `Create` with the wrong type is one of the requests: the double says yes to
everyone the database says yes to, and beyond that to the author under another
type and to user 0 for an id of no submission, and to no one else. So a test with
the double cannot show that a wrong type is refused.

It is about the calls that `Create` makes: `UpdateStatus`, `AddViews` and the doubles
of caches, tracker and limiter are not in it.

### ShareCreate

A request is at `owner`, `find`, `insert`, `refind` or `done`: between any two
statements other requests run, and links and submissions are deleted. A row is
`resOf[c]`, `ownerOf[c]` and `c \in live`; rows are never removed. `Insert` meets
`uq_share_links_code` before `uq_share_links_active_resource`, the order of
their creation. `NewCode` may return any code, which makes the duplicates that
62^8 codes make rare frequent. When the winner's link is deleted before the
loser reads it, the loser gets 404 (`failure` is `"notFound"`) although
`create.go:47` promises it the winner's link; nothing is left behind, and the
next request makes a link. `FailsForAReason` says that no one else gets that
answer (which index was violated is known by its name, `AlreadyShared`), and that
no one gives up before `maxCodeRetry` attempts met a code that was taken.

### Startup

A replica goes from `postgres` (the retry of `ConnectPostgres`) through `lock`,
`table`, `check`, `body`, `mark`, `commit` and `unlock` of `Migrate` to `redis`
(the retry of `ConnectRedis`) and `serving`, or returns an error and is `down`. A
binary knows the first `FilesOf[r]` migrations: files are added to the
repository at the end of the order, and an old binary has fewer of them.

What is hard here is a client that is gone: PostgreSQL keeps its session, with
the advisory lock (`lock = Ghost`) and perhaps a COMMIT it sent (`left`), until it
notices (`EndSession`), and so does a connection whose unlock failed, since
`Migrate` ignores that error. `Mark` meets the primary key of
`schema_migrations`, and waits for a transaction that inserts the same version.

## Runs

Parts that have no state in common share a run where its instance has room: the
rate limiter with the start-up (`MCStartup`), the visits with the snapshot cache
(`MCResolve`). A behaviour begins with a step of the one or of the other, and the
other one stands still. Each of the two is checked in full; only their
interleavings, which mean nothing, are left out. The theorems are about the
modules by themselves.

All runs end in three minutes or less. `CHECK_DEADLOCK FALSE` is set throughout:
views, requests, versions, faults and time are bounded, and when they are used up the
model stops, as the service does when no one calls it. `Views`, `MaxWrites`
(how often a view may be written before a commit of it is no longer taken for a failure), `MaxVersion`,
`MaxTime`, `MaxClock`, `MaxRow`, `MaxVisits`, `MaxRequests`, `MaxLost` (replies the limiter
does not get), `MaxFaults` and `Requests` are the bounds; the other constants are parameters of
the code.

| Run | Asks | Bounds and faults |
|---|---|---|
| `views_steady` | `NoViewLost`: a counted view is in Redis, with a flush or written; `NotStranded`: a counter with views is dirty or about to be marked; `EventuallyPersisted` | 2 instances with a worker each, 3 views (two of one link, one of another), `FlushBatch` 1 so that a flush goes round; any batch may be refused |
| `views_faults` | `TypeOK`; `NoDoubleCount`; `LedgerSpec`; `ViewsAccounted`: a view leaves the hands of the counter by one addition to `view_count` or where the code gives up, and never comes back | 3 views, two of them by one visitor of one link, so that the second is deduplicated; a channel of 1; every fault but a commit of unknown outcome; one instance may be stopped, both may crash and start again |
| `views_stop` | `LeftIsLate`, `EventuallyStopped`, `StatsNotAhead`, `ViewsAccounted` | one instance, two workers, a channel of 2, 2 views of one visitor of one link; `FlushBatch` 1; Redis and database errors, lost replies of both (a batch whose commit was taken for a failure is put back and written again, once for each view: `MaxWrites` 1), a final flush cut off, handlers that outlive `Shutdown`; requests for statistics throughout |
| `cache_faults` | `TypeOK`, `StaleBound`, `ServedWithinLimit`, `ReaderSpec` | 2 instances, a reader at each, an owner; 2 versions, time to 4, TTLs and deadlines of 1 or 2; Redis and database errors, crashes |
| `cache_flights` | `DoubleDeleteCleans` when fills end before the second DEL; `NoSpillover`, `RequestEnds` | 2 readers that share a flight and an owner elsewhere; 2 versions; TTL 3, second DEL after 2, deadline 1; clients that leave, and changes that commit with an error |
| `create_safe` | `TypeOK`, the registry's invariants, `FailsForAReason`, `TwinAgrees`, `CodeNeverReassigned`, `RegistrySpec`, `RequestAnswered` | 5 requests (two of one submission, one of another, one by a stranger, one by the author with the wrong type), an id of no submission, user 0, 2 codes, 2 attempts: fewer codes than the requests ask for, so that duplicates and `maxCodeRetry` are reached; database errors and lost replies of the insert |
| `start_deploy` | `TypeOK`, `NeverDuplicate`, `ServesOnSchema`, `HistorySpec`, `EventuallyServing` | two new replicas with 2 migrations, an old one with 1; 2 attempts; at most 3 faults (`MaxFaults`), of any kind and at any statement. `LimitHeld`, `RefusedJustly`: 4 requests, a limit of 1 in windows of 2, clocks 1 apart and sends 1 late, time to 2; one reply may be lost (`MaxLost` 1), whereupon its pipeline is sent again (`MaxRetries` 1) or the request goes on |
| `snapshot_faults` | `SnapshotBound`, `ShownWithinLimit`, `GoneWhenClean`, `ContentSpec` | 2 instances, two readers that share a flight, a third and the author elsewhere; TTL 2, deadline 1, time to 4; every fault. `AnswersInTime`, `KeysFromFirstVisits`: 3 visits of a guest, two to the HTML page and one to the API; the link is made and changed once; ages and times of 1, expiry at 1, time to 3 |

The bounds are small, and enough for what can go wrong: a double count needs two
flushers and one view, a lost or stranded view a view that arrives while another
of its link is taken or put back, a stale link one fill and one change, a lost
race two requests, a collision of migrations two replicas and a death, a third
window three requests, a refusal by a pipeline sent twice one request and one lost
reply, a wrong type one request. Some combinations need more, and there the
theorems are what covers them: a link that is switched on again needs a third row
(`MaxRow`), a silent change of a link before or after one that went through a third
version (`CleansUp`), two visits with the ids of two overlapping first visits a
fourth visit (`NoNewVisitors`), and a pipeline sent three times two lost replies
(`NoneRefusedInVain`). `dbReplyLost` is not in `cache_faults`: for its properties a
change without a DEL is what a crash before the DEL gives. What holds for larger
instances is what the theorems say.

A commit that is taken for an error (`dbReplyLost`) does write views twice, which
is why `views_faults`, with `NoDoubleCount`, leaves it out: `AddViews` has no key by
which a repeated batch could be told. `ViewsAccounted` is what holds even then: a
written view comes back to Redis only in the restore after such a commit.
`views_stop` checks it with this fault and the theorem `EveryViewAccounted` proves
it; that no view is lost by it is the theorem `NothingLost`.

Handlers that outlive the deadline of `Shutdown` (`shutdownTimeout`) can track
views after the workers left; `main.go` logs the timeout and goes on. Those views
are lost, which is the code's choice; `LeftIsLate` shows that only those are.

### Where the code and its comments differ

These runs end in a violation, by design: the property is what a comment says,
and the run shows a behaviour of the code that breaks it. `PROJECT.json` quotes
the comments under `findings`.

| Run | Property | What happens |
|---|---|---|
| `views_lost_on_stop` | `NoViewLost` | a stop during a flush cancels the context of `AddViews` and of `restore`: a batch is lost though nothing failed |
| `views_lost_reply` | `NoViewLost` | a GETDEL that ran and lost its reply is taken for one that did not run |
| `cache_stale_fill` | `DoubleDeleteCleans` | a flight may take 2 s, the second DEL comes after 500 ms: the old link is written back for an hour |
| `snapshot_gone` | `GoneAtOnce` | a snapshot selected before the delete is cached after its one DEL: who opens the link after the author's 204 is shown the page, for up to 10 minutes |

### Fairness

`ViewCounter!Fairness`: goroutines that can run do (weak fairness of each worker,
flusher and step of the stop). `SF(WriteOk)`: a database that is asked again and
again answers in the end; without it no view need ever be written.
`SF(FlusherExit)`: Go's `select` picks among ready channels at random, so a
ticker cannot hide a done context for ever. `WF(FinalTimeout)`: the 5 s deadline of
the final flush passes; the stop depends on it, for a full batch whose GETDELs
keep failing is put back and taken again. No fairness of `Track`, of faults, of
expiry, or of a stop. `LinkCache!FairSpec`: weak fairness of each reader and
flight, which are goroutines that run when they can. `ShareCreate!FairSpec`: weak
fairness of each request's statements, not of their errors, so that
`RequestAnswered` does not owe the answer to a failure. `Startup!FairSpec`: weak
fairness of each replica's steps without its errors, where `Boot` is the restart
that `docker-compose.yml` asks for (`restart: unless-stopped`), and of
`EndSession`, PostgreSQL noticing a lost connection. That faults end is their
bound, so `EventuallyServing` says what happens after the last of them.

## Proofs

Everything below holds for every number of instances, workers, views, requests,
codes, and so on; the assumptions on the constants are `CounterAssumption`,
`WorkersAssumption`, `StatsAssumption`, `CacheAssumption`, `SnapshotAssumption`,
`CreateAssumption`, `TwinAssumption`, `StartupAssumption`, `ResolveAssumption` and
`LimiterAssumption`.

`ViewCounterProofs`
- `TypeCorrect`: `TypeOK` is inductive.
- `NeverCountedTwice`, `ImplementsLedger`. That no view is written twice is not
  inductive: it rests on where a view can be. `QueuedOnce` says that a view on
  its way to Redis is in one channel or with one worker and is not yet counted
  (so the script counts it once); `HeldOnce` that a counted view is in Redis, in
  the `deltas` of one flush, or written once. Both are inductive, the second
  given the first. They hold under crashes and lost Redis replies, and assume
  that a failed `AddViews` wrote nothing (`"dbReplyLost" \notin Faults`) and, as the
  model does, that no command is executed twice (see Not modelled).
- `EveryViewFollowed`, `EveryViewAccounted`: the account of a view's life under
  every fault, which says what is lost where something may be. Before it is counted
  (`Followed`): a full channel drops it, or it is in one channel or with one
  worker until it is counted, found to be a repetition, given up after an error,
  or left in a dead process. After it (`Accounted`, the property
  `ViewsAccounted`): it is in Redis or in a flush until it is added to
  `view_count`, once, or a flush that holds it gives up or a GETDEL of its link
  loses its reply. The first rests on `LifeOfWorkers` (none works in a final
  flush); the second on `HeldInOnePlace` (Redis and the flushes hold different
  views), `EmptyHands` (a flush holds views only between its GETDELs and the end
  of its restore) and `GoneIsIdle` (a dead process has no flush).
- `DrainEnds`, `DrainIsBounded`, `CutFlushEnds`: a graceful stop, whatever fails.
  `WorkLeft` bounds the steps of a worker before its exit; its own steps take from
  it and no one else's add to it, if no handler outlives `Shutdown`. A flush whose
  context is cancelled comes down, by each of its steps, in the lexicographic order
  of its stage, of the links it has to read, of the views it has to put back and of
  the mark it owes. With fairness this is why `EventuallyStopped` holds up to the
  final flush.
- `NothingLost`, `NeverStranded`: `NoViewLost` and `NotStranded` when Redis and
  the processes do not fail and the database may, in any way (`DbFaultsOnly`). The
  runs `views_lost_*` show that neither condition can be dropped.

`LinkCacheProofs`
- `TypeCorrect`, `StaleBounded`, `Served`: the bound on stale links, under every
  fault. `StaleBound` is not inductive: what a flight writes depends on when it
  read. `FlightTimed` says that a flight about to fill is not past its deadline by
  more than a command's time, and that the version it holds was the row's until at
  most `DbTimeout` before that deadline; `CacheTimed`, inductive given it, bounds
  the expiry of what is in the cache.
- `NoOneSpills`: `NoSpillover` when the database answers (`"dbErr" \notin Faults`).
- `CleansUp`: `DoubleDeleteCleans` under `SlowDelete`, that is
  `DbTimeout + CmdTime < SecondDelete` with a Redis that works and no crash; clients
  may leave, and changes commit of which the owner hears an error. The
  invariant `Swept` says of each version superseded by a change that went through
  that the DEL of a later change or a second DEL after its last possible fill is
  due, or that this time is past and the version is not cached. `cache_stale_fill`
  shows that the first condition is needed; the code has 2 s and 500 ms, so it is not in the theorem's case.

- `ImplementsReader`: `LinkCache` implements `LinkReader`, under every fault. It is
  `Served` with the rest of the steps: a reader is answered in a step that
  changes neither row nor time, and those who wait for a flight at once.
- `NoOrphan`, `WaitBounded`: who waits for a flight waits for one that is under way
  and at most a command past its deadline; that deadline is `dbTimeout` away at most
  when the caller joins, and no one who joins later puts it off. The two are
  proved together (`WaitSteps`).

`ShareCreateProofs`
- `TypeCorrect`, `OneLive`, `NeverReassigned`, `OwnersOnly`, `MadeOnce`,
  `ImplementsRegistry`. All rest on the lemma `RowSteps`: a step leaves the rows
  alone, deletes one, or adds one under a fresh code for a submission without a
  live link. `OwnersOnly` strengthens with `Cleared` (a request past the check was
  made by the author), `MadeOnce` and `ImplementsRegistry` with `Told` (no answer
  before the last step; a link someone was told of has its row).
- `AnswersRight`: who asked holds the code of a link to what was asked for, for
  ever. It is proved of `LinkRegistry`, where `Create` is one step, and holds of
  `ShareCreate` because that implements it (`ImplementsRegistry`).
- `RunsToItsEnd`, `BoundedWork`: a request sends at most `maxCodeRetry` and three
  statements, each step of its own leaves it fewer (`StatementsLeft`), no step of
  another adds any, and it ends with a link or an error and not both.
- `NoneFailsInVain`: a loser was refused by a live link of its submission, which
  is there or deleted while it is on its way to the second read, and an attempt is
  counted only when a code was taken (`LostTo`). Which statement each error comes
  from is the lemma `FailureSteps`, what an insert that does not add a row does
  `InsertLoses`.
- `TwinAlike`: `Matches` says entry by entry how the maps of the double stand for the
  tables; it is inductive given `TypeOK`, and every answer follows from it, with
  the three cases in which the double takes someone for the author.

`ViewStatsProofs`
- `NeverAhead`: `StatsNotAhead`. `view_count` only grows (`WrittenGrows`), so what
  was read of the row stays a lower bound of it (`PartWritten`), and the second
  read is of Redis as it is. That the counter runs undisturbed is the lemma
  `CounterUndisturbed`: `StatsSpec` implies `Spec`.
- `OnlyLateLeft`: `LeftIsLate`. What makes it inductive is that, once one worker has
  left, everything in the channel is late: a worker leaves only when it finds the
  channel empty and the instance stopping, and what comes after is queued by a
  handler that should be gone (`DrainInv`).
- `DrainedWithoutLate`: without such handlers the channel is empty.

`SnapshotCacheProofs`
- `TypeCorrect`, `Bounded`, `Shown`: as in `LinkCacheProofs`, with an invariant that
  bounds the deadline of a flight which still holds the snapshot of a hidden
  submission, and the expiry of its key.
- `CleanIsGone`: `GoneWhenClean`. From a DEL without a fill under way on, the
  submission is deleted, the key is empty and no flight holds the snapshot, and
  each step keeps it so: this is the part of "gone at once" which the one DEL does
  give, and the missing condition is what `snapshot_gone` shows.

- `ImplementsContent`: `SnapshotCache` implements `PageContent`, under every fault.
- `NoOrphan`, `WaitBounded`: as in `LinkCacheProofs`, with `snapshotTimeout`.

`ResolveProofs`
- `AnsweredInTime`: the invariant `SeenActive` says of who
  waits for the page that the link was active no longer ago, and does not expire
  earlier, than its deadline allows; it is kept while the row is superseded and
  time passes.
- `NoNewVisitors`: an id is in the browser only after the visit it is named after
  was made without a cookie (`IdsOfFirstVisits`), which later visits keep. That the
  browser stays one visitor is `OneVisitor`: the id of a visit that was sent with a
  cookie is the browser's until the answer of a first visit that was on its way
  then replaces it, and no other answer can.
- `SeesLinks`, `SeesPages`: what visits see is a behaviour of `LinkReader` and one
  of `PageContent`. `ImplementsReader` and `ImplementsContent` say the same of the
  two caches: that is the joint at which the modules are composed.

`RateLimiterProofs`
- `LimitOfWindows`: the requests in the length of a window were counted in at most
  two windows of the clock, or three (`FewWindows`, from the arithmetic of
  `Division`), and of each window at most `Limit` were allowed, since the key lives
  as long as any of them may be counted, so that the ranks in it are all
  different. That is the invariant `LimiterIInv`; its part `SendsOnce` says that each
  send runs once at most, which is what makes sends, and not requests, the unit
  that the key counts.
- `NoneRefusedInVain`: a rank is at most the number of sends that were counted in
  the same window before, however often a pipeline was sent (`EarnedKept`).

`StartupProofs`
- `TypeCorrect`, `NoCollision`, `ServesComplete`, `ImplementsHistory`. The invariant
  `MigrationInv` says that a replica between lock and unlock holds the lock
  (`Alone`), that a COMMIT of a session without a client is the next migration's
  and that session has the lock (`LeftOver`), that the files a replica has passed
  are applied (`Passed`, `Begun`) and that those past `Migrate` have all of theirs
  (`Complete`).
- `NoStartDeadlock`: a replica waits only at `lock`, and there for one that holds
  the lock and can go on, or for a session whose client is gone; so no two wait for
  each other. `OneAtATime` leaves no one to wait for at the primary key.
- `StartEnds`, `StartsBounded`: `StepsLeft` is what a replica has still to run
  before it serves, a failed migration and the start after it included. It is
  bounded, zero only for a replica that serves, and each step that is not a fault
  leaves each replica where it is or nearer.
- `SchemaInOrder`: the applied migrations are the first files, in order, each once.
  It is proved of `SchemaHistory` and follows through `ImplementsHistory`.

Only model-checked: liveness (`EventuallyPersisted`, `EventuallyStopped`,
`RequestEnds`, `RequestAnswered`, `EventuallyServing`), which needs fairness and
ENABLED and is beyond the prover. What it comes down to without them is proved: the
measures of `RunsToItsEnd`, `StartEnds`, `DrainEnds` and `CutFlushEnds`, the waits
of `NoStartDeadlock` and `NoOrphan`. `EventuallyPersisted` has no such measure: a
database that keeps refusing sends a batch round for ever.

## Not modelled

- The retries of go-redis in the view counter. They are modelled where they decide
  an answer, in `RateLimiter`; elsewhere a lost reply goes to the caller at once.
  What each would change, command by command: a retried INCRBY of `restore` adds the
  batch a second time, and these views are written twice, so that
  `NoDoubleCount`, `ViewLedger` and `ViewsAccounted` are about commands that are executed
  at most once; a retried script finds the dedupe key, and a retried SPOP takes
  other links, with the outcome of `ScriptErr` and `PopErr`; a retried GETDEL answers
  nil, so that its link is not even marked again, where `GetDelErr` marks it. The
  views are lost in either case, and `NotStranded` assumes that no reply is lost.
  SADD, EXPIRE and the commands of the caches do the same when they run twice.
- Redis losing acknowledged data, and failing over.
- The HyperLogLog of unique visitors, which counts approximately.
- A row deadlock of two batches in `AddViews`: PostgreSQL aborts one of them,
  which is the `dbErr` of the runs.
- Rendering, binding, the library that signs and verifies tokens, logging,
  metrics, configuration: they have no state that another part reads.
- `ValidCode`: a code of another form is refused before the cache and the database
  are asked; in `Resolve` it is a link that was never made. `NewCode` returns any
  code (`ShareCreate`).
- The spelling of crawlers' User-Agents: who is one is given (`Viewer`).
- The owner's routes beyond the use cases they call: binding and `writeError`.
- `memstore` beyond the calls of `Create`.
- A Redis that restarts empty: views that wait there are lost, and the windows of
  the limiter begin anew.
- The architecture test, the demo script and the seed data.

## Plan

Every part of the service that keeps state is modelled, with an abstract
specification where a caller relies on a promise, and every safety property that
a run checks is proved. What could still be added:

1. A command whose client gave up and which Redis still runs later, in both cache
   models: how far the bounds move.
2. The retries of go-redis in `ViewCounter`, as in `RateLimiter`: which views a
   repeated INCRBY of `restore` writes twice, and how often. A view is then counted
   in a bag and no longer in a set.
3. `SetStatus` and `Delete` in the double of the database, with the doubles of the
   caches: how the use cases' tests differ from the service under races.

The runs are few, so that all of them can be repeated on every change of the
code: a new question joins the run whose instance it can share.
