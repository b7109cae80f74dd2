# Verification of the vidtrim backend

TLA+ models of the Go server in `src/`, the TLC runs that check them on small
instances, and TLAPS proofs of what matters most for every instance.
`PROJECT.json` is the index: components, runs, mutants, the map from
definitions to source lines, findings, hazards and theorems. Paths below are
relative to `src/`.

## 1. The system

A user registers, verifies the address by a mailed link, and uploads, trims,
crops, renames, searches and deletes videos. Videos live in an S3 bucket behind
a CDN, everything else in SQLite. ffmpeg does the work, behind a pool of
workers. One process; every request is a goroutine.

| Component | State it keeps | Operations | Meets the others through |
|---|---|---|---|
| Job queue and worker pool (`internal/service/ffmpeg.go`, `thumbnail.go`, `pkg/util/merge_ctx.go`) | channel `jobs`, counter `running`, the workers' stacks, one ffmpeg process and one scanning goroutine per job | `Enqueue`, `worker`, `runFFmpegJob`, `MakeThumbnail`, `MergeContexts` | the `Done` channel and the context of a job; `Output`, which is the client's response or a temporary file |
| Progress map (`internal/service/progress.go`, `app/ffmpeg/start.go`, `progress.go`) | `ProgressMap`: user to percentage and job id | store (scanner, `FFMpegStart`), delete (worker), load | shared by workers, scanners and handlers, without an order between them |
| Processing handler (`app/ffmpeg/process.go`) | temporary files, contexts | `FFmpegProcess`: stream the result, or save it | queue, uploader, database |
| Uploader (`internal/service/upload.go`, `duration.go`) | slice `uploadedKeys`, channel of results, the objects in the bucket | `Do`, with three goroutines | queue (thumbnail), S3 |
| File library (`app/file/*.go`, `pkg/validators/file.go`) | a row per file, a Stats row per user (`used_storage`, `uploaded_files`, `max_storage`), two objects per file | `FileUpload`, `FileEdit` (video and name), `FileDelete`; reads | queue, uploader, database, S3 |
| Accounts (`app/user/*.go`, `pkg/middleware/jwt.go`, the two cleanups) | user, token and Stats rows, sent mails, cookies | `UserRegister`, `UserVerify`, `UserLogin`, the JWT check, `TokenCleanup`, `AccountCleanup` | database, mail, S3 |
| File reads and their caches (`fetch*.go`, `search.go`, `owns.go`, `app/user/fetch.go`, `app/router.go`) | answers kept by URI; the CDN's copies of objects, kept by URL | lists, `FileFetch`, `FileOwns` | rows that edits and deletions change; the objects behind the URLs |
| Rate limiter (`pkg/middleware/rate_limit.go`) | map `visitors` under a mutex, a limiter and `lastSeen` per address, a cleanup goroutine | `getVisitor`, `Allow`, `cleanupVisitors` | the handlers after it in the chain |
| Configuration and start (`main.go`, `config/*.go`, `app/deps.go`, `router.go`) | the environment, which `Setup` corrects | `Setup`, `DetectGPU`, `NewRouter` | what handlers and workers read of the environment later |
| Options and ffmpeg's arguments (`pkg/validators/processing_opts.go`, `MakeFFmpegFlags`, `addHWAccelFlags`) | none | `ProcessingOptsValidator`, `MakeFFmpegFlags` | environment, ffmpeg, the progress percentages |
| Turnstile, body limit, request id, random ids, hashes, database opening, S3 client | none of interest | | see section 6 |

What is hard in it:

- **Concurrency.** `Enqueue` does not queue: it hands over to a worker that is
  blocked in a receive, or fails. Handler, worker, ffmpeg and scanner of one
  job run beside each other and end in any order. Two goroutines and their
  caller share a slice without a lock.
- **Failure.** Every handler is a row of steps over ffmpeg, S3 and the
  database, with an early return after each. Only the statements of one
  transaction are atomic.
- **Time.** Two-minute and one-minute timeouts, disconnecting clients, links
  that are good for half an hour and accounts for a week.
- **Checks that are old when used.** The storage left, the row an edit writes
  back, the address a registration looked up, the accounts to clean, the
  limiter that was taken from the map.
- **Copies.** Objects are called immutable and are overwritten; the CDN and the
  router keep what they once answered.
- **Settings.** What the start writes into the environment meets a request's
  options only in ffmpeg's arguments.

What makes each component correct:

- *Queue*: every request is answered once; a success means that its ffmpegs
  succeeded, as far as the answer can still be chosen; nothing writes to an output whose owner has returned; every worker
  comes back; the counter and the progress map tell the truth.
- *Uploader*: success means both objects are stored; a failure removes only
  what this call stored; `Do` returns and leaves no goroutine behind.
- *Library*: counters equal rows, rows have objects of their size, whatever
  fails; a user stays within the quota.
- *Accounts*: one account per address; a link that should work works; what is
  verified is not cleaned.
- *Reads*: a listed URL leads to the video that is in the bucket; a deletion
  lasts; no answer made for somebody else or earlier goes on denying the owner a
  file.
- *Limiter*: each address has one bucket, whatever is forgotten and made anew.
- *Configuration and arguments*: a server that starts can run what it accepts; a
  target size is met; the duration that percentages are divided by is that of what
  ffmpeg encodes.

## 2. Modules

| Module | What it models |
|---|---|
| `JobQueue` | queue, workers, ffmpeg, scanner, progress map, and the part of every handler that waits for a job |
| `UploadPromise` | what a caller of `Uploader.Do` can rely on: an abstract specification |
| `Uploader` | one call of `Do` with its goroutines; implements `UploadPromise` |
| `Library` | one user's rows, counters and objects under concurrent requests; each call of `Do` in it follows `UploadPromise` |
| `Delivery` | what clients see of one file: its version, the video under its key, the CDN's copies, the cached answers of `owns` |
| `Accounts` | registrations, verifications, log-ins, time, the two cleanups |
| `TokenBucket` | what the rate limiter promises each address: an abstract specification |
| `Limiter` | the visitors map, its limiters and its cleanup; implements `TokenBucket` |
| `Config` | the start of the server: `Setup`, `DetectGPU`, `NewRouter` |
| `Export` | a started server (extends `Config`) and one request to ffmpeg: validation, arguments, what ffmpeg makes of them |
| `MCJobQueue`, `MCLibrary`, `MCDelivery`, `MCAccounts`, `MCLimiter`, `MCExport` | who sends which request, the values and the symmetry sets, for TLC |
| `JobQueueProofs`, `UploaderProofs`, `LibraryProofs`, `DeliveryProofs`, `AccountsProofs`, `LimiterProofs`, `ExportProofs` | the theorems |
| `Sums` | what the library's `MapThenSumSet` computes: lemmas about sums over finite sets |

The composition goes through promises rather than through one large state
space. `JobQueue` takes the rest of `Do` as a step that succeeds or fails;
`Library` and `Delivery` take the queue's answer as a step that gives a size or
a video, and a call of `Do` as the steps `UploadPromise` allows (`Stored`,
`Removed`, `Succeeds`, `Fail`). The theorem `DoKeepsPromise` is what makes the
latter sound: whatever the goroutines of `Uploader` do, a caller sees no other
steps; and the two theorems `EachDoIsAsPromised` show that every request of
`Library`, and of `Delivery`, behaves as the promise has it. (`Parts` is a
parameter of the promise: `Delivery` looks at the video alone.) `Library` and `Delivery` are two views of the same handlers: the first has
sizes and counters of several files, the second the video and its copies of one.
`Export` composes the start and a request in one state machine, because what goes
wrong there is a setting and an option that do not fit.

### JobQueue and the code

A request has a program counter `pc`; a worker has `wpc`. One action is one
access to shared state.

| State | In the code |
|---|---|
| `pc`, `kind` | where the handler is; `stream` and `cloud` are the branches of `FFmpegProcess`, `upload` is `FileUpload`, `edit` is `FileEdit` |
| `ctx` | which of the request's contexts are Done: the client's, the timeout, the merged one, the thumbnail's |
| `wpc`, `wjob`, `wres` | the stack of `worker` and `runFFmpegJob`; `"recv"` means blocked in `range q.jobs` |
| `done` | what was sent on the job's buffered `Done` |
| `ffmpeg`, `scanner` | the process (`alive`, then its status) and the goroutine of `ffmpeg.go:220` |
| `progress` | the user's entry: none, `part` (a figure below 100) or `whole` (0 or 100) |
| `up` | the process lives |

`HandOver` needs a worker in `"recv"` because the channel has no buffer;
otherwise `Refuse...` is what the `default` does. `Count` follows in a second
step. `ParentEnds` computes what the goroutine of `MergeContexts` does with the
parent's reason (`CancelsOn`): nothing, for both reasons there are. `Return` is
a handler's return together with its deferred cancels. `CopyFails` is the early
return of `ffmpeg.go:263`, which leaves ffmpeg behind; `Kill` is what
`exec.CommandContext` does when the context ends. `ScanEnds` and `Forget` are
the unordered Store and Delete of the progress entry.

For a stream the worker copies ffmpeg's output into the client's response, which
commits the status 200 with the first bytes. A handler that answers afterwards can
no longer choose it: `Told` gives such a request either the answer of the code or
`"cut"`, the 200 with a truncated video. Whether any bytes had come is settled where
the handler looks, because nothing depends on it earlier. `NoStderrPipe` is the
dropped error of `ffmpeg.go:215`: closing a nil reader panics in a goroutine that
recovers nothing, and the process is gone. Every other step is one of a process that
lives (`Alive`).

Abstracted: the arguments of ffmpeg, the amount of progress, the job's random id
(nothing looks at it), and everything a handler does before it touches the queue
(a failure there changes no shared state).

### Uploader and the code

`main` is the caller, `sub` the three goroutines by the names they log. A put is
`wire` (the request S3 may still act on) and `bucket`: `PutTakesEffect` may come
after `CallFails`, because a client that gives up on a request does not take it
back. `ReadKeys` and `WriteKeys` are the two halves of an `append` to the shared
slice; while one goroutine is between them another's append or the caller's loop
may see a half-written header (`TornAppend`, `TornCleanup`): a fault that ends
the process or, in the handler, a panic that gin answers. `Init` chooses between
a fresh key and an override (`"old"` objects).

### Library and the code

A file is its id and its key at once. `row[f]` is the size in the database, 0
for no row; `object[f][p]` the size of the video that the object under that key
was made from. `original` is what a handler read and later writes or subtracts;
`new` what ffmpeg made; `put` where its `Do` is. `Fail` and `CommitFails` are the
early returns of upload and edit, and stand for a crash as well; a deletion's early returns are
`Fail`, `DeleteObjects` to `"owing"` and `StatsFail`. `contended` is a history
variable: the files that one request read while another worked on them.

### Accounts and the code

An account is named by the registration that makes its id. Time is what the code
compares with: `old` (the half hour is over), `expires` (`"week"`, then
`"passed"`). `Deletable` is what SQLite makes of `x LIKE (list)`: it deletes for
a list of one and refuses a longer one. `AccountDelete` deletes files from the
bucket and no account: the statement names a column that `users` lacks.
`WeekPasses` asks that no verification of this account is half-way and that the
half hour is over: a request that lasts for a week is left out, and this bound
is an assumption of `DoomedOwnNothing`. The cleanup reads two columns into a list of
strings, which may fail or give anything: some or none of the files go.

### Delivery and the code

A video is the set of edits it went through, so that "an older one" is a fact
about sets. `row` is the version in the file's row (0 for no row). `cdn[v]` is
what the CDN keeps for the URL with `?v=` and version `v`, and `cdn[0]` for the
URL without: `edit.go:121` downloads by the latter, `FileFetch` hands it out, the
lists give the former. `NewVersion` is `file.Version++` on what was read
(`edit.go:232`), `WriteRow` the `Updates` that changes no row, and raises
no error, when the row is gone. `read` is what a request will write back, as long as
it will. `kept` is the answer of `owns` in the router's
cache: by URI only, hence the same for whoever asks, and 2xx only (`Keeps`).
`flight` is the answer that a running `FileOwns` has found and not yet given: all
who ask for the same URI meanwhile wait for it and are given it, a refusal as
well (`FileOwns`, `FinishOwns`); `OwnsAnswer` is what a user who asks now is told. A request whose transaction fails ends in `"unsaved"`: its object stays
in the bucket. `contended` remembers that two requests were to write the row back at
once.

External, and modelled from its use: a CDN keeps a copy by its whole URL and may
drop it at any time (objects are stored as `immutable`, `upload.go:83`); gin-cache
keeps answers of status 2xx by the request's URI, and lets one of several requests
for a URI run the handler for all of them.

### Limiter and the code

`visitors[ip]` is the pointer in the map, `held` the one that a request carries
out of the mutex. `tokens` and `last` are the two fields from which
`golang.org/x/time/rate` computes what there is when asked (`Level`); time is in
ticks of which a token costs `Cost`. `GetVisitor` and `Cleanup` are each one
critical section; `Allow` comes later, `Handle` is the chain, which runs for
refused requests too (no `Abort`). Limiters are reused when nothing points to
them any more, as memory is.

`LimiterAssumption` asks that `MaxHold + Full <= TTL + 1`: the longest a request
lies between the mutex and `Allow`, and the time in which a bucket fills, are
together within the TTL. The router's burst is what two seconds admit and its
TTL is the default of three minutes, so a request may lie for 178 s; a process
that is stopped for longer than that (a suspended laptop) is left out.

### Config and Export and the code

The environment is a function of its settings, one of `Environments`; the server
starts on one of `Machines`. `ConfigAssumption` says what those are: any texts,
switches and numbers, and any cards in any order. `FFMPEG_ENCODER` and
`FFMPEG_HWACCEL` are empty at the start: `Setup` writes them for the workers to
read, and `.env.example` does not have them. Someone who sets them by hand is left
out. Each section of `Setup` is an
action (`CheckHost` ... `CheckServices`), in the order of the code; a section's
condition is the conjunction of its checks. Texts are there or not; numbers are
"", "0" or "3"; a limit is no number, less than what a request needs, or enough. The
limits, the accepted types and the CDN's URL are checked by no section: the
handlers read them (`FileIsValid`, `AskUpload`, `AskEdit`). `CheckGPU` and `RateCorrected` are the `Setenv` calls.
A machine is what `LookPath`, `os.Stat` and `/dev/dri` show, and whether it has
ffprobe, for which `Setup` does not look.

`AskExport` and `AskEdit` are the validators of the two handlers,
`MakeFFmpegFlags` and `AddHWAccelFlags` the two functions over the argument list.
Lists keep every argument whose presence or order matters and replace times, names
and rates by a word; the rate itself is `Bitrate`, with the rounding of `%.0f` (to
nearest, halves to even). Target sizes are counted in eighths of a megabyte.

Times are counted in ticks, `Milli` of which make a millisecond, so that trim points
may be finer than what `FloatToTimestamp` prints. `Stamps` is that function: the
nearest millisecond (either one for a half), and one less where cutting the fraction
of a binary number loses it. It is a choice, because which numbers lose one is a fact
about binary fractions; a whole second loses none. `cut` holds the two timestamps
that were printed, and `Encoded` what ffmpeg makes of them, in the video's own
time. `duration` is computed from the options, as the code does. `NoDuration` is the
early return when ffprobe fails.

`Outputs` is how ffmpeg reads a command line (a word that is neither an option nor an
option's value names an output); `Works` is which card serves which codec;
`CutIsRead` and `BufferIsRead` are the values it refuses. All are external. A cut
shorter than `Frame` may contain no picture, and what ffmpeg's status is then
depends on its version: `Outcomes` allows both.

Assumed of the video: ffmpeg can decode it, ffprobe finds its length, and an .mp4
may hold its audio, which is copied. `ExportAssumption` bounds trim points by some
thirty years, where a conversion to an integer could overflow.

## 3. Runs

| Run | Instance | Question, and what it shows |
|---|---|---|
| `queue` | 2 workers, 2 requests of one user, streams and uploads, clients disconnect, one `FFMpegStart` | types; `OutputOutlivesJob`, `RunningCounts`, `SuccessIsFfmpegs`, `NoFrozenProgress` hold in every interleaving (4.7 million states) |
| `queue_live` | 1 worker, 2 save-to-cloud requests (two jobs each) | every request is answered and the worker returns to its receive if ffmpegs end; an ffmpeg left behind by a failed copy is killed even if it would not (0.2 million) |
| `queue_timeout` | 1 worker, 1 upload, the timeout may pass | **violated**: the two minutes pass and nothing happens |
| `uploader` | one call, all goroutines, fresh key or override | `Do` refines `UploadPromise`, returns, and its goroutines end |
| `uploader_update` | the same | **violated**: a failed update deletes the video of the existing file |
| `library` | 3 requests of any kind, 3 files, sizes 1 and 2, quota 3 | `StatsMatchRows`, `RowsHaveObjects`, `SizesAreTrue` (3.7 million) |
| `library_quota` | 2 uploads of size 2, quota 4, one file of 2 there | **violated**: both pass the check, 6 are used |
| `delivery` | 3 requests of any kind, the owner and a guest | `ListedIsCurrent`, `VersionsAreNew`, `DeletedStaysDeleted`, `OwnerIsTold` (4.1 million) |
| `delivery_edit` | 2 edits, one after the other | **violated**: the second starts from the CDN's old copy and loses the first |
| `accounts` | 3 registrations, 2 addresses, 2 verifications | `EmailsAreUnique`, `LinksWork`, `DoomedOwnNothing` |
| `limiter` | 3 requests, 2 at one address; 2 limiters, burst 2, 2 ticks a token, TTL 5 | `Limiter` refines `TokenBucket`; `HeldIsInMap`; who falls silent is forgotten |
| `export` | the example environment, switches off or on and one more setting changed, 20 machines, 2 lengths, 6 trim points, 3 targets | `AcceptedRuns`, `TargetIsMet`, `PercentagesFit`, `UploadsUseCard` (1.1 million) |

Why the bounds are enough to be of interest:

- *Queue.* Two requests of one user meet at every shared thing (worker, counter,
  progress entry), and two workers let two jobs of one request's life overlap
  with the other's. A third request finds a worker that is free again or is
  refused, as the second does. The edit branch differs from the others by waiting
  on `Done` alone and is proved, with all kinds, in `JobQueueProofs`.
- *Uploader.* Nothing is bounded: the run is the whole state space of one call,
  and calls share no state but the bucket.
- *Library.* Two requests make every race on one file, the third makes a
  bystander whose file must not be affected; sizes 1 and 2 give a growing and a
  shrinking edit; quota 3 makes the check pass and fail.
- *Delivery.* Three changes of one file reach every order of upload, edit, rename
  and deletion, with an older and a newer copy beside the current one; versions
  are bounded by the number of requests (`Versions`), which the proof shows to be
  no restriction (`Bounded`).
- *Accounts.* Two registrations race for an address while a third has another;
  two verifications use one link twice; with two expired tokens the `LIKE` fails,
  with one it works.
- *Limiter.* Two requests drain one bucket; with TTL 5 and `MaxHold` 2 an address
  can be forgotten and come back while the bucket that is promised is not full in
  a wrong design: this is the smallest TTL that `LimiterAssumption` allows.
- *Export.* Every fault of a setting alone, with the switches off and on
  (`MCEnvironments`); each kind of card, an unreadable one, and an unknown one before
  a known one; ffprobe there or not; a quarter of a millisecond as the tick, and trim
  points before, at, in and beyond the ends of the video, one of them of half a
  millisecond and one of 1001 ms, which a timestamp may miss; no target, one below the
  audio's share and one above. That nothing beyond these bounds is different is what
  `ExportProofs` shows.

Constants that bound a run: `Requests`, `Registrations`, `Verifications` (each
served once; in Limiter a request comes again and again), `MaxStarts` (concurrent
`FFMpegStart` calls of a user), `Sizes`, `Limiters`, `MaxHold`, `Lengths`, `AudioRates`,
`Trims`, `Targets`. Symmetry is used in runs without liveness only. Deadlock is not
checked, because every instance but Limiter's ends once its requests are served
(and Limiter's stops where a client sends no more); where waiting for each other
is possible, the liveness properties say that it does not happen.

### Fairness

`LiveSpec` (JobQueue) adds `GoroutinesRun`: every handler and worker that can
take a step is scheduled, a scanner reaches the end of its input, and the kill of
a cancelled command is delivered. That is the Go scheduler and `os/exec`. No
fairness for clients or timeouts. That ffmpegs end by themselves (`FfmpegsEnd`) is
an assumption on ffmpeg and on its pipes being drained; it is the premise of the
properties that need it, `EveryRequestAnswered` and `WorkersComeBack`.
`StrayIsKilled` holds without it. All three, and `TimedOutIsAnswered`, are about a
process that lives (`[]up`): a dead one schedules nothing.

`FairSpec` (Uploader): the caller and the goroutines are scheduled, the timer of
the deadline fires, S3 answers a `DeleteObject` (that call has no deadline:
`upload.go:151`), ffprobe ends within its own timeout. A put owes nothing until
its context is Done; that is what makes `DoReturns` say something.

`FairSpec` (Limiter): time passes, the cleanup's goroutine wakes up again and
again (a `Sleep` in a loop), and a request that has its limiter goes on to the end
of the chain. Clients owe nothing: `IdleIsForgotten` is about those that stop.

### Histories in properties

`StatsMatchRows` and `SizesAreTrue` hold for files that no two requests worked on
at once, and `ListedIsCurrent` and `VersionsAreNew` unless two requests were to
write the row back at once; `contended` remembers it. Without that clause they
are false: an edit that meets a deletion or another edit writes back what it read
before, with a version that the other one used. These are in the hazards.
`RowsHaveObjects`, `DeletedStaysDeleted` and `OwnerIsTold` hold without it.

`SuccessIsFfmpegs`, `AcceptedRuns` and `TargetIsMet` name the cases in which they
would fail, each a line of the code and a finding. `SuccessIsFfmpegs` excepts the stream
whose job failed after its first bytes were out: nothing else is told as a success.
Everything that a server accepts, but for the named cases, does run. `TargetIsMet` is
about audio within the 128 kb/s that the code reserves; `PercentagesFit` and
`TargetIsMet` allow the two milliseconds of the timestamps.

Each property of a passing run has a mutant of the code that breaks it
(`PROJECT.json`, `mutants`), such as `running.Add(-1)` on success only, an ignored
exit status, a merge that cancels on any reason, a commit after one of two puts,
a cleanup that takes every token, a row written back after its deletion, a cache
that keeps refusals, or a `lastSeen` set at creation only.

## 4. Proofs

All leaves are checked by `tlapm`; nothing is assumed but the named assumptions
of the modules, which TLC evaluates: `JobQueueAssumption` (finite sets of workers
and requests, a user for each request, `NoJob` is no job), `LibraryAssumption`
(finite sets, positive sizes, a natural quota), `DeliveryAssumption` (finitely
many requests, of the known kinds, and the owner a user), `AccountsAssumption`
`LimiterAssumption` and `ConfigAssumption` (section 2), and `ExportAssumption` (lengths
are positive, target sizes natural, trim points any number of ticks below the bound, a
millisecond any number of ticks). Uploader has no
constants.

**JobQueueProofs**, for any workers, users and requests.

- `TypeCorrect`: `TypeOK` is inductive by itself.
- `HandOverInv` (`HandOverCorrect`) is what `OutputOutlivesJob` needs to be
  inductive: a handler returns when its `Done` channel has an answer, so the
  invariant must say whose channels have one. Its parts: `MergedStaysOpen` (the
  merged context is open until the handler returns, which rests on `CancelsOn`
  being never true), `WorkedOnIsAwaited` (a job at a worker is that of a handler
  in the stage that waits for it), `OneWorkerPerJob`, `FreshIsUntouched` (a job
  not handed over has no answer and no process). A job is handed over once because
  its handler leaves the stage in the same step.
- `OutputSafe` follows from the first two: a handler returns before its job's end
  only through `ctx.Done()`, which does not come. So the property rests on the
  same line as the finding `queue_timeout`: a repair of `MergeContexts` alone
  makes `OutputOutlivesJob` false (the mutant of that property is this repair).
- `SuccessTrue` adds `SuccessInv`: what a worker returned, what was sent and what
  a handler saw agree with the status of the one process that was started, and a
  request that was cut off is a stream whose job sent an error.
- `ProgressNeverFrozen`, `RunningCorrect`: invariants of their own on top of
  `HandOverInv`; the latter counts sets (`FiniteSetTheorems`).

**UploaderProofs**, for the whole of `Do`.

- `DoInv` (`DoInvCorrect`): `ResultsCount` (no more results are taken or
  waiting than goroutines sent, one each), `StoredIsStored` (a key in the slice,
  or seen by a goroutine, is that of a stored object, and what is still on its way
  was not stored before), `FailuresAreTold` (while the caller receives, a part
  that is not stored means an error in the channel) and `ResultIsTrue`.
- `DoKeepsPromise`: initial states map to initial states, and each of the steps
  to a step of `UploadPromise` or a stutter. The delicate ones are
  `PutTakesEffect` after a failure (a put may land after `Do` returned, never
  after a success), `Clean` (only what this call stored) and `Finish`.

**LibraryProofs**, for any files, requests, sizes and quota.

- `TypeCorrect`.
- `KeepInv` (`KeepInvCorrect`): `StagesFit` (what the stage of a request says of
  its file and puts), `AddsAreAlone` (nobody else works on a file until it has a
  row), `AddsAreStored` (its objects are there when its `Do` succeeded).
- `RowsKeepObjects`: `RowsHaveObjects` without any condition on contention.
- `SizesStayTrue`, from `SizeInv` on top of `KeepInv`: on a file that is not
  contended only one request is at work (`Alone`), what it has put is what is in
  the bucket (`PutIsThere`), and so what it commits is true (`CommitsTruth`).
- `StatsStayTrue`: the counters are sums over the rows and what deletions owe.
  `StatsMatchRows` alone is not inductive: an edit adds the difference to the size
  it read, a deletion subtracts that size, so `StatsInv` says that a request
  before its transaction has read what is in the row (`ReadsTrue`), as long as no
  two requests are at one file. Contention only grows, so the condition
  `contended = {}` of a later state held in all earlier ones.
- `EachDoIsAsPromised`: for each request, `put[r]` and what its call of `Do`
  answered (`ResultOf`) are a behaviour of `UploadPromise`. It needs that who is
  past the call has put both parts (`DoSucceeded`).

**Sums** says of `MapThenSumSet` what `StatsStayTrue` needs: the sum over the
empty set, over a set with one element more or less, over a set where one value
changed (`TotalEmpty`, `TotalAdd`, `TotalRemove`, `TotalChange`). The library
defines it by a fold over a recursive function, and the induction theorems cannot
be used, as they take an operator. The induction is done by hand: a set on which
a claim fails has a minimal subset on which it fails (`MinimalSubset`), and that
one is neither empty nor larger than one on which it holds. `SumUnique` and
`SumExists` give the recursive function, `TotalIsSum` and `TotalRecursion` that
the sum does not depend on the order in which elements are taken.

**DeliveryProofs**, for any number of requests of any kinds and any users.

- `TypeCorrect`, which is not inductive alone: that a version stays in `Versions`
  needs `Bounded`, every commit adds at most one (`DoneGrows` counts them).
- `DeletionLasts` and `OwnerAlwaysTold`: a deleted row is not written again
  (`WriteRow`), and a refusal is never kept (`NoRefusalKept`), whoever was in flight
  with it.
- `VersionInv` (`VersionInvCorrect`), for the other two: `StageOf` (what a
  request's stage says of its handler and its video), `UploadIsFirst` (before the upload's commit
  there is no row and no link), `Calm` (as long as nothing contended,
  links are at most the row's version, and who is to write has read the row as it
  is), `CopiesWereGiven` (the CDN has copies only of URLs that somebody was
  given). `VersionsNeverReused` and `ListedStaysCurrent` follow: a version that is
  new has no copy, so the next one is fetched from the bucket.
- `EachDoIsAsPromised`: `put[r]` and `ResultOf(r)` are a behaviour of
  `UploadPromise` with the video as its only part. `DosFit` says who has a video,
  and who has put it.

**AccountsProofs**, for any registrations, verifications and addresses.

- `AccountsInv` (`AccountsInvCorrect`) joins the properties with `Checked` (a
  verification that judged a link good still has its token), `Rows` (what an
  account's row says agrees with where its registration is) and `Selected` (what a
  cleanup selected is still what it selected it for). `EmailsStayUnique`,
  `LinksStayGood` and `DoomedStayEmpty` are parts of it or
  follow from it. `Checked` is what a confirmation needs, and `Selected` is where the week of an account
  and the half hour of a link are needed (`WeekPasses`).

**LimiterProofs**, for any addresses, requests, rates, bursts and TTLs.

- `BucketInv` (`BucketInvCorrect`): `HoldsVisitor` (a request on its way has the
  limiter that is in the map, and the address was seen when it took it),
  `OwnLimiter`, and `GivesWhenSeen` (a limiter gave its last token at most
  `MaxHold` before its address was last seen, or is full).
- `HeldStaysInMap`, and `LimitsLikeBuckets`: `Limiter` implements `TokenBucket`
  under `credit <- Credit`. A tick maps to `Refill`, since `Level` is lazy; a
  cleanup maps to a stutter, since by `GivesWhenSeen` and the assumption what it
  forgets is full.

**ExportProofs**, for every environment and machine and any lengths, trim points and
target sizes.

- `StartIsChecked`: `StartInv` (what the environment, the machine and the
  stage can be) and `CardInv` (the codecs in the environment are none, or those of
  the card that `DetectGPU` found).
- `ExportInvariant` adds `JobInv`: at each stage of a request, arguments, timestamps,
  duration and rate are those of the options that were accepted, and a request that is
  answered has an outcome that these allow. `ExportTypeCorrect`,
  `AcceptedJobsRun`, `PercentagesAlwaysFit`, `TargetAlwaysMet` and
  `UploadsAlwaysUseCard` follow.
- A timestamp is within a millisecond and a half of its trim point (`StampsFit`), so
  that what ffmpeg encodes is within two of the duration computed from the trim points
  (`EncodedFits`); a cut that ffmpeg refuses to read has nothing in it
  (`EncodedIsRead`).
- Argument lists are taken apart into pieces that do not end with an option that
  wants a value (`Piece`): ffmpeg reads a list of pieces as it reads the pieces, so
  what a command line does (`Runs`) is known piece by piece for all combinations
  of options. `addHWAccelFlags` inserts at an index, which the lemmas on
  `Accelerated` follow.
- `TargetAlwaysMet` is arithmetic with products: the rate that `%.0f` gives is
  within half a kilobit of the exact one (`RoundIsNear`), so that rate times the
  duration is within what the target leaves for the video and half a kilobit a second
  (`BitrateFits`).

Only model-checked: liveness (`EveryRequestAnswered`, `WorkersComeBack`,
`StrayIsKilled`, `DoReturns`, `GoroutinesEnd`, `IdleIsForgotten`), which is outside
what the prover does. Every invariant and every action property of a run that passes
is proved. The properties of the four other runs are false, as those runs show.

## 5. Findings

`PROJECT.json`, `findings`, with the lines and what each contradicts. Shown by a
run of their own: the two-minute timeout never ends a request (`queue_timeout`);
the cleanup of a failed edit deletes the file's own objects (`uploader_update`);
the quota is checked and used far apart, and not at all by `saveToCloud`
(`library_quota`); an edit starts from the CDN's old copy of the video and loses
what was edited before (`delivery_edit`).

Met while modelling, with the module that has them:

- *JobQueue*: a stream that fails after its first bytes is a 200 with a truncated
  video; a stderr pipe that cannot be made takes the process down; the queue refuses when no worker waits, and `FFMPEG_MAX_JOBS` is not
  used; a progress entry can outlive its job and answer "already running".
- *Accounts*: the account cleanup names a column that is not there and deletes
  nothing.
- *Limiter*: a request that was answered 429 is carried out all the same.
- *Delivery*: `owns` and `search` answer from a cache that does not know who asks, and
  an owner's request may be given the refusal of one that is in flight.
- *Export*: a lossless export by libx264 has a word without its dash; a rate can
  round to "0K", which is no limit; the target size is compared in megabytes with
  bytes; audio is copied at any rate while 128 kb/s are reserved for it; a short cut
  with a large target asks for a buffer that ffmpeg refuses; timestamps may lose a
  millisecond; nothing looks for ffprobe; exports are never decoded by the card; AMD and Intel cards get encoders
  that cannot work there; `FFMPEG_PATH` is checked and not used.
- *Config*: the upload limits, the accepted types and the CDN's URL are not checked,
  and a server without them refuses every upload or edit; storage "local" is refused; turnstile reads another switch than the
  one that is documented and checked.
- Outside the models: sorting by name uses a column that is not there; cookies
  are never secure, because a variable's name is parsed for its value.

## 6. Not modelled, and why

- *Turnstile*: reads a switch nobody sets (see the findings); *body limit*: no
  route uses it; *request id*: a value in a log.
- *`FFmpegProgress`*: no path of `router.go` reaches it.
- *Paging, order and search patterns, tags, durations and names of rows*: queries
  and data that no state change depends on.
- *Migration, column marshalling, the logger, the S3 client's construction*: data
  and sequential construction. That opening may fail is part of `Config`.
- *Random ids, hashes, the JWT's signature, address checks*: data; ids are taken
  to be fresh, which `rand_str.go` (one unsynchronised source) gives up to chance.
- *Temporary files that stay behind*: no module has the disk.
- *Two requests at one row*: allowed in `Library` and `Delivery`, but the
  properties that they break except them (`contended`).

## 7. Plan

Done: JobQueue with runs and proofs; UploadPromise and Uploader with the
refinement; Library, with the counters; Delivery; Accounts; TokenBucket and Limiter
with the refinement; Config and Export. Every safety property that a run finds to
hold is proved for all values of the constants, and every call of `Do` in another
module is shown to be as `UploadPromise` has it.

Next:

1. *Delivery as an implementation* of a single register that readers see through
   the lists: what is now `ListedIsCurrent` and `VersionsAreNew`.
2. *Temporary files*: a small module with the disk and the handlers' deferred
   removals, for `thumbnail.go:24` and `process.go:148`.

Looked at and left: a bound on how far a user can exceed the quota. The size that
is checked is that of the file sent, and the size that is counted is that of what
ffmpeg makes of it, so nothing but the number of requests bounds the difference.
