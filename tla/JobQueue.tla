------------------------------ MODULE JobQueue ------------------------------
(***************************************************************************)
(* The ffmpeg job queue and everything that meets at it:                   *)
(*                                                                         *)
(*   - the worker pool, internal/service/ffmpeg.go;                        *)
(*   - the request handlers that hand it work and wait for the answer:     *)
(*     FFmpegProcess (app/ffmpeg/process.go), FileUpload                   *)
(*     (app/file/upload.go), FileEdit (app/file/edit.go), and the          *)
(*     MakeThumbnail step of Uploader.Do (internal/service/thumbnail.go);  *)
(*   - the contexts of a request and util.MergeContexts, which joins them; *)
(*   - the goroutine that scans ffmpeg's stderr, and the ProgressMap it    *)
(*     shares with the workers and with FFMpegStart.                       *)
(*                                                                         *)
(* Each goroutine has a program counter; a step is one access to shared    *)
(* state (a channel operation, an atomic add, a map operation).            *)
(***************************************************************************)
EXTENDS Integers, FiniteSets

CONSTANTS
  Workers,    \* the goroutines of the pool: FFMPEG_WORKERS of them
  Users,
  Requests,   \* the requests that need the queue, each served once
  UserOf,     \* the user who sends each request
  Kinds,      \* the kinds of request that arrive
  Parents,    \* the parent contexts that may end before their handler returns
  MaxStarts,  \* bound: FFMpegStart handlers of one user between Load and Store
  NoJob       \* what a worker without a job holds

\* A request hands over at most two jobs: the video, then its thumbnail.
Jobs == Requests \X {"video", "thumb"}

ASSUME JobQueueAssumption ==
  /\ IsFiniteSet(Workers)
  /\ IsFiniteSet(Requests)
  /\ UserOf \in [Requests -> Users]
  \* FFmpegProcess streaming its result or saving it, FileUpload, FileEdit:
  /\ Kinds \subseteq {"stream", "cloud", "upload", "edit"}
  \* the client's disconnection and the two-minute timeout:
  /\ Parents \subseteq {"client", "timeout"}
  /\ MaxStarts \in Nat
  /\ NoJob \notin Jobs

VARIABLES
  pc,        \* program counter of each request handler
  kind,      \* kind of each request
  ctx,       \* contexts of each request that are Done
  wpc,       \* program counter of each worker
  wjob,      \* the job each worker holds
  wres,      \* what runFFmpegJob returned to each worker
  running,   \* JobQueue.running
  done,      \* what was sent on each job's Done channel
  ffmpeg,    \* each job's ffmpeg process
  scanner,   \* each job's stderr-scanning goroutine
  progress,  \* ProgressMap: "part"ial percentages, or "whole" ones (0 and 100)
  starting,  \* FFMpegStart handlers of each user past their Load
  up         \* the server's process lives

handlerVars == <<pc, kind, ctx>>
workerVars  == <<wpc, wjob, wres>>
vars == <<handlerVars, workerVars, running, done, ffmpeg, scanner, progress,
          starting, up>>

\* How a handler may have returned: "cut" is a stream that had begun, so that
\* the client has the status 200 with the error's JSON behind a truncated video.
Answered == {"replied", "cut", "failed", "refused", "timedout"}
HandlerPCs == Answered \cup {"idle", "enqueue", "count", "await",
                             "thumb", "thumbcount", "thumbawait", "storing"}
WorkerPCs == {"loop", "recv", "prepare", "start", "copy", "send", "dec",
              "forget"}

\* Of a request: the client's, the two-minute timeout, the context merged from
\* them, and the one-minute timeout of MakeThumbnail.
Contexts == {"client", "timeout", "merged", "thumb"}

Video(r)  == <<r, "video">>
Thumb(r)  == <<r, "thumb">>
Request(j) == j[1]
IsVideo(j) == j[2] = "video"
JobUser(j) == UserOf[Request(j)]
JobKind(j) == kind[Request(j)]

\* Jobs built from Opts rather than Args: their flags come from
\* MakeFFmpegFlags, which sends the video through stdout and asks for
\* -progress lines on stderr.
HasOpts(j) == IsVideo(j) /\ JobKind(j) # "upload"

\* A job's context: the merged one for a video, MakeThumbnail's own
\* one-minute timeout for a thumbnail.
CtxDone(j) == (IF IsVideo(j) THEN "merged" ELSE "thumb") \in ctx[Request(j)]

Init ==
  /\ pc = [r \in Requests |-> "idle"]
  /\ kind \in [Requests -> Kinds]
  /\ ctx = [r \in Requests |-> {}]
  /\ wpc = [w \in Workers |-> "loop"]
  /\ wjob = [w \in Workers |-> NoJob]
  /\ wres = [w \in Workers |-> "ok"]
  /\ running = 0
  /\ done = [j \in Jobs |-> "open"]
  /\ ffmpeg = [j \in Jobs |-> "none"]
  /\ scanner = [j \in Jobs |-> "none"]
  /\ progress = [u \in Users |-> "none"]
  /\ starting = [u \in Users |-> 0]
  /\ up = TRUE

-----------------------------------------------------------------------------
(***************************************************************************)
(* Enqueue: a select with a default on an unbuffered channel.  The send    *)
(* succeeds only when a worker is blocked in its receive.                  *)
(***************************************************************************)
HandOver(j) ==
  \E w \in Workers :
    /\ wpc[w] = "recv"
    /\ wpc' = [wpc EXCEPT ![w] = "prepare"]
    /\ wjob' = [wjob EXCEPT ![w] = j]
    /\ UNCHANGED wres

NobodyReceives == \A w \in Workers : wpc[w] # "recv"

GoTo(r, to) == pc' = [pc EXCEPT ![r] = to]

ReturnLeavingContext(r, answer) ==
  /\ GoTo(r, answer)
  /\ UNCHANGED ctx

\* A handler returns: its deferred calls cancel the contexts it made, and the
\* server cancels the one it gave the request.
Return(r, answer) ==
  /\ GoTo(r, answer)
  /\ ctx' = [ctx EXCEPT ![r] = Contexts]

Proceed(r, to) == GoTo(r, to) /\ UNCHANGED ctx

\* The request is validated, its temporary files exist and its contexts are
\* merged.  (Every earlier failure returns without touching the queue.)
Arrive(r) ==
  /\ pc[r] = "idle"
  /\ GoTo(r, "enqueue")
  /\ UNCHANGED <<kind, ctx, workerVars, running, done, ffmpeg, scanner,
                 progress, starting>>

EnqueueVideo(r) ==
  /\ pc[r] = "enqueue"
  /\ HandOver(Video(r))
  /\ GoTo(r, "count")
  /\ UNCHANGED <<kind, ctx, running, done, ffmpeg, scanner, progress,
                 starting>>

EnqueueThumb(r) ==
  /\ pc[r] = "thumb"
  /\ HandOver(Thumb(r))
  /\ GoTo(r, "thumbcount")
  /\ UNCHANGED <<kind, ctx, running, done, ffmpeg, scanner, progress,
                 starting>>

RefuseVideo(r) ==
  /\ pc[r] = "enqueue"
  /\ NobodyReceives
  /\ Return(r, "refused")
  /\ UNCHANGED <<kind, workerVars, running, done, ffmpeg, scanner, progress,
                 starting>>

\* "job queue full" in MakeThumbnail: Uploader.Do fails, and the handler
\* answers 500 although the video was processed.
RefuseThumb(r) ==
  /\ pc[r] = "thumb"
  /\ NobodyReceives
  /\ Return(r, "failed")
  /\ UNCHANGED <<kind, workerVars, running, done, ffmpeg, scanner, progress,
                 starting>>

\* q.running.Add(1), after the hand-over: the worker may be ahead of it.
Count(r) ==
  /\ \/ pc[r] = "count" /\ GoTo(r, "await")
     \/ pc[r] = "thumbcount" /\ GoTo(r, "thumbawait")
  /\ running' = running + 1
  /\ UNCHANGED <<kind, ctx, workerVars, done, ffmpeg, scanner,
                 progress, starting>>

-----------------------------------------------------------------------------
(***************************************************************************)
(* Waiting for the answer: a select over the cases that are ready, the job *)
(* having answered and the merged context being Done.  FileEdit and        *)
(* MakeThumbnail receive from done alone.                                  *)
(***************************************************************************)
JobAnswer(j) == {done[j]} \ {"open"}

VideoCases(r) ==
  JobAnswer(Video(r)) \cup
    {c \in {"timedout"} : kind[r] # "edit" /\ "merged" \in ctx[r]}

\* What the client gets of an error's answer.  The io.Copy of a stream's job
\* hands ffmpeg's output to the response writer, which commits the status 200
\* with the first bytes; whether any had come is settled here, where it first
\* matters.
Told(r, answer) ==
  {answer} \cup
    {c \in {"cut"} : kind[r] = "stream" /\ ffmpeg[Video(r)] # "none"}

\* A processed file goes to Uploader.Do, which first makes the thumbnail.
AwaitVideo(r) ==
  /\ pc[r] = "await"
  /\ \E c \in VideoCases(r) :
       \/ c = "err" /\ \E told \in Told(r, "failed") : Return(r, told)
       \/ c = "timedout" /\ \E told \in Told(r, "timedout") : Return(r, told)
       \/ c = "ok" /\ kind[r] = "stream" /\ Return(r, "replied")
       \/ c = "ok" /\ kind[r] # "stream" /\ Proceed(r, "thumb")
  /\ UNCHANGED <<kind, workerVars, running, done, ffmpeg, scanner, progress,
                 starting>>

AwaitThumb(r) ==
  /\ pc[r] = "thumbawait"
  /\ \E c \in JobAnswer(Thumb(r)) :
       \/ c = "err" /\ Return(r, "failed")
       \/ c = "ok" /\ Proceed(r, "storing")
  /\ UNCHANGED <<kind, workerVars, running, done, ffmpeg, scanner, progress,
                 starting>>

\* The rest of Uploader.Do and the database transaction succeed, or one of
\* their steps (or opening the processed file) fails.
Store(r) ==
  /\ \/ pc[r] = "storing" /\ Return(r, "replied")
     \/ pc[r] \in {"thumb", "storing"} /\ Return(r, "failed")
  /\ UNCHANGED <<kind, workerVars, running, done, ffmpeg, scanner, progress,
                 starting>>

-----------------------------------------------------------------------------
(***************************************************************************)
(* Contexts.  The goroutine of MergeContexts takes the first parent that   *)
(* is Done, cancels the merged context if the reason is neither Canceled   *)
(* nor DeadlineExceeded (the only reasons a context gives), and exits.     *)
(***************************************************************************)
Reason(parent) == IF parent = "timeout" THEN "DeadlineExceeded" ELSE "Canceled"

CancelsOnAnyReason(reason) == TRUE

CancelsOn(reason) == reason \notin {"Canceled", "DeadlineExceeded"}

\* The client disconnects, or the two minutes pass, while the handler waits
\* for its video.
ParentEnds(r) ==
  /\ pc[r] \in {"enqueue", "count", "await"}
  /\ \E parent \in Parents \ ctx[r] :
       LET merged == {c \in {"merged"} : /\ Parents \cap ctx[r] = {}
                                        /\ CancelsOn(Reason(parent))}
       IN  ctx' = [ctx EXCEPT ![r] = @ \cup {parent} \cup merged]
  /\ UNCHANGED <<pc, kind, workerVars, running, done, ffmpeg, scanner,
                 progress, starting>>

\* MakeThumbnail's minute passes.
ThumbTimeout(r) ==
  /\ pc[r] \in {"thumbcount", "thumbawait"}
  /\ "thumb" \notin ctx[r]
  /\ ctx' = [ctx EXCEPT ![r] = @ \cup {"thumb"}]
  /\ UNCHANGED <<pc, kind, workerVars, running, done, ffmpeg, scanner,
                 progress, starting>>

-----------------------------------------------------------------------------
(***************************************************************************)
(* The worker loop and runFFmpegJob.                                       *)
(***************************************************************************)
Step(w, from, to) ==
  /\ wpc[w] = from
  /\ wpc' = [wpc EXCEPT ![w] = to]

JobReturns(w, from, res) ==
  /\ Step(w, from, "send")
  /\ wres' = [wres EXCEPT ![w] = res]
  /\ UNCHANGED wjob

\* Back at the top of the loop the worker blocks in its receive; HandOver
\* takes it from there.
Receive(w) ==
  /\ Step(w, "loop", "recv")
  /\ UNCHANGED <<handlerVars, wjob, wres, running, done, ffmpeg, scanner,
                 progress, starting>>

\* MakeFFmpegFlags fails: ffprobe found no duration.
FlagsFail(w) ==
  /\ JobReturns(w, "prepare", "err")
  /\ HasOpts(wjob[w])
  /\ UNCHANGED <<handlerVars, running, done, ffmpeg, scanner, progress,
                 starting>>

\* The stderr pipe is open and its scanner runs, before ffmpeg does.
Scan(w) ==
  /\ Step(w, "prepare", "start")
  /\ scanner' = [scanner EXCEPT ![wjob[w]] = "reading"]
  /\ UNCHANGED <<handlerVars, wjob, wres, running, done, ffmpeg, progress,
                 starting>>

\* The stderr pipe cannot be made: the error is ignored, and deferring Close on
\* the nil reader panics in a goroutine that recovers nothing.
NoStderrPipe(w) ==
  /\ wpc[w] = "prepare"
  /\ up' = FALSE
  /\ UNCHANGED <<handlerVars, workerVars, running, done, ffmpeg, scanner,
                 progress, starting>>

\* No stdout pipe, or cmd.Start fails (always, if the context is Done).
StartFails(w) ==
  /\ JobReturns(w, "start", "err")
  /\ UNCHANGED <<handlerVars, running, done, ffmpeg, scanner, progress,
                 starting>>

Start(w) ==
  /\ Step(w, "start", "copy")
  /\ ~CtxDone(wjob[w])
  /\ ffmpeg' = [ffmpeg EXCEPT ![wjob[w]] = "alive"]
  /\ UNCHANGED <<handlerVars, wjob, wres, running, done, scanner, progress,
                 starting>>

\* io.Copy fails to write: the client of a stream is gone, or the temporary
\* file cannot grow.  The job returns without waiting for ffmpeg.
CopyFails(w) ==
  /\ JobReturns(w, "copy", "err")
  /\ HasOpts(wjob[w])
  /\ JobKind(wjob[w]) = "stream" => "client" \in ctx[Request(wjob[w])]
  /\ UNCHANGED <<handlerVars, running, done, ffmpeg, scanner, progress,
                 starting>>

WaitIgnoringStatus(w) ==
  /\ JobReturns(w, "copy", "ok")
  /\ ffmpeg[wjob[w]] \in {"ok", "bad"}
  /\ UNCHANGED <<handlerVars, running, done, ffmpeg, scanner, progress,
                 starting>>

\* stdout is at its end and cmd.Wait gives ffmpeg's exit status.
Wait(w) ==
  /\ wpc[w] = "copy"
  /\ ffmpeg[wjob[w]] \in {"ok", "bad"}
  /\ JobReturns(w, "copy", IF ffmpeg[wjob[w]] = "ok" THEN "ok" ELSE "err")
  /\ UNCHANGED <<handlerVars, running, done, ffmpeg, scanner, progress,
                 starting>>

WorkerQuitsOnError(w) ==
  /\ Step(w, "send", IF wres[w] = "ok" THEN "dec" ELSE "quit")
  /\ done' = [done EXCEPT ![wjob[w]] = wres[w]]
  /\ UNCHANGED <<handlerVars, wjob, wres, running, ffmpeg, scanner, progress,
                 starting>>

ErrorNotSent(w) ==
  /\ Step(w, "send", "dec")
  /\ done' = [done EXCEPT ![wjob[w]] = IF wres[w] = "ok" THEN "ok" ELSE @]
  /\ UNCHANGED <<handlerVars, wjob, wres, running, ffmpeg, scanner, progress,
                 starting>>

\* job.Done <- err, on a channel with room for one, and close(job.Done).
SendDone(w) ==
  /\ Step(w, "send", "dec")
  /\ done' = [done EXCEPT ![wjob[w]] = wres[w]]
  /\ UNCHANGED <<handlerVars, wjob, wres, running, ffmpeg, scanner, progress,
                 starting>>

DecrementOnSuccess(w) ==
  /\ Step(w, "dec", "forget")
  /\ running' = IF wres[w] = "ok" THEN running - 1 ELSE running
  /\ UNCHANGED <<handlerVars, wjob, wres, done, ffmpeg, scanner, progress,
                 starting>>

\* q.running.Add(-1).
Decrement(w) ==
  /\ Step(w, "dec", "forget")
  /\ running' = running - 1
  /\ UNCHANGED <<handlerVars, wjob, wres, done, ffmpeg, scanner, progress,
                 starting>>

\* ProgressMap.Delete(job.UserID), whichever job the entry is about.
Forget(w) ==
  /\ Step(w, "forget", "loop")
  /\ progress' = [progress EXCEPT ![JobUser(wjob[w])] = "none"]
  /\ wjob' = [wjob EXCEPT ![w] = NoJob]
  /\ wres' = [wres EXCEPT ![w] = "ok"]
  /\ UNCHANGED <<handlerVars, running, done, ffmpeg, scanner, starting>>

-----------------------------------------------------------------------------
(***************************************************************************)
(* ffmpeg itself and the goroutine exec.CommandContext runs for it.        *)
(***************************************************************************)
FfmpegExits(j) ==
  /\ ffmpeg[j] = "alive"
  /\ \E status \in {"ok", "bad"} : ffmpeg' = [ffmpeg EXCEPT ![j] = status]
  /\ UNCHANGED <<handlerVars, workerVars, running, done, scanner, progress,
                 starting>>

Kill(j) ==
  /\ ffmpeg[j] = "alive"
  /\ CtxDone(j)
  /\ ffmpeg' = [ffmpeg EXCEPT ![j] = "bad"]
  /\ UNCHANGED <<handlerVars, workerVars, running, done, scanner, progress,
                 starting>>

-----------------------------------------------------------------------------
(***************************************************************************)
(* ProgressMap: the stderr scanner and FFMpegStart.                        *)
(***************************************************************************)
Holds(w, j, at) == wjob[w] = j /\ wpc[w] \in at

InRun(j) == \E w \in Workers : Holds(w, j, {"start", "copy"})

\* An out_time_ms line.
ScanProgress(j) ==
  /\ scanner[j] = "reading"
  /\ HasOpts(j)
  /\ ffmpeg[j] # "none"
  /\ progress' = [progress EXCEPT ![JobUser(j)] = "part"]
  /\ UNCHANGED <<handlerVars, workerVars, running, done, ffmpeg, scanner,
                 starting>>

ScanEndsSilently(j) ==
  /\ scanner[j] = "reading"
  /\ \/ ffmpeg[j] \in {"ok", "bad"}
     \/ ffmpeg[j] = "alive" /\ IsVideo(j)
     \/ ~InRun(j)
  /\ scanner' = [scanner EXCEPT ![j] = "gone"]
  /\ UNCHANGED <<handlerVars, workerVars, running, done, ffmpeg, progress,
                 starting>>

\* A progress=end line (or, from the flags FileUpload gives, one too long for
\* bufio.Scanner), or the end of the pipe: ffmpeg exited, or the job returned
\* and closed it.  Nothing orders this store with the worker's Delete.
ScanEnds(j) ==
  /\ scanner[j] = "reading"
  /\ \/ ffmpeg[j] \in {"ok", "bad"}
     \/ ffmpeg[j] = "alive" /\ IsVideo(j)
     \/ ~InRun(j)
  /\ scanner' = [scanner EXCEPT ![j] = "gone"]
  /\ progress' = [progress EXCEPT ![JobUser(j)] = "whole"]
  /\ UNCHANGED <<handlerVars, workerVars, running, done, ffmpeg, starting>>

\* FFMpegStart finds no entry (if it finds one it answers 403 and changes
\* nothing), and stores one in a second step.
StartLoad(u) ==
  /\ progress[u] = "none"
  /\ starting[u] < MaxStarts
  /\ starting' = [starting EXCEPT ![u] = @ + 1]
  /\ UNCHANGED <<handlerVars, workerVars, running, done, ffmpeg, scanner,
                 progress>>

StartStore(u) ==
  /\ starting[u] > 0
  /\ starting' = [starting EXCEPT ![u] = @ - 1]
  /\ progress' = [progress EXCEPT ![u] = "whole"]
  /\ UNCHANGED <<handlerVars, workerVars, running, done, ffmpeg, scanner>>

-----------------------------------------------------------------------------
HandlerStep(r) ==
  \/ EnqueueVideo(r) \/ RefuseVideo(r) \/ EnqueueThumb(r) \/ RefuseThumb(r)
  \/ Count(r) \/ AwaitVideo(r) \/ AwaitThumb(r) \/ Store(r)

WorkerStep(w) ==
  \/ Receive(w) \/ FlagsFail(w) \/ Scan(w) \/ StartFails(w) \/ Start(w)
  \/ CopyFails(w) \/ Wait(w) \/ SendDone(w) \/ Decrement(w) \/ Forget(w)

ServerStep ==
  \/ \E r \in Requests :
       Arrive(r) \/ HandlerStep(r) \/ ParentEnds(r) \/ ThumbTimeout(r)
  \/ \E w \in Workers : WorkerStep(w)
  \/ \E j \in Jobs :
       FfmpegExits(j) \/ Kill(j) \/ ScanProgress(j) \/ ScanEnds(j)
  \/ \E u \in Users : StartLoad(u) \/ StartStore(u)

\* A step of the process while it lives.
Alive(A) == up /\ A /\ UNCHANGED up

Next == Alive(ServerStep) \/ (up /\ \E w \in Workers : NoStderrPipe(w))

Spec == Init /\ [][Next]_vars

(***************************************************************************)
(* Every goroutine that can run is scheduled while the process lives, and  *)
(* the kill of a cancelled command is delivered.  Clients owe nothing, and *)
(* neither does ffmpeg: that encoders end by themselves is an assumption   *)
(* of the properties that need it, FfmpegsEnd.  That the process lives on  *)
(* is one of all of them.                                                  *)
(***************************************************************************)
GoroutinesRun ==
  /\ \A r \in Requests : WF_vars(Alive(HandlerStep(r)))
  /\ \A w \in Workers : WF_vars(Alive(WorkerStep(w)))
  /\ \A j \in Jobs : WF_vars(Alive(Kill(j))) /\ WF_vars(Alive(ScanEnds(j)))

LiveSpec == Spec /\ GoroutinesRun

FfmpegsEnd == []<>(\A j \in Jobs : ffmpeg[j] # "alive")

-----------------------------------------------------------------------------
TypeOK ==
  /\ pc \in [Requests -> HandlerPCs]
  /\ kind \in [Requests -> Kinds]
  /\ ctx \in [Requests -> SUBSET Contexts]
  /\ wpc \in [Workers -> WorkerPCs]
  /\ wjob \in [Workers -> Jobs \cup {NoJob}]
  /\ wres \in [Workers -> {"ok", "err"}]
  /\ running \in Int
  /\ done \in [Jobs -> {"open", "ok", "err"}]
  /\ ffmpeg \in [Jobs -> {"none", "alive", "ok", "bad"}]
  /\ scanner \in [Jobs -> {"none", "reading", "gone"}]
  /\ progress \in [Users -> {"none", "part", "whole"}]
  /\ starting \in [Users -> 0..MaxStarts]
  /\ up \in BOOLEAN

\* While a worker runs a job, the handler that owns its Output (the client's
\* response writer or a temporary file it removes on return) and its input
\* file has not returned.  The handlers that select on ctx.Done() rely for
\* this on the merged context staying open until they return.
OutputOutlivesJob ==
  \A w \in Workers :
    wpc[w] \in {"prepare", "start", "copy"} =>
      pc[Request(wjob[w])] \notin Answered

\* JobQueue.running counts the jobs workers hold, less the hand-overs whose
\* Enqueue has not counted them yet: no path counts a job twice or leaves one
\* counted, and the counter is 0 again whenever the pool is idle.
RunningCounts ==
  running = Cardinality({w \in Workers : wpc[w] \in
                            {"prepare", "start", "copy", "send", "dec"}})
            - Cardinality({r \in Requests : pc[r] \in {"count", "thumbcount"}})

\* A client is told 200 only when every ffmpeg its request needed ended with
\* status 0, whatever happened to clients, contexts and other jobs in the
\* meantime.  The one exception is a stream whose job failed after its first
\* bytes were out: its status could not be taken back.
SuccessIsFfmpegs ==
  \A r \in Requests : pc[r] \in {"replied", "cut"} =>
    \/ /\ ffmpeg[Video(r)] = "ok"
       /\ kind[r] # "stream" => ffmpeg[Thumb(r)] = "ok"
    \/ pc[r] = "cut" /\ kind[r] = "stream" /\ done[Video(r)] = "err"

\* A partial percentage in ProgressMap is about a scanner that is still
\* reading and will replace it: no user is left with the frozen figure of a
\* job that is over.
NoFrozenProgress ==
  \A u \in Users : progress[u] = "part" =>
    \E j \in Jobs : JobUser(j) = u /\ scanner[j] = "reading"

\* Every request that reaches the queue is answered, provided each ffmpeg
\* ends and the process lives.
EveryRequestAnswered ==
  FfmpegsEnd /\ []up =>
    \A r \in Requests : pc[r] = "enqueue" ~> pc[r] \in Answered

\* No job, failed ones included, costs the pool a worker, provided each ffmpeg
\* ends and the process lives.
WorkersComeBack ==
  FfmpegsEnd /\ []up => \A w \in Workers : []<>(wpc[w] = "recv")

\* An ffmpeg that its worker has left behind (the copy of its output failed)
\* is killed, even when it would never end by itself: the handler returns and
\* its deferred cancel ends the job's context.
StrayIsKilled ==
  []up => \A j \in Jobs :
    (ffmpeg[j] = "alive" /\ ~InRun(j)) ~> ffmpeg[j] # "alive"

-----------------------------------------------------------------------------
(***************************************************************************)
(* What the repository says of the queue and the code does not do.         *)
(***************************************************************************)

\* app/ffmpeg/process.go:138 and app/file/upload.go:155 answer "Request was
\* cancelled or timed out" when the two minutes pass.
TimedOutIsAnswered ==
  []up => \A r \in Requests : "timeout" \in ctx[r] ~> pc[r] \in Answered
=============================================================================
