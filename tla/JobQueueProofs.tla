--------------------------- MODULE JobQueueProofs ---------------------------
(***************************************************************************)
(* What holds of the job queue for every pool, every set of requests and   *)
(* every bound: types, the progress map, the life of a job's output, the   *)
(* meaning of a success, and the count of running jobs.                    *)
(***************************************************************************)
EXTENDS JobQueue, FiniteSetTheorems, TLAPS

USE JobQueueAssumption

HandlerAction(r) == Arrive(r) \/ HandlerStep(r) \/ ParentEnds(r) \/ ThumbTimeout(r)

FfmpegAction(j) ==
  FfmpegExits(j) \/ Kill(j) \/ ScanProgress(j) \/ ScanEnds(j)

UserAction(u) == StartLoad(u) \/ StartStore(u)

\* Everything but whether the process lives.
serverVars ==
  <<handlerVars, workerVars, running, done, ffmpeg, scanner, progress, starting>>

LEMMA InitTypeOK == Init => TypeOK
  BY DEF Init, TypeOK, HandlerPCs, Answered, WorkerPCs, Contexts, Jobs

LEMMA HandlerTypeOK ==
  ASSUME TypeOK, up' \in BOOLEAN, NEW r \in Requests, HandlerAction(r)
  PROVE  TypeOK'
<1> USE DEF TypeOK, HandlerPCs, Answered, Contexts, GoTo, handlerVars,
            workerVars
<1>1. CASE Arrive(r)
  BY <1>1 DEF Arrive
<1>2. CASE EnqueueVideo(r)
  BY <1>2 DEF EnqueueVideo, HandOver, WorkerPCs, Video, Jobs
<1>3. CASE RefuseVideo(r)
  BY <1>3 DEF RefuseVideo, Return
<1>4. CASE EnqueueThumb(r)
  BY <1>4 DEF EnqueueThumb, HandOver, WorkerPCs, Thumb, Jobs
<1>5. CASE RefuseThumb(r)
  BY <1>5 DEF RefuseThumb, Return
<1>6. CASE Count(r)
  BY <1>6 DEF Count
<1>7. CASE AwaitVideo(r)
  BY <1>7 DEF AwaitVideo, Told, Return, Proceed
<1>8. CASE AwaitThumb(r)
  BY <1>8 DEF AwaitThumb, Return, Proceed
<1>9. CASE Store(r)
  BY <1>9 DEF Store, Return
<1>10. CASE ParentEnds(r)
  BY <1>10 DEF ParentEnds
<1>11. CASE ThumbTimeout(r)
  BY <1>11 DEF ThumbTimeout
<1> QED BY <1>1, <1>2, <1>3, <1>4, <1>5, <1>6, <1>7, <1>8, <1>9, <1>10, <1>11
     DEF HandlerAction, HandlerStep

LEMMA WorkerTypeOK ==
  ASSUME TypeOK, up' \in BOOLEAN, NEW w \in Workers, WorkerStep(w)
  PROVE  TypeOK'
<1> USE DEF TypeOK, WorkerPCs, Step, JobReturns, handlerVars
<1>1. CASE Receive(w)
  BY <1>1 DEF Receive
<1>2. CASE FlagsFail(w)
  BY <1>2 DEF FlagsFail
<1>3. CASE Scan(w)
  BY <1>3 DEF Scan
<1>4. CASE StartFails(w)
  BY <1>4 DEF StartFails
<1>5. CASE Start(w)
  BY <1>5 DEF Start
<1>6. CASE CopyFails(w)
  BY <1>6 DEF CopyFails
<1>7. CASE Wait(w)
  BY <1>7 DEF Wait
<1>8. CASE SendDone(w)
  BY <1>8 DEF SendDone
<1>9. CASE Decrement(w)
  BY <1>9 DEF Decrement
<1>10. CASE Forget(w)
  BY <1>10 DEF Forget
<1> QED BY <1>1, <1>2, <1>3, <1>4, <1>5, <1>6, <1>7, <1>8, <1>9, <1>10
     DEF WorkerStep

LEMMA FfmpegTypeOK ==
  ASSUME TypeOK, up' \in BOOLEAN, NEW j \in Jobs, FfmpegAction(j)
  PROVE  TypeOK'
<1> USE DEF TypeOK, handlerVars, workerVars
<1>1. CASE FfmpegExits(j)
  BY <1>1 DEF FfmpegExits
<1>2. CASE Kill(j)
  BY <1>2 DEF Kill
<1>3. CASE ScanProgress(j)
  BY <1>3 DEF ScanProgress
<1>4. CASE ScanEnds(j)
  BY <1>4 DEF ScanEnds
<1> QED BY <1>1, <1>2, <1>3, <1>4 DEF FfmpegAction

LEMMA UserTypeOK ==
  ASSUME TypeOK, up' \in BOOLEAN, NEW u \in Users, UserAction(u)
  PROVE  TypeOK'
<1> USE DEF TypeOK, handlerVars, workerVars
<1>1. CASE StartLoad(u)
  BY <1>1 DEF StartLoad
<1>2. CASE StartStore(u)
  BY <1>2 DEF StartStore
<1> QED BY <1>1, <1>2 DEF UserAction

\* A step is one of a request, of a worker, of a job's process or scanner, or
\* of FFMpegStart; or it leaves everything but the process as it was.
LEMMA NextCases ==
  ASSUME [Next]_vars
  PROVE  \/ \E r \in Requests : HandlerAction(r)
         \/ \E w \in Workers : WorkerStep(w)
         \/ \E j \in Jobs : FfmpegAction(j)
         \/ \E u \in Users : UserAction(u)
         \/ UNCHANGED serverVars
<1>1. CASE UNCHANGED vars
  BY <1>1 DEF vars, serverVars
<1>2. CASE Alive(ServerStep)
  BY <1>2 DEF Alive, ServerStep, HandlerAction, FfmpegAction, UserAction
<1>3. CASE \E w \in Workers : NoStderrPipe(w)
  BY <1>3 DEF NoStderrPipe, serverVars
<1> QED BY <1>1, <1>2, <1>3 DEF Next

LEMMA UpIsBoolean ==
  ASSUME TypeOK, [Next]_vars
  PROVE  up' \in BOOLEAN
  BY DEF TypeOK, Next, Alive, NoStderrPipe, vars

\* Every variable keeps its type.
THEOREM TypeCorrect == Spec => []TypeOK
<1>1. TypeOK /\ [Next]_vars => TypeOK'
  <2> SUFFICES ASSUME TypeOK, [Next]_vars PROVE TypeOK'
    OBVIOUS
  <2>1. up' \in BOOLEAN
    BY UpIsBoolean
  <2>2. CASE UNCHANGED serverVars
    BY <2>1, <2>2 DEF serverVars, handlerVars, workerVars, TypeOK
  <2> QED BY <2>1, <2>2, NextCases, HandlerTypeOK, WorkerTypeOK, FfmpegTypeOK,
             UserTypeOK
<1> QED BY <1>1, InitTypeOK, PTL DEF Spec

-----------------------------------------------------------------------------
(***************************************************************************)
(* The hand-over.  OutputOutlivesJob is not inductive: a handler returns   *)
(* when its job's Done channel has an answer, so the invariant has to say  *)
(* whose channels have one, which needs a job to be in one worker's hands  *)
(* at most, and the merged context to stay open.                           *)
(***************************************************************************)
Working == {"prepare", "start", "copy", "send"}

WaitsFor(j) ==
  pc[Request(j)] \in IF IsVideo(j) THEN {"count", "await"}
                            ELSE {"thumbcount", "thumbawait"}

\* Not handed over yet.
Fresh(j) ==
  pc[Request(j)] \in IF IsVideo(j) THEN {"idle", "enqueue"}
                 ELSE {"idle", "enqueue", "count", "await", "thumb"}

MergedStaysOpen ==
  \A r \in Requests : "merged" \in ctx[r] => pc[r] \in Answered

WorkedOnIsAwaited ==
  \A w \in Workers : wpc[w] \in Working =>
    /\ wjob[w] \in Jobs
    /\ WaitsFor(wjob[w])
    /\ done[wjob[w]] = "open"

OneWorkerPerJob ==
  \A v, w \in Workers :
    v # w /\ wpc[v] \in Working /\ wpc[w] \in Working => wjob[v] # wjob[w]

FreshIsUntouched ==
  \A j \in Jobs : Fresh(j) => done[j] = "open" /\ ffmpeg[j] = "none"

HandOverInv ==
  /\ TypeOK
  /\ MergedStaysOpen
  /\ WorkedOnIsAwaited
  /\ OneWorkerPerJob
  /\ FreshIsUntouched

-----------------------------------------------------------------------------
LEMMA RequestOfJob == \A j \in Jobs : Request(j) \in Requests
  BY DEF Jobs, Request

LEMMA JobsOfRequest ==
  \A r \in Requests :
    /\ Video(r) \in Jobs /\ Request(Video(r)) = r /\ IsVideo(Video(r))
    /\ Thumb(r) \in Jobs /\ Request(Thumb(r)) = r /\ ~IsVideo(Thumb(r))
  BY DEF Jobs, Video, Thumb, IsVideo, Request

LEMMA JobForms ==
  \A j \in Jobs : /\ IsVideo(j) => j = Video(Request(j))
                 /\ ~IsVideo(j) => j = Thumb(Request(j))
  BY DEF Jobs, Video, Thumb, IsVideo, Request

LEMMA InitHandOver == Init => HandOverInv
<1> SUFFICES ASSUME Init PROVE HandOverInv
  OBVIOUS
<1>1. TypeOK
  BY InitTypeOK
<1>2. MergedStaysOpen
  BY DEF Init, MergedStaysOpen
<1>3. WorkedOnIsAwaited /\ OneWorkerPerJob
  BY DEF Init, WorkedOnIsAwaited, OneWorkerPerJob, Working
<1>4. FreshIsUntouched
  BY DEF Init, FreshIsUntouched
<1> QED BY <1>1, <1>2, <1>3, <1>4 DEF HandOverInv

\* A hand-over of a fresh job to a worker that receives.
LEMMA HandOverKeeps ==
  ASSUME HandOverInv, TypeOK', NEW r \in Requests, NEW j \in Jobs, Request(j) = r,
         HandOver(j), Fresh(j), WaitsFor(j)',
         \/ IsVideo(j) /\ pc[r] = "enqueue" /\ GoTo(r, "count")
         \/ ~IsVideo(j) /\ pc[r] = "thumb" /\ GoTo(r, "thumbcount"),
         UNCHANGED <<ctx, done, ffmpeg>>
  PROVE  HandOverInv'
<1> USE DEF HandOverInv
<1>1. PICK w \in Workers :
        /\ wpc[w] = "recv"
        /\ wpc' = [wpc EXCEPT ![w] = "prepare"]
        /\ wjob' = [wjob EXCEPT ![w] = j]
  BY DEF HandOver
<1>2. done[j] = "open"
  BY DEF FreshIsUntouched
<1>3. \A v \in Workers : wpc[v] \in Working => wjob[v] # j
  BY RequestOfJob DEF WorkedOnIsAwaited, WaitsFor, Fresh
<1>4. MergedStaysOpen'
  BY DEF MergedStaysOpen, GoTo, TypeOK, Answered
<1>5. WorkedOnIsAwaited'
  <2> SUFFICES ASSUME NEW v \in Workers, wpc'[v] \in Working
               PROVE  /\ wjob'[v] \in Jobs
                      /\ WaitsFor(wjob[v])'
                      /\ done'[wjob'[v]] = "open"
    BY DEF WorkedOnIsAwaited, WaitsFor
  <2>1. CASE v = w
    BY <1>1, <1>2, <2>1 DEF TypeOK, WaitsFor
  <2>2. CASE v # w
    <3>1. wpc[v] \in Working /\ wjob'[v] = wjob[v]
      BY <1>1, <2>2 DEF TypeOK
    <3>2. WaitsFor(wjob[v]) /\ wjob[v] \in Jobs /\ done[wjob[v]] = "open"
      BY <3>1 DEF WorkedOnIsAwaited
    <3>3. Request(wjob[v]) # r
      BY <3>2, RequestOfJob DEF WaitsFor
    <3>4. pc'[Request(wjob[v])] = pc[Request(wjob[v])]
      <4>1. Request(wjob[v]) \in Requests
        BY <3>2, RequestOfJob
      <4>2. pc' \in [Requests -> HandlerPCs] /\ pc \in [Requests -> HandlerPCs]
        BY DEF TypeOK
      <4>3. pc' = [pc EXCEPT ![r] = "count"] \/ pc' = [pc EXCEPT ![r] = "thumbcount"]
        BY DEF GoTo
      <4> QED BY <3>3, <4>1, <4>2, <4>3
    <3>5. WaitsFor(wjob[v])'
      BY <3>1, <3>2, <3>4 DEF WaitsFor
    <3> QED BY <3>1, <3>2, <3>5
  <2> QED BY <2>1, <2>2
<1>6. OneWorkerPerJob'
  BY <1>1, <1>3 DEF OneWorkerPerJob, TypeOK, Working
<1>7. FreshIsUntouched'
  <2> SUFFICES ASSUME NEW k \in Jobs, Fresh(k)' PROVE Fresh(k)
    BY DEF FreshIsUntouched
  <2> QED BY RequestOfJob DEF Fresh, GoTo, TypeOK
<1> QED BY <1>4, <1>5, <1>6, <1>7

\* A handler moves while no worker works for it, and to a place where no job
\* it has handed over counts as fresh.
LEMMA HandlerMoveKeeps ==
  ASSUME HandOverInv, TypeOK', NEW r \in Requests,
         \A w \in Workers : wpc[w] \in Working => Request(wjob[w]) # r,
         \A k \in Requests \ {r} : pc'[k] = pc[k] /\ ctx'[k] = ctx[k],
         "merged" \in ctx'[r] => pc'[r] \in Answered,
         \A j \in Jobs : Request(j) = r /\ Fresh(j)' => Fresh(j),
         UNCHANGED <<workerVars, done, ffmpeg>>
  PROVE  HandOverInv'
<1> USE DEF HandOverInv, workerVars
<1>1. MergedStaysOpen'
  BY DEF MergedStaysOpen
<1>2. WorkedOnIsAwaited'
  BY RequestOfJob DEF WorkedOnIsAwaited, WaitsFor
<1>3. OneWorkerPerJob'
  BY DEF OneWorkerPerJob
<1>4. FreshIsUntouched'
  <2> SUFFICES ASSUME NEW j \in Jobs, Fresh(j)' PROVE Fresh(j)
    BY DEF FreshIsUntouched
  <2>1. CASE Request(j) = r
    BY <2>1
  <2>2. CASE Request(j) # r
    BY <2>2, RequestOfJob DEF Fresh
  <2> QED BY <2>1, <2>2
<1> QED BY <1>1, <1>2, <1>3, <1>4

\* A context ends, and the handler stays where it is.
LEMMA ContextKeeps ==
  ASSUME HandOverInv, TypeOK', MergedStaysOpen',
         UNCHANGED <<pc, workerVars, done, ffmpeg>>
  PROVE  HandOverInv'
  BY DEF HandOverInv, workerVars, WorkedOnIsAwaited, WaitsFor, OneWorkerPerJob,
         FreshIsUntouched, Fresh

\* A worker moves on, takes no job and answers none.
LEMMA WorkerMoveKeeps ==
  ASSUME HandOverInv, TypeOK', NEW w \in Workers,
         \A v \in Workers \ {w} : wpc'[v] = wpc[v] /\ wjob'[v] = wjob[v],
         wpc'[w] \in Working => wpc[w] \in Working /\ wjob'[w] = wjob[w],
         \A j \in Jobs : Fresh(j) => ffmpeg'[j] = ffmpeg[j],
         UNCHANGED <<pc, ctx, done>>
  PROVE  HandOverInv'
<1> USE DEF HandOverInv
<1>1. MergedStaysOpen'
  BY DEF MergedStaysOpen
<1>2. WorkedOnIsAwaited'
  BY DEF WorkedOnIsAwaited, WaitsFor
<1>3. OneWorkerPerJob'
  BY DEF OneWorkerPerJob
<1>4. FreshIsUntouched'
  BY DEF FreshIsUntouched, Fresh
<1> QED BY <1>1, <1>2, <1>3, <1>4

LEMMA AwaitedIsNotFresh ==
  \A j \in Jobs : ~(WaitsFor(j) /\ Fresh(j))
  BY DEF WaitsFor, Fresh

LEMMA NobodyWorksFor ==
  ASSUME HandOverInv, NEW r \in Requests,
         pc[r] \notin {"count", "await", "thumbcount", "thumbawait"}
  PROVE  \A w \in Workers : wpc[w] \in Working => Request(wjob[w]) # r
  BY DEF HandOverInv, WorkedOnIsAwaited, WaitsFor

LEMMA HandlerHandOver ==
  ASSUME HandOverInv, TypeOK', NEW r \in Requests, HandlerAction(r)
  PROVE  HandOverInv'
<1> USE DEF Answered
<1>0. TypeOK /\ pc \in [Requests -> HandlerPCs]
  BY DEF HandOverInv, TypeOK
<1>1. CASE Arrive(r)
  <2>1. \A j \in Jobs : Request(j) = r /\ Fresh(j)' => Fresh(j)
    BY <1>1 DEF Arrive, Fresh
  <2> QED BY <1>0, <1>1, <2>1, NobodyWorksFor, HandlerMoveKeeps
          DEF Arrive, GoTo, HandOverInv, MergedStaysOpen
<1>2. CASE EnqueueVideo(r)
  <2>1. Fresh(Video(r)) /\ WaitsFor(Video(r))'
    BY <1>0, <1>2, JobsOfRequest DEF EnqueueVideo, GoTo, Fresh, WaitsFor
  <2> QED BY <1>2, <2>1, JobsOfRequest, HandOverKeeps DEF EnqueueVideo
<1>3. CASE EnqueueThumb(r)
  <2>1. Fresh(Thumb(r)) /\ WaitsFor(Thumb(r))'
    BY <1>0, <1>3, JobsOfRequest DEF EnqueueThumb, GoTo, Fresh, WaitsFor
  <2> QED BY <1>3, <2>1, JobsOfRequest, HandOverKeeps DEF EnqueueThumb
<1>4. CASE Count(r)
  <2>1. MergedStaysOpen'
    BY <1>0, <1>4 DEF HandOverInv, MergedStaysOpen, Count, GoTo
  <2>2. WorkedOnIsAwaited'
    <3> SUFFICES ASSUME NEW j \in Jobs, WaitsFor(j) PROVE WaitsFor(j)'
      BY <1>4 DEF HandOverInv, WorkedOnIsAwaited, Count, workerVars, WaitsFor
    <3> QED BY <1>0, <1>4, RequestOfJob DEF Count, GoTo, WaitsFor
  <2>3. OneWorkerPerJob'
    BY <1>4 DEF HandOverInv, OneWorkerPerJob, Count, workerVars
  <2>4. FreshIsUntouched'
    <3> SUFFICES ASSUME NEW j \in Jobs, Fresh(j)' PROVE Fresh(j)
      BY <1>4 DEF HandOverInv, FreshIsUntouched, Count
    <3> QED BY <1>0, <1>4, RequestOfJob DEF Count, GoTo, Fresh
  <2> QED BY <2>1, <2>2, <2>3, <2>4 DEF HandOverInv
<1>5. CASE AwaitVideo(r)
  <2>1. done[Video(r)] # "open"
    BY <1>5 DEF AwaitVideo, VideoCases, JobAnswer, HandOverInv, MergedStaysOpen
  <2>2. \A w \in Workers : wpc[w] \in Working => Request(wjob[w]) # r
    <3> SUFFICES ASSUME NEW w \in Workers, wpc[w] \in Working,
                        Request(wjob[w]) = r
                 PROVE  FALSE
      OBVIOUS
    <3>1. wjob[w] \in Jobs /\ WaitsFor(wjob[w]) /\ done[wjob[w]] = "open"
      BY DEF HandOverInv, WorkedOnIsAwaited
    <3>2. IsVideo(wjob[w])
      BY <1>5, <3>1 DEF AwaitVideo, WaitsFor
    <3>3. wjob[w] = Video(Request(wjob[w]))
      BY <3>1, <3>2 DEF Jobs, IsVideo, Video, Request
    <3> QED BY <2>1, <3>1, <3>3
  <2>3. \A j \in Jobs : Request(j) = r /\ Fresh(j)' => Fresh(j)
    BY <1>0, <1>5 DEF AwaitVideo, Told, Return, Proceed, GoTo, Fresh
  <2> QED BY <1>0, <1>5, <2>2, <2>3, HandlerMoveKeeps
          DEF AwaitVideo, Told, Return, Proceed, GoTo, HandOverInv,
              MergedStaysOpen, TypeOK
<1>6. CASE AwaitThumb(r)
  <2>1. done[Thumb(r)] # "open"
    BY <1>6 DEF AwaitThumb, JobAnswer
  <2>2. \A w \in Workers : wpc[w] \in Working => Request(wjob[w]) # r
    <3> SUFFICES ASSUME NEW w \in Workers, wpc[w] \in Working,
                        Request(wjob[w]) = r
                 PROVE  FALSE
      OBVIOUS
    <3>1. wjob[w] \in Jobs /\ WaitsFor(wjob[w]) /\ done[wjob[w]] = "open"
      BY DEF HandOverInv, WorkedOnIsAwaited
    <3>2. ~IsVideo(wjob[w])
      BY <1>6, <3>1 DEF AwaitThumb, WaitsFor
    <3>3. wjob[w] = Thumb(Request(wjob[w]))
      BY <3>1, <3>2, JobForms
    <3> QED BY <2>1, <3>1, <3>3
  <2>3. \A j \in Jobs : Request(j) = r /\ Fresh(j)' => Fresh(j)
    BY <1>0, <1>6 DEF AwaitThumb, Return, Proceed, GoTo, Fresh
  <2> QED BY <1>0, <1>6, <2>2, <2>3, HandlerMoveKeeps
          DEF AwaitThumb, Return, Proceed, GoTo, HandOverInv, MergedStaysOpen,
              TypeOK
<1>7. CASE RefuseVideo(r) \/ RefuseThumb(r) \/ Store(r)
  <2>1. \A j \in Jobs : Request(j) = r /\ Fresh(j)' => Fresh(j)
    BY <1>0, <1>7 DEF RefuseVideo, RefuseThumb, Store, Return, GoTo, Fresh
  <2>2. \A w \in Workers : wpc[w] \in Working => Request(wjob[w]) # r
    BY <1>7, NobodyWorksFor DEF RefuseVideo, RefuseThumb, Store
  <2>3. /\ \A k \in Requests \ {r} : pc'[k] = pc[k] /\ ctx'[k] = ctx[k]
        /\ pc'[r] \in Answered
        /\ UNCHANGED <<workerVars, done, ffmpeg>>
    BY <1>0, <1>7
       DEF RefuseVideo, RefuseThumb, Store, Return, GoTo, TypeOK
  <2> QED BY <2>1, <2>2, <2>3, HandlerMoveKeeps
<1>8. CASE ParentEnds(r) \/ ThumbTimeout(r)
  <2>1. MergedStaysOpen'
    BY <1>0, <1>8 DEF ParentEnds, ThumbTimeout, CancelsOn, Reason, HandOverInv,
                      MergedStaysOpen, TypeOK
  <2> QED BY <1>8, <2>1, ContextKeeps DEF ParentEnds, ThumbTimeout
<1> QED BY <1>1, <1>2, <1>3, <1>4, <1>5, <1>6, <1>7, <1>8
        DEF HandlerAction, HandlerStep

LEMMA WorkerHandOver ==
  ASSUME HandOverInv, TypeOK', NEW w \in Workers, WorkerStep(w)
  PROVE  HandOverInv'
<1>0. wpc \in [Workers -> WorkerPCs] /\ wjob \in [Workers -> Jobs \cup {NoJob}]
  BY DEF HandOverInv, TypeOK
<1>1. CASE Receive(w) \/ FlagsFail(w) \/ Scan(w) \/ StartFails(w)
           \/ CopyFails(w) \/ Wait(w) \/ Decrement(w) \/ Forget(w)
  BY <1>0, <1>1, WorkerMoveKeeps
     DEF Receive, FlagsFail, Scan, StartFails, CopyFails, Wait, Decrement,
         Forget, Step, JobReturns, handlerVars, Working
<1>2. CASE Start(w)
  <2>1. ~Fresh(wjob[w])
    BY <1>2, AwaitedIsNotFresh
       DEF Start, Step, HandOverInv, WorkedOnIsAwaited, Working
  <2>2. \A j \in Jobs : Fresh(j) => ffmpeg'[j] = ffmpeg[j]
    BY <1>2, <2>1 DEF Start, HandOverInv, TypeOK
  <2> QED BY <1>0, <1>2, <2>2, WorkerMoveKeeps
          DEF Start, Step, handlerVars, Working
<1>3. CASE SendDone(w)
  <2> USE <1>3 DEF HandOverInv, SendDone, Step, handlerVars
  <2>1. ~Fresh(wjob[w])
    BY AwaitedIsNotFresh DEF WorkedOnIsAwaited, Working
  <2>2. MergedStaysOpen'
    BY DEF MergedStaysOpen
  <2>3. WorkedOnIsAwaited'
    BY <1>0 DEF WorkedOnIsAwaited, OneWorkerPerJob, WaitsFor, Working, TypeOK
  <2>4. OneWorkerPerJob'
    BY <1>0 DEF OneWorkerPerJob, Working
  <2>5. FreshIsUntouched'
    BY <2>1 DEF FreshIsUntouched, Fresh, TypeOK
  <2> QED BY <2>2, <2>3, <2>4, <2>5
<1> QED BY <1>1, <1>2, <1>3 DEF WorkerStep

LEMMA FfmpegHandOver ==
  ASSUME HandOverInv, TypeOK', NEW j \in Jobs, FfmpegAction(j)
  PROVE  HandOverInv'
<1> USE DEF HandOverInv, handlerVars, workerVars
<1>1. UNCHANGED <<pc, ctx, workerVars, done>>
  BY DEF FfmpegAction, FfmpegExits, Kill, ScanProgress, ScanEnds
<1>2. MergedStaysOpen' /\ WorkedOnIsAwaited' /\ OneWorkerPerJob'
  BY <1>1 DEF MergedStaysOpen, WorkedOnIsAwaited, WaitsFor, OneWorkerPerJob
<1>3. FreshIsUntouched'
  BY <1>1 DEF FfmpegAction, FfmpegExits, Kill, ScanProgress, ScanEnds,
              FreshIsUntouched, Fresh, TypeOK
<1> QED BY <1>2, <1>3

\* A job is in one worker's hands at most, its handler waits for it, and the
\* jobs not handed over are untouched.
THEOREM HandOverCorrect == Spec => []HandOverInv
<1>1. HandOverInv /\ [Next]_vars => HandOverInv'
  <2> SUFFICES ASSUME HandOverInv, [Next]_vars PROVE HandOverInv'
    OBVIOUS
  <2>0. TypeOK /\ up' \in BOOLEAN
    BY UpIsBoolean DEF HandOverInv
  <2>1. CASE UNCHANGED serverVars
    BY <2>0, <2>1 DEF serverVars, handlerVars, workerVars, HandOverInv, TypeOK,
                MergedStaysOpen, WorkedOnIsAwaited, WaitsFor, OneWorkerPerJob,
                FreshIsUntouched, Fresh
  <2>2. CASE \E r \in Requests : HandlerAction(r)
    BY <2>0, <2>2, HandlerTypeOK, HandlerHandOver
  <2>3. CASE \E w \in Workers : WorkerStep(w)
    BY <2>0, <2>3, WorkerTypeOK, WorkerHandOver
  <2>4. CASE \E j \in Jobs : FfmpegAction(j)
    BY <2>0, <2>4, FfmpegTypeOK, FfmpegHandOver
  <2>5. CASE \E u \in Users : UserAction(u)
    <3>1. UNCHANGED <<handlerVars, workerVars, done, ffmpeg>>
      BY <2>5 DEF UserAction, StartLoad, StartStore
    <3>2. MergedStaysOpen'
      BY <3>1 DEF HandOverInv, MergedStaysOpen, handlerVars
    <3> QED BY <2>0, <2>5, <3>1, <3>2, UserTypeOK, ContextKeeps DEF handlerVars
  <2> QED BY <2>1, <2>2, <2>3, <2>4, <2>5, NextCases
<1> QED BY <1>1, InitHandOver, PTL DEF Spec

\* While a worker runs a job, the handler that owns its output and its input
\* files has not returned.
THEOREM OutputSafe == Spec => []OutputOutlivesJob
<1>1. HandOverInv => OutputOutlivesJob
  BY RequestOfJob DEF HandOverInv, WorkedOnIsAwaited, OutputOutlivesJob, Working,
                      WaitsFor, Answered
<1> QED BY <1>1, HandOverCorrect, PTL

-----------------------------------------------------------------------------
(***************************************************************************)
(* A success.  The status of an ffmpeg travels through the worker's local  *)
(* result and the Done channel to the handler; each hop carries the truth  *)
(* only because a job is in one worker's hands and its process is started  *)
(* once.                                                                   *)
(***************************************************************************)
StartedOnce ==
  \A w \in Workers : wpc[w] \in {"prepare", "start"} => ffmpeg[wjob[w]] = "none"

ResultIsTrue ==
  \A w \in Workers :
    wpc[w] = "send" /\ wres[w] = "ok" => ffmpeg[wjob[w]] = "ok"

AnswerIsTrue == \A j \in Jobs : done[j] = "ok" => ffmpeg[j] = "ok"

VideoAnswered ==
  \A r \in Requests :
    pc[r] \in {"thumb", "thumbcount", "thumbawait", "storing", "replied"} =>
      done[Video(r)] = "ok"

ThumbAnswered ==
  \A r \in Requests :
    pc[r] = "storing" \/ (pc[r] = "replied" /\ kind[r] # "stream") =>
      done[Thumb(r)] = "ok"

CutFailed ==
  \A r \in Requests :
    pc[r] = "cut" => kind[r] = "stream" /\ done[Video(r)] = "err"

SuccessInv ==
  /\ StartedOnce
  /\ ResultIsTrue
  /\ AnswerIsTrue
  /\ VideoAnswered
  /\ ThumbAnswered
  /\ CutFailed

LEMMA InitSuccess == Init => SuccessInv
  BY JobsOfRequest
     DEF Init, SuccessInv, StartedOnce, ResultIsTrue, AnswerIsTrue, VideoAnswered,
         ThumbAnswered, CutFailed

\* Steps that leave the workers, the processes and the channels alone: only
\* the three claims about handlers are at stake.
LEMMA HandlersOnly ==
  ASSUME SuccessInv, UNCHANGED <<workerVars, done, ffmpeg>>,
         VideoAnswered', ThumbAnswered', CutFailed'
  PROVE  SuccessInv'
  BY DEF SuccessInv, StartedOnce, ResultIsTrue, AnswerIsTrue, workerVars

LEMMA HandlerSuccess ==
  ASSUME HandOverInv, SuccessInv, NEW r \in Requests, HandlerAction(r)
  PROVE  SuccessInv'
<1> USE DEF SuccessInv
<1>0. pc \in [Requests -> HandlerPCs]
  BY DEF HandOverInv, TypeOK
<1>1. CASE EnqueueVideo(r) \/ EnqueueThumb(r)
  <2>1. PICK j \in Jobs : HandOver(j) /\ Fresh(j)
    BY <1>1, JobsOfRequest DEF EnqueueVideo, EnqueueThumb, Fresh
  <2>2. ffmpeg[j] = "none"
    BY <2>1 DEF HandOverInv, FreshIsUntouched
  <2>3. UNCHANGED <<kind, done, ffmpeg>>
    BY <1>1 DEF EnqueueVideo, EnqueueThumb
  <2>4. StartedOnce' /\ ResultIsTrue'
    BY <2>1, <2>2, <2>3
       DEF HandOver, StartedOnce, ResultIsTrue, HandOverInv, TypeOK
  <2>5. VideoAnswered' /\ ThumbAnswered' /\ CutFailed'
    BY <1>0, <1>1, <2>3
       DEF EnqueueVideo, EnqueueThumb, GoTo, VideoAnswered, ThumbAnswered, CutFailed
  <2> QED BY <2>3, <2>4, <2>5 DEF AnswerIsTrue
<1>2. CASE AwaitVideo(r)
  <2>1. pc'[r] \in {"thumb", "replied"} => done[Video(r)] = "ok"
    BY <1>0, <1>2
       DEF AwaitVideo, VideoCases, JobAnswer, Told, Return, Proceed, GoTo
  <2>2. pc'[r] = "replied" => kind[r] = "stream"
    BY <1>0, <1>2 DEF AwaitVideo, Told, Return, Proceed, GoTo
  <2>3. pc'[r] \in {"thumb", "replied", "cut", "failed", "timedout"}
    BY <1>0, <1>2 DEF AwaitVideo, Told, Return, Proceed, GoTo
  <2>4. \A k \in Requests \ {r} : pc'[k] = pc[k]
    BY <1>0, <1>2 DEF AwaitVideo, Return, Proceed, GoTo
  <2>5. UNCHANGED <<kind, workerVars, done, ffmpeg>>
    BY <1>2 DEF AwaitVideo
  <2>6. VideoAnswered'
    BY <2>1, <2>3, <2>4, <2>5 DEF VideoAnswered
  <2>7. ThumbAnswered'
    BY <2>2, <2>3, <2>4, <2>5 DEF ThumbAnswered
  <2>8. CutFailed'
    <3>1. pc[r] \notin Answered
      BY <1>2 DEF AwaitVideo, Answered
    <3>2. "timedout" \notin VideoCases(r)
      BY <3>1, JobsOfRequest
         DEF VideoCases, JobAnswer, HandOverInv, MergedStaysOpen, TypeOK
    <3>3. pc'[r] = "cut" => kind[r] = "stream" /\ done[Video(r)] = "err"
      BY <1>0, <1>2, <3>2
         DEF AwaitVideo, VideoCases, JobAnswer, Told, Return, Proceed, GoTo
    <3> QED BY <2>4, <2>5, <3>3 DEF CutFailed
  <2> QED BY <2>5, <2>6, <2>7, <2>8, HandlersOnly
<1>3. CASE AwaitThumb(r)
  <2>1. pc'[r] = "storing" => done[Thumb(r)] = "ok"
    BY <1>0, <1>3 DEF AwaitThumb, JobAnswer, Return, Proceed, GoTo
  <2>2. pc'[r] \in {"storing", "failed"}
    BY <1>0, <1>3 DEF AwaitThumb, Return, Proceed, GoTo
  <2>3. \A k \in Requests \ {r} : pc'[k] = pc[k]
    BY <1>0, <1>3 DEF AwaitThumb, Return, Proceed, GoTo
  <2>4. UNCHANGED <<kind, workerVars, done, ffmpeg>>
    BY <1>3 DEF AwaitThumb
  <2>5. VideoAnswered'
    BY <1>3, <2>2, <2>3, <2>4 DEF AwaitThumb, VideoAnswered
  <2>6. ThumbAnswered'
    BY <2>1, <2>2, <2>3, <2>4 DEF ThumbAnswered
  <2>7. CutFailed'
    BY <2>2, <2>3, <2>4 DEF CutFailed
  <2> QED BY <2>4, <2>5, <2>6, <2>7, HandlersOnly
<1>4. CASE Store(r)
  <2>1. (pc[r] = "storing" /\ pc'[r] = "replied") \/ pc'[r] = "failed"
    BY <1>0, <1>4 DEF Store, Return, GoTo
  <2>2. \A k \in Requests \ {r} : pc'[k] = pc[k]
    BY <1>0, <1>4 DEF Store, Return, GoTo
  <2>3. UNCHANGED <<kind, workerVars, done, ffmpeg>>
    BY <1>4 DEF Store
  <2>4. VideoAnswered' /\ ThumbAnswered' /\ CutFailed'
    BY <2>1, <2>2, <2>3 DEF VideoAnswered, ThumbAnswered, CutFailed
  <2> QED BY <2>3, <2>4, HandlersOnly
<1>5. CASE Arrive(r) \/ RefuseVideo(r) \/ RefuseThumb(r) \/ Count(r)
           \/ ParentEnds(r) \/ ThumbTimeout(r)
  <2>1. UNCHANGED <<kind, workerVars, done, ffmpeg>>
    BY <1>5 DEF Arrive, RefuseVideo, RefuseThumb, Count, ParentEnds, ThumbTimeout
  <2>2. VideoAnswered' /\ ThumbAnswered' /\ CutFailed'
    BY <1>0, <1>5, <2>1
       DEF Arrive, RefuseVideo, RefuseThumb, Count, ParentEnds, ThumbTimeout,
           Return, GoTo, VideoAnswered, ThumbAnswered, CutFailed
  <2> QED BY <2>1, <2>2, HandlersOnly
<1> QED BY <1>1, <1>2, <1>3, <1>4, <1>5 DEF HandlerAction, HandlerStep

LEMMA WorkerSuccess ==
  ASSUME HandOverInv, SuccessInv, NEW w \in Workers, WorkerStep(w)
  PROVE  SuccessInv'
<1> USE DEF SuccessInv, handlerVars
<1>0. /\ wpc \in [Workers -> WorkerPCs]
      /\ wjob \in [Workers -> Jobs \cup {NoJob}]
      /\ wres \in [Workers -> {"ok", "err"}]
  BY DEF HandOverInv, TypeOK
<1>1. CASE Start(w)
  <2>1. /\ wjob[w] \in Jobs /\ ffmpeg[wjob[w]] = "none"
        /\ \A v \in Workers \ {w} : wpc[v] \in Working => wjob[v] # wjob[w]
    BY <1>1 DEF Start, Step, StartedOnce, HandOverInv, WorkedOnIsAwaited,
                OneWorkerPerJob, Working
  <2>2. \A j \in Jobs \ {wjob[w]} : ffmpeg'[j] = ffmpeg[j]
    BY <1>1 DEF Start, HandOverInv, TypeOK
  <2>3. wpc' = [wpc EXCEPT ![w] = "copy"] /\ UNCHANGED <<pc, kind, wjob, wres, done>>
    BY <1>1 DEF Start, Step
  <2>4. AnswerIsTrue'
    BY <2>1, <2>2, <2>3 DEF AnswerIsTrue
  <2>5. StartedOnce' /\ ResultIsTrue'
    BY <1>0, <2>1, <2>2, <2>3
       DEF StartedOnce, ResultIsTrue, HandOverInv, WorkedOnIsAwaited, Working
  <2>6. VideoAnswered' /\ ThumbAnswered' /\ CutFailed'
    BY <2>3 DEF VideoAnswered, ThumbAnswered, CutFailed
  <2> QED BY <2>4, <2>5, <2>6
<1>2. CASE SendDone(w)
  <2>1. done[wjob[w]] = "open"
    BY <1>2 DEF SendDone, Step, HandOverInv, WorkedOnIsAwaited, Working
  <2>2. \A j \in Jobs : done[j] # "open" => done'[j] = done[j]
    BY <1>2, <2>1 DEF SendDone, HandOverInv, TypeOK
  <2>3. UNCHANGED <<pc, kind, wjob, wres, ffmpeg>>
    BY <1>2 DEF SendDone
  <2>4. AnswerIsTrue'
    BY <1>2, <2>3 DEF SendDone, Step, AnswerIsTrue, ResultIsTrue, HandOverInv, TypeOK
  <2>5. StartedOnce' /\ ResultIsTrue'
    BY <1>0, <1>2, <2>3 DEF SendDone, Step, StartedOnce, ResultIsTrue
  <2>6. VideoAnswered' /\ ThumbAnswered' /\ CutFailed'
    BY <2>2, <2>3, JobsOfRequest DEF VideoAnswered, ThumbAnswered, CutFailed
  <2> QED BY <2>4, <2>5, <2>6
<1>3. CASE FlagsFail(w) \/ StartFails(w) \/ CopyFails(w) \/ Wait(w)
  <2>1. /\ wpc' = [wpc EXCEPT ![w] = "send"]
        /\ wres' = [wres EXCEPT ![w] = wres'[w]]
        /\ wres'[w] = "ok" => ffmpeg[wjob[w]] = "ok"
    BY <1>0, <1>3 DEF FlagsFail, StartFails, CopyFails, Wait, JobReturns, Step
  <2>2. UNCHANGED <<pc, kind, wjob, done, ffmpeg>>
    BY <1>3 DEF FlagsFail, StartFails, CopyFails, Wait, JobReturns
  <2>3. StartedOnce' /\ ResultIsTrue'
    BY <1>0, <2>1, <2>2 DEF StartedOnce, ResultIsTrue
  <2>4. AnswerIsTrue' /\ VideoAnswered' /\ ThumbAnswered' /\ CutFailed'
    BY <2>2 DEF AnswerIsTrue, VideoAnswered, ThumbAnswered, CutFailed
  <2> QED BY <2>3, <2>4
<1>4. CASE Receive(w) \/ Scan(w) \/ Decrement(w) \/ Forget(w)
  <2>1. StartedOnce' /\ ResultIsTrue'
    BY <1>0, <1>4
       DEF Receive, Scan, Decrement, Forget, Step, StartedOnce, ResultIsTrue
  <2>2. AnswerIsTrue' /\ VideoAnswered' /\ ThumbAnswered' /\ CutFailed'
    BY <1>4 DEF Receive, Scan, Decrement, Forget, AnswerIsTrue, VideoAnswered,
                ThumbAnswered, CutFailed
  <2> QED BY <2>1, <2>2
<1> QED BY <1>1, <1>2, <1>3, <1>4 DEF WorkerStep

LEMMA FfmpegSuccess ==
  ASSUME HandOverInv, SuccessInv, NEW j \in Jobs, FfmpegAction(j)
  PROVE  SuccessInv'
<1>1. UNCHANGED <<pc, kind, workerVars, done>>
  BY DEF FfmpegAction, FfmpegExits, Kill, ScanProgress, ScanEnds, handlerVars
<1>2. \A k \in Jobs : ffmpeg[k] \in {"none", "ok"} => ffmpeg'[k] = ffmpeg[k]
  BY DEF FfmpegAction, FfmpegExits, Kill, ScanProgress, ScanEnds, HandOverInv,
         TypeOK
<1>3. \A w \in Workers : wpc[w] \in Working => wjob[w] \in Jobs
  BY DEF HandOverInv, WorkedOnIsAwaited
<1>4. StartedOnce' /\ ResultIsTrue'
  BY <1>1, <1>2, <1>3
     DEF SuccessInv, StartedOnce, ResultIsTrue, workerVars, Working
<1>5. AnswerIsTrue'
  BY <1>1, <1>2 DEF SuccessInv, AnswerIsTrue
<1>6. VideoAnswered' /\ ThumbAnswered' /\ CutFailed'
  BY <1>1 DEF SuccessInv, VideoAnswered, ThumbAnswered, CutFailed
<1> QED BY <1>4, <1>5, <1>6 DEF SuccessInv

\* A request is answered with status 200 only when every ffmpeg it needed ended
\* with status 0, but for a stream whose job failed after its first bytes.
THEOREM SuccessTrue == Spec => []SuccessIsFfmpegs
<1>1. HandOverInv /\ SuccessInv /\ [Next]_vars => SuccessInv'
  <2> SUFFICES ASSUME HandOverInv, SuccessInv, [Next]_vars PROVE SuccessInv'
    OBVIOUS
  <2>1. CASE UNCHANGED serverVars
    BY <2>1 DEF serverVars, handlerVars, workerVars, SuccessInv, StartedOnce,
                ResultIsTrue, AnswerIsTrue, VideoAnswered, ThumbAnswered,
                CutFailed
  <2>2. CASE \E u \in Users : UserAction(u)
    BY <2>2 DEF UserAction, StartLoad, StartStore, handlerVars, workerVars,
                SuccessInv, StartedOnce, ResultIsTrue, AnswerIsTrue,
                VideoAnswered, ThumbAnswered, CutFailed
  <2> QED BY <2>1, <2>2, NextCases, HandlerSuccess, WorkerSuccess, FfmpegSuccess
<1>2. SuccessInv => SuccessIsFfmpegs
  BY JobsOfRequest
     DEF SuccessInv, AnswerIsTrue, VideoAnswered, ThumbAnswered, CutFailed,
         SuccessIsFfmpegs
<1> QED BY <1>1, <1>2, InitSuccess, HandOverCorrect, PTL DEF Spec

-----------------------------------------------------------------------------
(***************************************************************************)
(* The progress map.                                                       *)
(***************************************************************************)

\* No user is left with the partial percentage of a scanner that is gone.
THEOREM ProgressNeverFrozen == Spec => []NoFrozenProgress
<1>1. Init => NoFrozenProgress
  BY DEF Init, NoFrozenProgress
<1>2. TypeOK /\ NoFrozenProgress /\ [Next]_vars => NoFrozenProgress'
  <2> SUFFICES ASSUME TypeOK, NoFrozenProgress, [Next]_vars,
                      NEW u \in Users, progress'[u] = "part"
               PROVE  \E k \in Jobs : JobUser(k) = u /\ scanner'[k] = "reading"
    BY DEF NoFrozenProgress, JobUser
  <2> USE DEF TypeOK, NoFrozenProgress
  <2>1. CASE UNCHANGED <<progress, scanner>>
    BY <2>1
  <2>2. CASE \E w \in Workers : Scan(w)
    <3>1. PICK w \in Workers : Scan(w)
      BY <2>2
    <3>2. progress[u] = "part"
      BY <3>1 DEF Scan
    <3>3. PICK k \in Jobs : JobUser(k) = u /\ scanner[k] = "reading"
      BY <3>2
    <3> QED BY <3>1, <3>3 DEF Scan
  <2>3. CASE \E w \in Workers : Forget(w)
    BY <2>3 DEF Forget
  <2>4. CASE \E j \in Jobs : ScanProgress(j)
    BY <2>4 DEF ScanProgress
  <2>5. CASE \E j \in Jobs : ScanEnds(j)
    <3>1. PICK j \in Jobs : ScanEnds(j)
      BY <2>5
    <3>2. JobUser(j) # u /\ progress[u] = "part"
      BY <3>1 DEF ScanEnds
    <3>3. PICK k \in Jobs : JobUser(k) = u /\ scanner[k] = "reading"
      BY <3>2
    <3> QED BY <3>1, <3>2, <3>3 DEF ScanEnds
  <2>6. CASE \E v \in Users : StartStore(v)
    BY <2>6 DEF StartStore
  <2>7. CASE \E r \in Requests : HandlerAction(r)
    BY <2>1, <2>7
       DEF HandlerAction, HandlerStep, Arrive, EnqueueVideo, RefuseVideo,
           EnqueueThumb, RefuseThumb, Count, AwaitVideo, AwaitThumb, Store,
           ParentEnds, ThumbTimeout
  <2>8. CASE \E w \in Workers : WorkerStep(w) /\ ~Scan(w) /\ ~Forget(w)
    BY <2>1, <2>8
       DEF WorkerStep, Receive, FlagsFail, StartFails, Start, CopyFails, Wait,
           SendDone, Decrement
  <2>9. CASE \E j \in Jobs : FfmpegExits(j) \/ Kill(j)
    BY <2>1, <2>9 DEF FfmpegExits, Kill
  <2>10. CASE \E v \in Users : StartLoad(v)
    BY <2>1, <2>10 DEF StartLoad
  <2>11. CASE UNCHANGED serverVars
    BY <2>1, <2>11 DEF serverVars
  <2> QED BY <2>2, <2>3, <2>4, <2>5, <2>6, <2>7, <2>8, <2>9, <2>10, <2>11,
             NextCases DEF FfmpegAction, UserAction
<1> QED BY <1>1, <1>2, TypeCorrect, PTL DEF Spec

-----------------------------------------------------------------------------
(***************************************************************************)
(* The counter of running jobs.                                            *)
(***************************************************************************)
Counted == {"prepare", "start", "copy", "send", "dec"}

Holders == {w \in Workers : wpc[w] \in Counted}

Uncounted == {r \in Requests : pc[r] \in {"count", "thumbcount"}}

LEMMA CountsAreFinite ==
  /\ IsFiniteSet(Holders) /\ IsFiniteSet(Uncounted)
  /\ Cardinality(Holders) \in Nat /\ Cardinality(Uncounted) \in Nat
<1>1. Holders \subseteq Workers /\ Uncounted \subseteq Requests
  BY DEF Holders, Uncounted
<1>2. IsFiniteSet(Holders) /\ IsFiniteSet(Uncounted)
  BY <1>1, FS_Subset, JobQueueAssumption
<1> QED BY <1>2, FS_CardinalityType

\* JobQueue.running counts the jobs held, less those not counted yet.
THEOREM RunningCorrect == Spec => []RunningCounts
<1> USE DEF Counted
<1>0. RunningCounts <=> running = Cardinality(Holders) - Cardinality(Uncounted)
  BY DEF RunningCounts, Holders, Uncounted
<1>1. Init => RunningCounts
  <2> SUFFICES ASSUME Init PROVE RunningCounts
    OBVIOUS
  <2>1. Holders = {} /\ Uncounted = {}
    BY DEF Init, Holders, Uncounted
  <2> QED BY <1>0, <2>1, FS_EmptySet DEF Init
<1>2. TypeOK /\ RunningCounts /\ [Next]_vars => RunningCounts'
  <2> SUFFICES ASSUME TypeOK, RunningCounts, [Next]_vars
               PROVE  running' = Cardinality(Holders') - Cardinality(Uncounted')
    BY DEF RunningCounts, Holders, Uncounted
  <2>0. /\ running = Cardinality(Holders) - Cardinality(Uncounted)
        /\ pc \in [Requests -> HandlerPCs] /\ wpc \in [Workers -> WorkerPCs]
        /\ running \in Int
    BY <1>0 DEF TypeOK
  <2>1. CASE UNCHANGED <<running, Holders, Uncounted>>
    BY <2>0, <2>1
  <2>2. ASSUME NEW r \in Requests, EnqueueVideo(r) \/ EnqueueThumb(r)
        PROVE  running' = Cardinality(Holders') - Cardinality(Uncounted')
    <3>1. PICK w \in Workers : wpc[w] = "recv" /\ wpc' = [wpc EXCEPT ![w] = "prepare"]
      BY <2>2 DEF EnqueueVideo, EnqueueThumb, HandOver
    <3>2. Holders' = Holders \cup {w} /\ w \notin Holders
      BY <2>0, <3>1 DEF Holders
    <3>3. Uncounted' = Uncounted \cup {r} /\ r \notin Uncounted
      BY <2>0, <2>2 DEF EnqueueVideo, EnqueueThumb, GoTo, Uncounted
    <3>4. /\ Cardinality(Holders') = Cardinality(Holders) + 1
          /\ Cardinality(Uncounted') = Cardinality(Uncounted) + 1
      BY <3>2, <3>3, CountsAreFinite, FS_AddElement
    <3>5. running' = running
      BY <2>2 DEF EnqueueVideo, EnqueueThumb
    <3> QED BY <2>0, <3>4, <3>5, CountsAreFinite
  <2>3. ASSUME NEW r \in Requests, Count(r)
        PROVE  running' = Cardinality(Holders') - Cardinality(Uncounted')
    <3>1. Holders' = Holders
      BY <2>3 DEF Count, workerVars, Holders
    <3>2. Uncounted' = Uncounted \ {r} /\ r \in Uncounted
      BY <2>0, <2>3 DEF Count, GoTo, Uncounted
    <3>3. Cardinality(Uncounted') = Cardinality(Uncounted) - 1
      BY <3>2, CountsAreFinite, FS_RemoveElement
    <3>4. running' = running + 1
      BY <2>3 DEF Count
    <3> QED BY <2>0, <3>1, <3>3, <3>4, CountsAreFinite
  <2>4. ASSUME NEW w \in Workers, Decrement(w)
        PROVE  running' = Cardinality(Holders') - Cardinality(Uncounted')
    <3>1. Holders' = Holders \ {w} /\ w \in Holders
      BY <2>0, <2>4 DEF Decrement, Step, Holders
    <3>2. Uncounted' = Uncounted
      BY <2>4 DEF Decrement, handlerVars, Uncounted
    <3>3. Cardinality(Holders') = Cardinality(Holders) - 1
      BY <3>1, CountsAreFinite, FS_RemoveElement
    <3>4. running' = running - 1
      BY <2>4 DEF Decrement
    <3> QED BY <2>0, <3>2, <3>3, <3>4, CountsAreFinite
  <2>5. ASSUME NEW r \in Requests, HandlerAction(r),
               ~EnqueueVideo(r), ~EnqueueThumb(r), ~Count(r)
        PROVE  UNCHANGED <<running, Holders, Uncounted>>
    <3>1. UNCHANGED <<running, wpc>>
      BY <2>5 DEF HandlerAction, HandlerStep, Arrive, RefuseVideo, RefuseThumb,
                  AwaitVideo, AwaitThumb, Store, ParentEnds, ThumbTimeout,
                  workerVars
    <3>2. /\ \A k \in Requests \ {r} : pc'[k] = pc[k]
          /\ pc'[r] = pc[r] \/ (/\ pc[r] \notin {"count", "thumbcount"}
                                /\ pc'[r] \notin {"count", "thumbcount"})
      BY <2>0, <2>5
         DEF HandlerAction, HandlerStep, Arrive, RefuseVideo, RefuseThumb,
             AwaitVideo, Told, AwaitThumb, Store, ParentEnds, ThumbTimeout, Return,
             Proceed, GoTo
    <3> QED BY <3>1, <3>2 DEF Holders, Uncounted
  <2>6. ASSUME NEW w \in Workers, WorkerStep(w), ~Decrement(w)
        PROVE  UNCHANGED <<running, Holders, Uncounted>>
    <3>1. UNCHANGED <<running, pc>>
      BY <2>6 DEF WorkerStep, Receive, FlagsFail, Scan, StartFails, Start,
                  CopyFails, Wait, SendDone, Forget, handlerVars
    <3>2. /\ \A v \in Workers \ {w} : wpc'[v] = wpc[v]
          /\ wpc[w] \in Counted <=> wpc'[w] \in Counted
      BY <2>0, <2>6
         DEF WorkerStep, Receive, FlagsFail, Scan, StartFails, Start, CopyFails,
             Wait, SendDone, Forget, JobReturns, Step
    <3> QED BY <3>1, <3>2 DEF Holders, Uncounted
  <2>7. ASSUME \/ \E j \in Jobs : FfmpegAction(j)
               \/ \E u \in Users : UserAction(u)
               \/ UNCHANGED serverVars
        PROVE  UNCHANGED <<running, Holders, Uncounted>>
    <3>1. UNCHANGED <<running, pc, wpc>>
      BY <2>7 DEF FfmpegAction, FfmpegExits, Kill, ScanProgress, ScanEnds,
                  UserAction, StartLoad, StartStore, serverVars, handlerVars,
                  workerVars
    <3> QED BY <3>1 DEF Holders, Uncounted
  <2> QED BY <2>1, <2>2, <2>3, <2>4, <2>5, <2>6, <2>7, NextCases
<1> QED BY <1>1, <1>2, TypeCorrect, PTL DEF Spec
=============================================================================
