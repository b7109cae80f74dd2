------------------------------ MODULE Uploader ------------------------------
(***************************************************************************)
(* One call of Uploader.Do (internal/service/upload.go): the thumbnail is  *)
(* made, then three goroutines store the thumbnail, store the video and    *)
(* measure it, and the caller collects their results.                      *)
(*                                                                         *)
(* uploadedKeys is shared by two of them and the caller without a lock:    *)
(* an append reads the slice's header and writes it back, and a read that  *)
(* meets a half-written header is a fault.                                 *)
(***************************************************************************)
EXTENDS Naturals, Sequences

VARIABLES
  main,          \* program counter of Do
  result,        \* what Do returned
  sub,           \* program counter of each goroutine
  wire,          \* parts whose PutObject is on its way to S3
  bucket,        \* each part's object in the bucket
  errors,        \* the channel of results, with room for three
  received,      \* results Do took from it
  uploadedKeys,  \* the shared slice, as a set
  seen,          \* the slice each goroutine read before it writes it back
  toDelete,      \* what is left of the cleanup loop
  cancelled      \* the context of the puts is Done

callerVars == <<main, result, received, toDelete, cancelled>>
vars == <<callerVars, sub, wire, bucket, errors, uploadedKeys, seen>>

\* The goroutines, by the names they log, and the part each one puts.
Uploads == {"upload_thumbnail", "upload_video"}
Subprocesses == Uploads \cup {"ffprobe_duration"}
Parts == {"video", "thumb"}
PartOf(g) == IF g = "upload_video" THEN "video" ELSE "thumb"

\* Without an override the key is a fresh one; with it, both objects are those
\* of the file that is edited.
Init ==
  /\ main = "open"
  /\ result = "none"
  /\ sub = [g \in Subprocesses |-> "none"]
  /\ wire = {}
  /\ \E old \in {"none", "old"} : bucket = [p \in Parts |-> old]
  /\ errors = <<>>
  /\ received = 0
  /\ uploadedKeys = {}
  /\ seen = [g \in Uploads |-> {}]
  /\ toDelete = {}
  /\ cancelled = FALSE

-----------------------------------------------------------------------------
(***************************************************************************)
(* The caller.                                                             *)
(***************************************************************************)
Return(answer) ==
  /\ main' = "returned"
  /\ result' = answer
  /\ cancelled' = TRUE
  /\ UNCHANGED <<received, toDelete>>

\* The video, the thumbnail job or the thumbnail's file fails.
PrepareFails ==
  /\ main = "open"
  /\ Return("err")
  /\ UNCHANGED <<sub, wire, bucket, errors, uploadedKeys, seen>>

\* Both files are open: the deadline starts and the goroutines run.
Spawn ==
  /\ main = "open"
  /\ main' = "receive"
  /\ sub' = [g \in Subprocesses |-> "call"]
  /\ wire' = Parts
  /\ UNCHANGED <<result, received, toDelete, cancelled, bucket, errors,
                 uploadedKeys, seen>>

ForgetsOne == 2

\* Do takes one result from each goroutine.
Results == 3

\* A nil; after the third Do waits for the goroutines.
TakeNil ==
  /\ main = "receive"
  /\ received < Results
  /\ errors # <<>> /\ Head(errors) = "nil"
  /\ errors' = Tail(errors)
  /\ received' = received + 1
  /\ UNCHANGED <<main, result, toDelete, cancelled, sub, wire, bucket,
                 uploadedKeys, seen>>

TakesError ==
  /\ main = "receive"
  /\ received < Results
  /\ errors # <<>> /\ Head(errors) = "err"
  /\ errors' = Tail(errors)
  /\ UNCHANGED <<sub, wire, bucket, uploadedKeys, seen>>

\* Do takes an error: it cancels the puts and reads the slice for the cleanup
\* loop.
TakeError ==
  /\ TakesError
  /\ cancelled' = TRUE
  /\ toDelete' = uploadedKeys
  /\ main' = "cleanup"
  /\ UNCHANGED <<result, received>>

\* The slice's header was half-written when Do read it: the handler panics, and
\* gin answers for it.
TornCleanup ==
  /\ TakesError
  /\ \E g \in Uploads : sub[g] = "append"
  /\ Return("err")

\* DeleteObject of one key; if it fails, the object stays.
Clean(p) ==
  /\ main = "cleanup"
  /\ p \in toDelete
  /\ toDelete' = toDelete \ {p}
  /\ bucket' \in {bucket, [bucket EXCEPT ![p] = "gone"]}
  /\ UNCHANGED <<main, result, received, cancelled, sub, wire, errors,
                 uploadedKeys, seen>>

\* Do returns the error at once: it does not wait for the goroutines.
Cleaned ==
  /\ main = "cleanup"
  /\ toDelete = {}
  /\ Return("err")
  /\ UNCHANGED <<sub, wire, bucket, errors, uploadedKeys, seen>>

\* wg.Wait, and the file entity.
Finish ==
  /\ main = "receive"
  /\ received = Results
  /\ \A g \in Subprocesses : sub[g] = "done"
  /\ Return("ok")
  /\ UNCHANGED <<sub, wire, bucket, errors, uploadedKeys, seen>>

NoDeadline == FALSE

\* The minute passes.
Deadline ==
  /\ main = "receive"
  /\ ~cancelled
  /\ cancelled' = TRUE
  /\ UNCHANGED <<main, result, received, toDelete, sub, wire, bucket, errors,
                 uploadedKeys, seen>>

-----------------------------------------------------------------------------
(***************************************************************************)
(* The goroutines.                                                         *)
(***************************************************************************)
Advance(g, from, to) ==
  /\ sub[g] = from
  /\ sub' = [sub EXCEPT ![g] = to]

\* S3 stores the object: while PutObject waits for it, or after PutObject gave
\* up on a request already sent.
PutTakesEffect(p) ==
  /\ p \in wire
  /\ wire' = wire \ {p}
  /\ bucket' = [bucket EXCEPT ![p] = "new"]
  /\ UNCHANGED <<callerVars, sub, errors, uploadedKeys, seen>>

CallSucceeds(g) ==
  /\ g \in Uploads => PartOf(g) \notin wire
  /\ Advance(g, "call", IF g \in Uploads THEN "read" ELSE "sendnil")
  /\ UNCHANGED <<callerVars, wire, bucket, errors, uploadedKeys, seen>>

\* The error may come before the request is on its way, or after.
CallFails(g) ==
  /\ Advance(g, "call", "senderr")
  /\ wire' \in {wire} \cup {wire \ {PartOf(k)} : k \in Uploads \cap {g}}
  /\ UNCHANGED <<callerVars, bucket, errors, uploadedKeys, seen>>

ReadKeys(g) ==
  /\ Advance(g, "read", "append")
  /\ seen' = [seen EXCEPT ![g] = uploadedKeys]
  /\ UNCHANGED <<callerVars, wire, bucket, errors, uploadedKeys>>

WriteKeys(g) ==
  /\ Advance(g, "append", "sendnil")
  /\ uploadedKeys' = seen[g] \cup {PartOf(g)}
  /\ UNCHANGED <<callerVars, wire, bucket, errors, seen>>

MissingReturn(g) ==
  \E r \in {"nil", "err"} :
    /\ Len(errors) < 3
    /\ IF r = "nil" THEN Advance(g, "sendnil", "done")
                    ELSE Advance(g, "senderr", "sendnil")
    /\ errors' = Append(errors, r)
    /\ UNCHANGED <<callerVars, wire, bucket, uploadedKeys, seen>>

RoomForOne(g) ==
  \E r \in {"nil", "err"} :
    /\ Len(errors) < 1
    /\ Advance(g, IF r = "nil" THEN "sendnil" ELSE "senderr", "done")
    /\ errors' = Append(errors, r)
    /\ UNCHANGED <<callerVars, wire, bucket, uploadedKeys, seen>>

\* errors <- r; then the deferred wg.Done.
Send(g) ==
  \E r \in {"nil", "err"} :
    /\ Len(errors) < 3
    /\ Advance(g, IF r = "nil" THEN "sendnil" ELSE "senderr", "done")
    /\ errors' = Append(errors, r)
    /\ UNCHANGED <<callerVars, wire, bucket, uploadedKeys, seen>>

\* append reads a header that the other goroutine has half-written: a fault
\* outside any handler, which ends the process.
TornAppend(g) ==
  /\ sub[g] = "read"
  /\ \E k \in Uploads \ {g} : sub[k] = "append"
  /\ main' = "crashed"
  /\ sub' = [k \in Subprocesses |-> "crashed"]
  /\ UNCHANGED <<result, received, toDelete, cancelled, wire, bucket, errors,
                 uploadedKeys, seen>>

-----------------------------------------------------------------------------
CallerStep ==
  \/ PrepareFails \/ Spawn \/ TakeNil \/ TakeError \/ TornCleanup
  \/ \E p \in Parts : Clean(p)
  \/ Cleaned \/ Finish

UploadStep(g) == ReadKeys(g) \/ WriteKeys(g) \/ TornAppend(g)

CallEnds(g) == CallSucceeds(g) \/ CallFails(g)

Next ==
  \/ CallerStep \/ Deadline
  \/ \E p \in Parts : PutTakesEffect(p)
  \/ \E g \in Subprocesses : CallEnds(g) \/ Send(g)
  \/ \E g \in Uploads : UploadStep(g)

Spec == Init /\ [][Next]_vars

(***************************************************************************)
(* Goroutines are scheduled, the deadline's timer fires, S3 answers a      *)
(* DeleteObject, and ffprobe ends within its own timeout.  A put owes an   *)
(* end only when its context is Done.                                      *)
(***************************************************************************)
FairSpec ==
  /\ Spec
  /\ WF_vars(CallerStep) /\ WF_vars(Deadline)
  /\ WF_vars(CallEnds("ffprobe_duration"))
  /\ \A g \in Subprocesses : WF_vars(Send(g))
  /\ \A g \in Uploads : WF_vars(UploadStep(g)) /\ WF_vars(cancelled /\ CallEnds(g))

-----------------------------------------------------------------------------
\* Types; and the channel is never asked to hold more than the three results
\* it has room for, one from each goroutine.
TypeOK ==
  /\ main \in {"open", "receive", "cleanup", "returned", "crashed"}
  /\ result \in {"none", "ok", "err"}
  /\ sub \in [Subprocesses -> {"none", "call", "read", "append", "sendnil",
                               "senderr", "done", "crashed"}]
  /\ wire \subseteq Parts
  /\ bucket \in [Parts -> {"none", "old", "new", "gone"}]
  /\ errors \in Seq({"nil", "err"}) /\ received + Len(errors) <= 3
  /\ received \in 0..3
  /\ uploadedKeys \subseteq Parts
  /\ seen \in [Uploads -> SUBSET Parts]
  /\ toDelete \subseteq Parts
  /\ cancelled \in BOOLEAN

\* Do implements what UploadPromise states, although its goroutines race for
\* uploadedKeys and outlive it when one of them fails.
Promise == INSTANCE UploadPromise WITH Parts <- Parts, bucket <- bucket, result <- result
KeepsPromise == Promise!Spec

\* Do returns, however long S3 keeps a put waiting.
DoReturns == <>(main \in {"returned", "crashed"})

\* No goroutine is left behind for ever: each one finds room for its result
\* after Do has stopped listening.
GoroutinesEnd ==
  \A g \in Subprocesses : sub[g] = "call" ~> sub[g] \in {"done", "crashed"}

-----------------------------------------------------------------------------
\* internal/service/upload.go:33: "Providing an override value will instead
\* update an existing file."  An update that fails removes no object of the
\* file it was to update.
FailedUpdateKeepsFile ==
  (\A p \in Parts : bucket[p] = "old") =>
    [](result = "err" => \A p \in Parts : bucket[p] # "gone")
=============================================================================
