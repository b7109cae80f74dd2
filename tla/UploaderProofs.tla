--------------------------- MODULE UploaderProofs ---------------------------
(***************************************************************************)
(* Proofs about Uploader: type correctness, and that Do implements what    *)
(* UploadPromise states.                                                   *)
(***************************************************************************)
EXTENDS Uploader, TLAPS

\* A goroutine's share of the results that were sent.
Sent(g) == IF sub[g] = "done" THEN 1 ELSE 0

\* Do has not taken more results than were sent, one by each goroutine.
ResultsCount ==
  main # "crashed" =>
    received + Len(errors) <=
      Sent("upload_thumbnail") + Sent("upload_video") + Sent("ffprobe_duration")

\* The object of p is stored, until the cleanup loop may delete it.
Was(p) == p \notin wire /\ (main = "receive" => bucket[p] = "new")

\* What is on its way was not stored before; what the goroutines and the slice
\* say is stored is.
StoredIsStored ==
  /\ \A p \in Parts :
       /\ p \in wire => bucket[p] \in {"none", "old"}
       /\ main = "open" => bucket[p] \in {"none", "old"}
       /\ p \in uploadedKeys => Was(p)
       /\ \A g \in Uploads : p \in seen[g] => Was(p)
  /\ \A g \in Uploads :
       /\ sub[g] \in {"read", "append", "sendnil"} => Was(PartOf(g))
       /\ sub[g] = "call" /\ main = "receive" =>
            PartOf(g) \in wire \/ bucket[PartOf(g)] = "new"

\* While Do receives, a part that is not stored means an error in the channel.
FailuresAreTold ==
  main = "receive" =>
    \A g \in Uploads :
      sub[g] = "done" /\ bucket[PartOf(g)] # "new" =>
        \E i \in 1..Len(errors) : errors[i] = "err"

\* Before it returns Do has no result, the cleanup loop deletes what is stored,
\* and success means that all of it is.
ResultIsTrue ==
  /\ main \notin {"returned", "crashed"} => result = "none"
  /\ main = "open" => /\ wire = {} /\ uploadedKeys = {}
                      /\ \A g \in Uploads : seen[g] = {}
                      /\ \A g \in Subprocesses : sub[g] = "none"
  /\ main = "crashed" => \A g \in Subprocesses : sub[g] = "crashed"
  /\ main = "cleanup" => \A p \in toDelete : bucket[p] = "new"
  /\ result = "ok" => \A p \in Parts : bucket[p] = "new"

DoInv ==
  TypeOK /\ ResultsCount /\ StoredIsStored /\ FailuresAreTold /\ ResultIsTrue

-----------------------------------------------------------------------------

\* Every step keeps the types, and sends no more results than there is room for.
LEMMA NextTypeOK == DoInv /\ [Next]_vars => TypeOK'
<1> SUFFICES ASSUME DoInv, [Next]_vars PROVE TypeOK'
  OBVIOUS
<1> USE DEF DoInv, TypeOK, Uploads, Subprocesses, Parts
<1>1. CASE UNCHANGED vars
  BY <1>1 DEF vars, callerVars
<1>2. ASSUME PrepareFails PROVE TypeOK'
  BY <1>2 DEF PrepareFails, Return, callerVars
<1>3. ASSUME Spawn PROVE TypeOK'
  BY <1>3 DEF Spawn, callerVars
<1>4. ASSUME TakeNil PROVE TypeOK'
  BY <1>4 DEF TakeNil, Results, callerVars
<1>5. ASSUME TakeError PROVE TypeOK'
  BY <1>5 DEF TakeError, TakesError, callerVars
<1>6. ASSUME TornCleanup PROVE TypeOK'
  BY <1>6 DEF TornCleanup, TakesError, Return, callerVars
<1>7. ASSUME NEW p \in Parts, Clean(p) PROVE TypeOK'
  BY <1>7 DEF Clean, callerVars
<1>8. ASSUME Cleaned PROVE TypeOK'
  BY <1>8 DEF Cleaned, Return, callerVars
<1>9. ASSUME Finish PROVE TypeOK'
  BY <1>9 DEF Finish, Return, Results, callerVars
<1>10. ASSUME Deadline PROVE TypeOK'
  BY <1>10 DEF Deadline, callerVars
<1>11. ASSUME NEW p \in Parts, PutTakesEffect(p) PROVE TypeOK'
  BY <1>11 DEF PutTakesEffect, callerVars
<1>12. ASSUME NEW g \in Subprocesses, CallSucceeds(g) PROVE TypeOK'
  BY <1>12 DEF CallSucceeds, Advance, callerVars
<1>13. ASSUME NEW g \in Subprocesses, CallFails(g) PROVE TypeOK'
  BY <1>13 DEF CallFails, Advance, callerVars
<1>14. ASSUME NEW g \in Uploads, ReadKeys(g) PROVE TypeOK'
  BY <1>14 DEF ReadKeys, Advance, callerVars
<1>15. ASSUME NEW g \in Uploads, WriteKeys(g) PROVE TypeOK'
  BY <1>15 DEF WriteKeys, PartOf, Advance, callerVars
<1>16. ASSUME NEW g \in Subprocesses, Send(g) PROVE TypeOK'
  <2>1. PICK r \in {"nil", "err"} :
          /\ Advance(g, IF r = "nil" THEN "sendnil" ELSE "senderr", "done")
          /\ errors' = Append(errors, r)
          /\ UNCHANGED <<callerVars, wire, bucket, uploadedKeys, seen>>
    BY <1>16 DEF Send
  <2>2. main # "crashed"
    BY <2>1 DEF ResultIsTrue, Advance
  <2>3. received + Len(errors) + 1 <= 3
    BY <2>1, <2>2 DEF ResultsCount, Sent, Advance
  <2>4. errors' \in Seq({"nil", "err"}) /\ Len(errors') = Len(errors) + 1
    BY <2>1
  <2> QED
    BY <2>1, <2>3, <2>4 DEF Advance, callerVars
<1>17. ASSUME NEW g \in Uploads, TornAppend(g) PROVE TypeOK'
  BY <1>17 DEF TornAppend, callerVars
<1> QED
  BY <1>1, <1>2, <1>3, <1>4, <1>5, <1>6, <1>7, <1>8, <1>9, <1>10, <1>11, <1>12, <1>13, <1>14, <1>15, <1>16, <1>17
     DEF Next, CallerStep, UploadStep, CallEnds

\* Each goroutine sends one result.
LEMMA KeepsCount == DoInv /\ [Next]_vars => ResultsCount'
<1> SUFFICES ASSUME DoInv, [Next]_vars PROVE ResultsCount'
  OBVIOUS
<1> USE DEF DoInv, TypeOK, ResultsCount, Sent, Subprocesses, Uploads
<1>1. CASE UNCHANGED vars
  BY <1>1 DEF vars, callerVars
<1>2. ASSUME PrepareFails PROVE ResultsCount'
  BY <1>2 DEF PrepareFails, Return, callerVars
<1>3. ASSUME Spawn PROVE ResultsCount'
  BY <1>3 DEF Spawn, ResultIsTrue, callerVars
<1>4. ASSUME TakeNil PROVE ResultsCount'
  BY <1>4 DEF TakeNil, Results, callerVars
<1>5. ASSUME TakeError PROVE ResultsCount'
  BY <1>5 DEF TakeError, TakesError, callerVars
<1>6. ASSUME TornCleanup PROVE ResultsCount'
  BY <1>6 DEF TornCleanup, TakesError, Return, callerVars
<1>7. ASSUME NEW p \in Parts, Clean(p) PROVE ResultsCount'
  BY <1>7 DEF Clean, callerVars
<1>8. ASSUME Cleaned PROVE ResultsCount'
  BY <1>8 DEF Cleaned, Return, callerVars
<1>9. ASSUME Finish PROVE ResultsCount'
  BY <1>9 DEF Finish, Return, Results, callerVars
<1>10. ASSUME Deadline PROVE ResultsCount'
  BY <1>10 DEF Deadline, callerVars
<1>11. ASSUME NEW p \in Parts, PutTakesEffect(p) PROVE ResultsCount'
  BY <1>11 DEF PutTakesEffect, callerVars
<1>12. ASSUME NEW g \in Subprocesses, CallSucceeds(g) PROVE ResultsCount'
  BY <1>12 DEF CallSucceeds, Advance, callerVars
<1>13. ASSUME NEW g \in Subprocesses, CallFails(g) PROVE ResultsCount'
  BY <1>13 DEF CallFails, Advance, callerVars
<1>14. ASSUME NEW g \in Uploads, ReadKeys(g) PROVE ResultsCount'
  BY <1>14 DEF ReadKeys, Advance, callerVars
<1>15. ASSUME NEW g \in Uploads, WriteKeys(g) PROVE ResultsCount'
  BY <1>15 DEF WriteKeys, Advance, callerVars
<1>16. ASSUME NEW g \in Subprocesses, Send(g) PROVE ResultsCount'
  BY <1>16 DEF Send, Advance, callerVars
<1>17. ASSUME NEW g \in Uploads, TornAppend(g) PROVE ResultsCount'
  BY <1>17 DEF TornAppend, callerVars
<1> QED
  BY <1>1, <1>2, <1>3, <1>4, <1>5, <1>6, <1>7, <1>8, <1>9, <1>10, <1>11, <1>12, <1>13, <1>14, <1>15, <1>16, <1>17
     DEF Next, CallerStep, UploadStep, CallEnds

\* What is said to be stored is stored, however late it is said.
LEMMA KeepsStored == DoInv /\ [Next]_vars => StoredIsStored'
<1> SUFFICES ASSUME DoInv, [Next]_vars PROVE StoredIsStored'
  OBVIOUS
<1> USE DEF DoInv, TypeOK, StoredIsStored, Was, PartOf, Uploads, Subprocesses, Parts
<1>1. CASE UNCHANGED vars
  BY <1>1 DEF vars, callerVars
<1>2. ASSUME PrepareFails PROVE StoredIsStored'
  BY <1>2 DEF PrepareFails, Return, callerVars
<1>3. ASSUME Spawn PROVE StoredIsStored'
  BY <1>3 DEF Spawn, ResultIsTrue, callerVars
<1>4. ASSUME TakeNil PROVE StoredIsStored'
  BY <1>4 DEF TakeNil, Results, callerVars
<1>5. ASSUME TakeError PROVE StoredIsStored'
  BY <1>5 DEF TakeError, TakesError, callerVars
<1>6. ASSUME TornCleanup PROVE StoredIsStored'
  BY <1>6 DEF TornCleanup, TakesError, Return, callerVars
<1>7. ASSUME NEW p \in Parts, Clean(p) PROVE StoredIsStored'
  BY <1>7 DEF Clean, ResultIsTrue, callerVars
<1>8. ASSUME Cleaned PROVE StoredIsStored'
  BY <1>8 DEF Cleaned, Return, callerVars
<1>9. ASSUME Finish PROVE StoredIsStored'
  BY <1>9 DEF Finish, Return, Results, callerVars
<1>10. ASSUME Deadline PROVE StoredIsStored'
  BY <1>10 DEF Deadline, callerVars
<1>11. ASSUME NEW p \in Parts, PutTakesEffect(p) PROVE StoredIsStored'
  BY <1>11 DEF PutTakesEffect, ResultIsTrue, callerVars
<1>12. ASSUME NEW g \in Subprocesses, CallSucceeds(g) PROVE StoredIsStored'
  BY <1>12 DEF CallSucceeds, Advance, callerVars
<1>13. ASSUME NEW g \in Subprocesses, CallFails(g) PROVE StoredIsStored'
  BY <1>13 DEF CallFails, Advance, callerVars
<1>14. ASSUME NEW g \in Uploads, ReadKeys(g) PROVE StoredIsStored'
  BY <1>14 DEF ReadKeys, Advance, callerVars
<1>15. ASSUME NEW g \in Uploads, WriteKeys(g) PROVE StoredIsStored'
  BY <1>15 DEF WriteKeys, Advance, callerVars
<1>16. ASSUME NEW g \in Subprocesses, Send(g) PROVE StoredIsStored'
  BY <1>16 DEF Send, Advance, callerVars
<1>17. ASSUME NEW g \in Uploads, TornAppend(g) PROVE StoredIsStored'
  BY <1>17 DEF TornAppend, callerVars
<1> QED
  BY <1>1, <1>2, <1>3, <1>4, <1>5, <1>6, <1>7, <1>8, <1>9, <1>10, <1>11, <1>12, <1>13, <1>14, <1>15, <1>16, <1>17
     DEF Next, CallerStep, UploadStep, CallEnds

\* An error stays in the channel until Do takes it and stops receiving.
LEMMA KeepsFailures == DoInv /\ [Next]_vars => FailuresAreTold'
<1> SUFFICES ASSUME DoInv, [Next]_vars PROVE FailuresAreTold'
  OBVIOUS
<1> USE DEF DoInv, TypeOK, FailuresAreTold, StoredIsStored, Was, PartOf, Uploads, Subprocesses, Parts
<1>1. CASE UNCHANGED vars
  BY <1>1 DEF vars, callerVars
<1>2. ASSUME PrepareFails PROVE FailuresAreTold'
  BY <1>2 DEF PrepareFails, Return, callerVars
<1>3. ASSUME Spawn PROVE FailuresAreTold'
  BY <1>3 DEF Spawn, callerVars
<1>4. ASSUME TakeNil PROVE FailuresAreTold'
  <2>1. /\ errors # <<>> /\ errors[1] = "nil" /\ errors' = Tail(errors)
        /\ UNCHANGED <<main, sub, bucket>>
    BY <1>4 DEF TakeNil
  <2>2. ASSUME NEW i \in 1..Len(errors), errors[i] = "err"
        PROVE \E k \in 1..Len(errors') : errors'[k] = "err"
    <3>1. i # 1 /\ i - 1 \in 1..Len(errors') /\ errors'[i - 1] = errors[i]
      BY <2>1, <2>2
    <3> QED
      BY <2>2, <3>1
  <2> QED
    BY <2>1, <2>2
<1>5. ASSUME TakeError PROVE FailuresAreTold'
  BY <1>5 DEF TakeError, TakesError, callerVars
<1>6. ASSUME TornCleanup PROVE FailuresAreTold'
  BY <1>6 DEF TornCleanup, TakesError, Return, callerVars
<1>7. ASSUME NEW p \in Parts, Clean(p) PROVE FailuresAreTold'
  BY <1>7 DEF Clean, callerVars
<1>8. ASSUME Cleaned PROVE FailuresAreTold'
  BY <1>8 DEF Cleaned, Return, callerVars
<1>9. ASSUME Finish PROVE FailuresAreTold'
  BY <1>9 DEF Finish, Return, Results, callerVars
<1>10. ASSUME Deadline PROVE FailuresAreTold'
  BY <1>10 DEF Deadline, callerVars
<1>11. ASSUME NEW p \in Parts, PutTakesEffect(p) PROVE FailuresAreTold'
  BY <1>11 DEF PutTakesEffect, callerVars
<1>12. ASSUME NEW g \in Subprocesses, CallSucceeds(g) PROVE FailuresAreTold'
  BY <1>12 DEF CallSucceeds, Advance, callerVars
<1>13. ASSUME NEW g \in Subprocesses, CallFails(g) PROVE FailuresAreTold'
  BY <1>13 DEF CallFails, Advance, callerVars
<1>14. ASSUME NEW g \in Uploads, ReadKeys(g) PROVE FailuresAreTold'
  BY <1>14 DEF ReadKeys, Advance, callerVars
<1>15. ASSUME NEW g \in Uploads, WriteKeys(g) PROVE FailuresAreTold'
  BY <1>15 DEF WriteKeys, Advance, callerVars
<1>16. ASSUME NEW g \in Subprocesses, Send(g) PROVE FailuresAreTold'
  BY <1>16 DEF Send, Advance, callerVars
<1>17. ASSUME NEW g \in Uploads, TornAppend(g) PROVE FailuresAreTold'
  BY <1>17 DEF TornAppend, callerVars
<1> QED
  BY <1>1, <1>2, <1>3, <1>4, <1>5, <1>6, <1>7, <1>8, <1>9, <1>10, <1>11, <1>12, <1>13, <1>14, <1>15, <1>16, <1>17
     DEF Next, CallerStep, UploadStep, CallEnds

\* The result, and what the cleanup loop deletes, are those of the objects.
LEMMA KeepsResult == DoInv /\ [Next]_vars => ResultIsTrue'
<1> SUFFICES ASSUME DoInv, [Next]_vars PROVE ResultIsTrue'
  OBVIOUS
<1> USE DEF DoInv, TypeOK, ResultIsTrue, StoredIsStored, Was, Subprocesses, Uploads, Parts
<1>1. CASE UNCHANGED vars
  BY <1>1 DEF vars, callerVars
<1>2. ASSUME PrepareFails PROVE ResultIsTrue'
  BY <1>2 DEF PrepareFails, Return, callerVars
<1>3. ASSUME Spawn PROVE ResultIsTrue'
  BY <1>3 DEF Spawn, callerVars
<1>4. ASSUME TakeNil PROVE ResultIsTrue'
  BY <1>4 DEF TakeNil, Results, callerVars
<1>5. ASSUME TakeError PROVE ResultIsTrue'
  BY <1>5 DEF TakeError, TakesError, callerVars
<1>6. ASSUME TornCleanup PROVE ResultIsTrue'
  BY <1>6 DEF TornCleanup, TakesError, Return, callerVars
<1>7. ASSUME NEW p \in Parts, Clean(p) PROVE ResultIsTrue'
  BY <1>7 DEF Clean, callerVars
<1>8. ASSUME Cleaned PROVE ResultIsTrue'
  BY <1>8 DEF Cleaned, Return, callerVars
<1>9. ASSUME Finish PROVE ResultIsTrue'
  <2>1. errors = <<>>
    BY <1>9 DEF Finish, Results
  <2>2. \A g \in Uploads : bucket[PartOf(g)] = "new"
    BY <1>9, <2>1 DEF Finish, FailuresAreTold
  <2>3. \A p \in Parts : bucket[p] = "new"
    BY <2>2 DEF PartOf
  <2> QED
    BY <1>9, <2>3 DEF Finish, Return
<1>10. ASSUME Deadline PROVE ResultIsTrue'
  BY <1>10 DEF Deadline, callerVars
<1>11. ASSUME NEW p \in Parts, PutTakesEffect(p) PROVE ResultIsTrue'
  BY <1>11 DEF PutTakesEffect, callerVars
<1>12. ASSUME NEW g \in Subprocesses, CallSucceeds(g) PROVE ResultIsTrue'
  BY <1>12 DEF CallSucceeds, Advance, callerVars
<1>13. ASSUME NEW g \in Subprocesses, CallFails(g) PROVE ResultIsTrue'
  BY <1>13 DEF CallFails, Advance, callerVars
<1>14. ASSUME NEW g \in Uploads, ReadKeys(g) PROVE ResultIsTrue'
  BY <1>14 DEF ReadKeys, Advance, callerVars
<1>15. ASSUME NEW g \in Uploads, WriteKeys(g) PROVE ResultIsTrue'
  BY <1>15 DEF WriteKeys, Advance, callerVars
<1>16. ASSUME NEW g \in Subprocesses, Send(g) PROVE ResultIsTrue'
  BY <1>16 DEF Send, Advance, callerVars
<1>17. ASSUME NEW g \in Uploads, TornAppend(g) PROVE ResultIsTrue'
  BY <1>17 DEF TornAppend, callerVars
<1> QED
  BY <1>1, <1>2, <1>3, <1>4, <1>5, <1>6, <1>7, <1>8, <1>9, <1>10, <1>11, <1>12, <1>13, <1>14, <1>15, <1>16, <1>17
     DEF Next, CallerStep, UploadStep, CallEnds

-----------------------------------------------------------------------------
\* Do begins with nothing sent and nothing stored.
LEMMA InitDoInv == Init => DoInv
<1> SUFFICES ASSUME Init PROVE DoInv
  OBVIOUS
<1> USE DEF Init
<1>1. bucket \in [Parts -> {"none", "old"}]
  OBVIOUS
<1>2. TypeOK
  <2>1. sub \in [Subprocesses -> {"none", "call", "read", "append", "sendnil",
                                  "senderr", "done", "crashed"}]
    OBVIOUS
  <2>2. errors \in Seq({"nil", "err"}) /\ Len(errors) = 0 /\ received = 0
    OBVIOUS
  <2>3. bucket \in [Parts -> {"none", "old", "new", "gone"}]
    BY <1>1
  <2>4. seen \in [Uploads -> SUBSET Parts]
    OBVIOUS
  <2>5. received \in 0..3 /\ received + Len(errors) <= 3
    BY <2>2
  <2>6. /\ main \in {"open", "receive", "cleanup", "returned", "crashed"}
        /\ result \in {"none", "ok", "err"}
        /\ wire \subseteq Parts /\ uploadedKeys \subseteq Parts
        /\ toDelete \subseteq Parts /\ cancelled \in BOOLEAN
    OBVIOUS
  <2> HIDE DEF Init
  <2> QED
    BY <2>1, <2>2, <2>3, <2>4, <2>5, <2>6 DEF TypeOK
<1>3. ResultsCount
  BY DEF ResultsCount, Sent, Subprocesses, Uploads
<1>4. StoredIsStored
  BY <1>1 DEF StoredIsStored, Subprocesses
<1>5. FailuresAreTold /\ ResultIsTrue
  BY DEF FailuresAreTold, ResultIsTrue
<1> QED
  BY <1>2, <1>3, <1>4, <1>5 DEF DoInv

\* The inductive invariant of Do, its goroutines and S3.
THEOREM DoInvCorrect == Spec => []DoInv
<1>1. DoInv /\ [Next]_vars => DoInv'
  BY NextTypeOK, KeepsCount, KeepsStored, KeepsFailures, KeepsResult DEF DoInv
<1> QED
  BY InitDoInv, <1>1, PTL DEF Spec

\* Uploader's state is always of its type, and the channel of results is never
\* asked to hold more than it has room for.
THEOREM TypeCorrect == Spec => []TypeOK
<1>1. DoInv => TypeOK
  BY DEF DoInv
<1> QED
  BY DoInvCorrect, <1>1, PTL

\* Every step of Do, its goroutines and S3 is a step of the promise, or leaves
\* the bucket and the result as they are.
LEMMA StepsKeepPromise ==
  DoInv /\ [Next]_vars => [Promise!Next]_<<bucket, result>>
<1> SUFFICES ASSUME DoInv, [Next]_vars,
                    ~ UNCHANGED <<bucket, result>>
             PROVE Promise!Next
  OBVIOUS
<1> USE DEF DoInv, TypeOK, ResultIsTrue
<1>1. CASE PrepareFails \/ TornCleanup \/ Cleaned
  <2>1. result' = "err" /\ UNCHANGED bucket /\ result = "none"
    BY <1>1 DEF PrepareFails, TornCleanup, TakesError, Cleaned, Return
  <2> QED
    BY <2>1 DEF Promise!Next, Promise!Fails
<1>2. ASSUME NEW p \in Parts, Clean(p) PROVE Promise!Next
  <2>1. result = "none" /\ bucket[p] = "new" /\ UNCHANGED result
    BY <1>2 DEF Clean
  <2>2. bucket' = [bucket EXCEPT ![p] = "gone"]
    BY <1>2, <2>1 DEF Clean
  <2> QED
    BY <2>1, <2>2 DEF Promise!Next, Promise!Removed
<1>3. CASE Finish
  <2>1. errors = <<>> /\ main = "receive" /\ \A g \in Uploads : sub[g] = "done"
    BY <1>3 DEF Finish, Results, Uploads, Subprocesses
  <2>2. \A g \in Uploads : bucket[PartOf(g)] = "new"
    BY <2>1 DEF FailuresAreTold
  <2>3. \A p \in Parts : bucket[p] = "new"
    BY <2>2 DEF PartOf, Uploads, Parts
  <2>4. result = "none" /\ result' = "ok" /\ UNCHANGED bucket
    BY <1>3 DEF Finish, Return
  <2> QED
    BY <2>3, <2>4 DEF Promise!Next, Promise!Succeeds
<1>4. ASSUME NEW p \in Parts, PutTakesEffect(p) PROVE Promise!Next
  <2>1. bucket[p] \in {"none", "old"}
    BY <1>4 DEF PutTakesEffect, StoredIsStored
  <2>2. result # "ok"
    BY <2>1
  <2>3. bucket' = [bucket EXCEPT ![p] = "new"] /\ UNCHANGED result
    BY <1>4 DEF PutTakesEffect, callerVars
  <2> QED
    BY <2>1, <2>2, <2>3 DEF Promise!Next, Promise!Stored
<1>5. CASE UNCHANGED vars \/ Spawn \/ TakeNil \/ TakeError \/ Deadline
  BY <1>5 DEF vars, callerVars, Spawn, TakeNil, TakesError, TakeError, Deadline
<1>6. ASSUME NEW g \in Subprocesses, CallEnds(g) \/ Send(g)
      PROVE Promise!Next
  BY <1>6 DEF CallEnds, CallSucceeds, CallFails, Send, callerVars
<1>7. ASSUME NEW g \in Uploads, UploadStep(g) PROVE Promise!Next
  BY <1>7 DEF UploadStep, ReadKeys, WriteKeys, TornAppend, callerVars
<1> QED
  BY <1>1, <1>2, <1>3, <1>4, <1>5, <1>6, <1>7 DEF Next, CallerStep

\* Uploader.Do implements UploadPromise: whatever its goroutines, S3, the
\* deadline and the race for uploadedKeys do, a success means that both objects
\* are stored, and only objects this call stored are removed.
THEOREM DoKeepsPromise == Spec => KeepsPromise
<1>1. Init => Promise!Init
  BY DEF Init, Promise!Init
<1> QED
  BY <1>1, DoInvCorrect, StepsKeepPromise, PTL
     DEF Spec, KeepsPromise, Promise!Spec
=============================================================================
