--------------------------- MODULE LibraryProofs ----------------------------
(***************************************************************************)
(* Proofs about Library, for any number of files and requests, any sizes   *)
(* and any quota: type correctness, that a row keeps its objects, that its *)
(* size is that of the video in the bucket, that the user's counters are   *)
(* sums over the rows, and that each call of Do is what UploadPromise has  *)
(* it.                                                                     *)
(***************************************************************************)
EXTENDS Library, Sums, TLAPS

(***************************************************************************)
(* What keeps a row's objects in place: a file that is being added is      *)
(* nobody else's and has no row yet, what was put for it is still there,   *)
(* and objects are deleted only when their row is gone.                    *)
(***************************************************************************)
Adding(r) == kind[r] \in Adds /\ pc[r] \in {"process", "store", "commit"}

AddsAreAlone ==
  \A r \in Requests : Adding(r) =>
    \E f \in Files :
      /\ file[r] = {f} /\ row[f] = 0
      /\ \A q \in Requests \ {r} : file[q] # {f}

AddsAreStored ==
  \A r \in Requests, f \in Files, p \in Parts :
    Adding(r) /\ file[r] = {f} =>
      /\ pc[r] # "process" => new[r] # 0
      /\ put[r][p] = "new" => object[f][p] # 0
      /\ pc[r] = "commit" => put[r][p] = "new"

\* A request that has not begun works on no file, nothing is put before ffmpeg
\* is done, and only a deletion is at the steps of one.
StagesFit ==
  \A r \in Requests :
    /\ pc[r] = "start" => file[r] = {}
    /\ pc[r] \in {"start", "process"} =>
         \A p \in Parts : put[r][p] \in {"none", "old"}
    /\ pc[r] \in {"row", "objects", "stats"} => kind[r] = "delete"
    /\ pc[r] = "objects" => \A f \in file[r] : row[f] = 0

KeepInv == TypeOK /\ StagesFit /\ AddsAreAlone /\ AddsAreStored /\ RowsHaveObjects

-----------------------------------------------------------------------------
(***************************************************************************)
(* Type correctness.                                                       *)
(***************************************************************************)
\* A request works on one file or none.
LEMMA FileOfRequest ==
  ASSUME TypeOK, NEW r \in Requests, NEW f \in file[r]
  PROVE f \in Files /\ file[r] = {f}
BY DEF TypeOK

\* Init establishes the types.
LEMMA InitTypeOK == Init => TypeOK
<1> SUFFICES ASSUME Init PROVE TypeOK
  OBVIOUS
<1>1. PICK f \in Files, s \in Sizes :
        /\ row = [g \in Files |-> IF g = f THEN s ELSE 0]
        /\ object = [g \in Files |-> [p \in Parts |-> row[g]]]
        /\ used = s
  BY DEF Init
<1>2. row \in [Files -> Sizes \cup {0}]
  BY <1>1
<1>3. object \in [Files -> [Parts -> Sizes \cup {0}]]
  BY <1>1, <1>2
<1>4. used \in Int
  BY <1>1, LibraryAssumption
<1> QED
  BY <1>2, <1>3, <1>4 DEF Init, TypeOK

\* Every action keeps the types.
LEMMA NextTypeOK == TypeOK /\ [Next]_vars => TypeOK'
<1> SUFFICES ASSUME TypeOK, [Next]_vars PROVE TypeOK'
  OBVIOUS
<1> USE LibraryAssumption DEF TypeOK
<1>1. CASE UNCHANGED vars
  BY <1>1 DEF vars, db, locals
<1>2. ASSUME NEW r \in Requests, Fail(r) \/ CommitFails(r) PROVE TypeOK'
  BY <1>2 DEF Fail, CommitFails, Goto, db, locals
<1>3. ASSUME NEW r \in Requests, NotFound(r) PROVE TypeOK'
  BY <1>3 DEF NotFound, Goto, db, locals
<1>4. ASSUME NEW r \in Requests, NEW s \in Sizes, Processed(r, s) PROVE TypeOK'
  BY <1>4 DEF Processed, Goto, db, locals
<1>5. ASSUME NEW r \in Requests, NEW p \in Parts, Stored(r, p) PROVE TypeOK'
  <2>1. PICK f \in file[r] : Object(f, p, new[r])
    BY <1>5 DEF Stored
  <2>2. f \in Files
    BY <2>1, FileOfRequest
  <2>3. object' \in [Files -> [Parts -> Sizes \cup {0}]]
    BY <2>1, <2>2 DEF Object
  <2>4. put' \in [Requests -> [Parts -> {"none", "old", "new", "gone"}]]
    BY <1>5 DEF Stored, Put
  <2> QED
    BY <1>5, <2>3, <2>4 DEF Stored, db
<1>6. ASSUME NEW r \in Requests, NEW p \in Parts, Removed(r, p) PROVE TypeOK'
  <2>1. PICK f \in file[r] : Object(f, p, 0)
    BY <1>6 DEF Removed
  <2>2. f \in Files
    BY <2>1, FileOfRequest
  <2>3. object' \in [Files -> [Parts -> Sizes \cup {0}]]
    BY <2>1, <2>2 DEF Object
  <2>4. put' \in [Requests -> [Parts -> {"none", "old", "new", "gone"}]]
    BY <1>6 DEF Removed, Put
  <2> QED
    BY <1>6, <2>3, <2>4 DEF Removed, db
<1>7. ASSUME NEW r \in Requests, Succeeds(r) PROVE TypeOK'
  BY <1>7 DEF Succeeds, Goto, db, locals
<1>8. ASSUME NEW r \in Requests, Create(r) PROVE TypeOK'
  BY <1>8 DEF Create, Goto, locals
<1>9. ASSUME NEW r \in Requests, NEW s \in Sizes, Validate(r, s) PROVE TypeOK'
  BY <1>9 DEF Validate, Goto, db
<1>10. ASSUME NEW r \in Requests, NEW s \in Sizes, NoSpace(r, s) PROVE TypeOK'
  BY <1>10 DEF NoSpace, Goto, db, locals
<1>11. ASSUME NEW r \in Requests, Update(r) PROVE TypeOK'
  <2>1. PICK f \in file[r] :
          row' = [row EXCEPT ![f] = IF @ = 0 THEN 0 ELSE NewSize(r)]
    BY <1>11 DEF Update
  <2>2. row' \in [Files -> Sizes \cup {0}]
    BY <2>1, FileOfRequest DEF NewSize
  <2>3. used' \in Int
    BY <1>11 DEF Update, Saved, NewSize
  <2> QED
    BY <1>11, <2>2, <2>3 DEF Update, Goto, locals
<1>12. ASSUME NEW r \in Requests, NEW f \in Files, Edit(r, f) PROVE TypeOK'
  BY <1>12 DEF Edit, Find, Goto, db
<1>13. ASSUME NEW r \in Requests, NEW f \in Files, Rename(r, f) PROVE TypeOK'
  BY <1>13 DEF Rename, Find, Goto, db
<1>14. ASSUME NEW r \in Requests, NEW f \in Files, Delete(r, f) PROVE TypeOK'
  BY <1>14 DEF Delete, Find, Goto, db
<1>15. ASSUME NEW r \in Requests, DeleteRow(r) PROVE TypeOK'
  BY <1>15 DEF DeleteRow, Goto, locals
<1>16. ASSUME NEW r \in Requests, DeleteObjects(r) PROVE TypeOK'
  <2>1. PICK f \in file[r], kept \in SUBSET Parts :
          object' = [object EXCEPT ![f] =
                       [p \in Parts |-> IF p \in kept THEN @[p] ELSE 0]]
    BY <1>16 DEF DeleteObjects
  <2>2. f \in Files
    BY <2>1, FileOfRequest
  <2>3. object' \in [Files -> [Parts -> Sizes \cup {0}]]
    BY <2>1, <2>2
  <2> QED
    BY <1>16, <2>3 DEF DeleteObjects, Goto, db, locals
<1>17. ASSUME NEW r \in Requests, DeleteStats(r) PROVE TypeOK'
  BY <1>17 DEF DeleteStats, Goto, locals
<1>18. ASSUME NEW r \in Requests, StatsFail(r) PROVE TypeOK'
  BY <1>18 DEF StatsFail, Goto, db, locals
<1> QED
  BY <1>1, <1>2, <1>3, <1>4, <1>5, <1>6, <1>7, <1>8, <1>9, <1>10, <1>11,
     <1>12, <1>13, <1>14, <1>15, <1>16, <1>17, <1>18
     DEF Next, DoStep, AddStep, EditStep, DeleteStep

\* Library's state is always of its type.
THEOREM TypeCorrect == Spec => []TypeOK
BY InitTypeOK, NextTypeOK, PTL DEF Spec

-----------------------------------------------------------------------------
(***************************************************************************)
(* The steps by what they do to the rows, the objects and the requests.    *)
(***************************************************************************)
\* A request ends, or begins with a file that has a row.
Ends(r) == \E to \in Ended : pc' = [pc EXCEPT ![r] = to]

Quiet(r) ==
  \/ Fail(r) \/ CommitFails(r) \/ NotFound(r)
  \/ DeleteStats(r) \/ StatsFail(r)
  \/ \E s \in Sizes : NoSpace(r, s)

Begins(r, f) == Edit(r, f) \/ Rename(r, f) \/ Delete(r, f)

\* A quiet step only ends its request, as far as files are concerned.
LEMMA QuietEnds ==
  ASSUME NEW r \in Requests, Quiet(r)
  PROVE Ends(r) /\ UNCHANGED <<row, object, kind, file, new, put>>
<1>1. CASE Fail(r) \/ CommitFails(r)
  BY <1>1 DEF Fail, CommitFails, Goto, Ends, Ended, db, locals
<1>2. CASE NotFound(r)
  BY <1>2 DEF NotFound, Goto, Ends, Ended, db, locals
<1>3. CASE DeleteStats(r)
  BY <1>3 DEF DeleteStats, Goto, Ends, Ended, locals
<1>4. CASE StatsFail(r)
  BY <1>4 DEF StatsFail, Goto, Ends, Ended, db, locals
<1>5. CASE \E s \in Sizes : NoSpace(r, s)
  BY <1>5 DEF NoSpace, Goto, Ends, Ended, db, locals
<1> QED
  BY <1>1, <1>2, <1>3, <1>4, <1>5 DEF Quiet

\* A handler that begins with a row it read: it adds nothing.
LEMMA BeginsWithRow ==
  ASSUME TypeOK, NEW r \in Requests, NEW f \in Files, Begins(r, f)
  PROVE /\ pc[r] = "start" /\ row[f] # 0 /\ kind[r] \notin Adds
        /\ \E to \in {"process", "commit", "row"} :
             /\ pc' = [pc EXCEPT ![r] = to]
             /\ to = "row" => kind[r] = "delete"
        /\ file' = [file EXCEPT ![r] = {f}]
        /\ UNCHANGED <<row, object, kind, put>>
        /\ \A q \in Requests \ {r} : new'[q] = new[q]
<1>1. CASE Edit(r, f)
  BY <1>1 DEF Edit, Find, Goto, Adds, db
<1>2. CASE Rename(r, f)
  BY <1>2 DEF Rename, Find, Goto, Adds, db, TypeOK
<1>3. CASE Delete(r, f)
  BY <1>3 DEF Delete, Find, Goto, Adds, db
<1> QED
  BY <1>1, <1>2, <1>3 DEF Begins

\* Every step is one of these.
LEMMA StepForms ==
  ASSUME Next
  PROVE \E r \in Requests :
    \/ Quiet(r) \/ Succeeds(r) \/ Create(r) \/ Update(r)
    \/ DeleteRow(r) \/ DeleteObjects(r)
    \/ \E s \in Sizes : Processed(r, s) \/ Validate(r, s)
    \/ \E p \in Parts : Stored(r, p) \/ Removed(r, p)
    \/ \E f \in Files : Begins(r, f)
BY DEF Next, Quiet, Begins, DoStep, AddStep, EditStep, DeleteStep

-----------------------------------------------------------------------------
(***************************************************************************)
(* Each part of the invariant, over every step.                            *)
(***************************************************************************)
\* Requests stay at the steps of their handler, and an object is deleted only
\* when its row is gone.
LEMMA KeepsStages == KeepInv /\ [Next]_vars => StagesFit'
<1> SUFFICES ASSUME KeepInv, [Next]_vars PROVE StagesFit'
  OBVIOUS
<1> USE DEF KeepInv
<1>1. CASE UNCHANGED vars
  BY <1>1 DEF vars, db, locals, StagesFit
<1>2. ASSUME NEW r \in Requests, Quiet(r) PROVE StagesFit'
  <2>1. Ends(r) /\ UNCHANGED <<row, kind, file, put>>
    BY <1>2, QuietEnds
  <2> QED
    BY <2>1 DEF Ends, Ended, StagesFit, TypeOK
<1>3. ASSUME NEW r \in Requests, Succeeds(r) PROVE StagesFit'
  BY <1>3 DEF Succeeds, Goto, db, locals, StagesFit, TypeOK
<1>4. ASSUME NEW r \in Requests, Create(r) PROVE StagesFit'
  <2>1. PICK f \in Files :
          /\ file[r] = {f} /\ row[f] = 0
          /\ \A q \in Requests \ {r} : file[q] # {f}
    BY <1>4 DEF AddsAreAlone, Adding, Create, Goto
  <2>2. row' = [row EXCEPT ![f] = new[r]]
    BY <1>4, <2>1 DEF Create
  <2>3. pc' = [pc EXCEPT ![r] = "done"] /\ UNCHANGED <<kind, file, put>>
    BY <1>4 DEF Create, Goto, locals
  <2>4. ASSUME NEW q \in Requests, NEW g \in file'[q], pc'[q] = "objects"
        PROVE row'[g] = 0
    <3>1. q # r /\ pc[q] = "objects"
      BY <2>3, <2>4 DEF TypeOK
    <3>2. g # f /\ row[g] = 0
      BY <2>1, <2>3, <2>4, <3>1, FileOfRequest DEF StagesFit
    <3> QED
      BY <2>2, <3>2
  <2>5. \A q \in Requests :
          /\ pc'[q] = "start" => file'[q] = {}
          /\ pc'[q] \in {"start", "process"} =>
               \A p \in Parts : put'[q][p] \in {"none", "old"}
          /\ pc'[q] \in {"row", "objects", "stats"} => kind'[q] = "delete"
    BY <2>3 DEF StagesFit, TypeOK
  <2> QED
    BY <2>4, <2>5 DEF StagesFit
<1>5. ASSUME NEW r \in Requests, Update(r) PROVE StagesFit'
  <2>1. PICK f \in file[r] :
          row' = [row EXCEPT ![f] = IF @ = 0 THEN 0 ELSE NewSize(r)]
    BY <1>5 DEF Update
  <2>2. \A g \in Files : row[g] = 0 => row'[g] = 0
    BY <2>1 DEF TypeOK
  <2>3. pc' = [pc EXCEPT ![r] = "done"] /\ UNCHANGED <<kind, file, put>>
    BY <1>5 DEF Update, Goto, locals
  <2>4. \A q \in Requests : pc'[q] = "objects" => \A g \in file'[q] : row'[g] = 0
    BY <2>2, <2>3, FileOfRequest DEF StagesFit, TypeOK
  <2> QED
    BY <2>3, <2>4 DEF StagesFit, TypeOK
<1>6. ASSUME NEW r \in Requests, DeleteRow(r) PROVE StagesFit'
  <2>1. PICK f \in file[r] : row' = [row EXCEPT ![f] = 0]
    BY <1>6 DEF DeleteRow
  <2>2. f \in Files /\ file[r] = {f}
    BY <2>1, FileOfRequest
  <2>3. row'[f] = 0 /\ \A g \in Files : row[g] = 0 => row'[g] = 0
    BY <2>1, <2>2 DEF TypeOK
  <2>4. /\ pc[r] = "row" /\ pc' = [pc EXCEPT ![r] = "objects"]
        /\ UNCHANGED <<kind, file, put>>
    BY <1>6 DEF DeleteRow, Goto, locals
  <2>5. \A q \in Requests : pc'[q] = "objects" => \A g \in file'[q] : row'[g] = 0
    BY <2>2, <2>3, <2>4, FileOfRequest DEF StagesFit, TypeOK
  <2> QED
    BY <2>4, <2>5 DEF StagesFit, TypeOK
<1>7. ASSUME NEW r \in Requests, DeleteObjects(r) PROVE StagesFit'
  BY <1>7 DEF DeleteObjects, Goto, db, locals, StagesFit, TypeOK
<1>8. ASSUME NEW r \in Requests, NEW s \in Sizes, Processed(r, s)
      PROVE StagesFit'
  BY <1>8 DEF Processed, Goto, db, StagesFit, TypeOK
<1>9. ASSUME NEW r \in Requests, NEW s \in Sizes, Validate(r, s)
      PROVE StagesFit'
  BY <1>9 DEF Validate, Goto, db, StagesFit, TypeOK
<1>10. ASSUME NEW r \in Requests, NEW p \in Parts, Stored(r, p) \/ Removed(r, p)
       PROVE StagesFit'
  <2>1. /\ pc[r] \in {"store", "failed"} /\ \E b : put' = [put EXCEPT ![r][p] = b]
        /\ UNCHANGED <<row, pc, kind, file>>
    BY <1>10 DEF Stored, Removed, Put, db
  <2> QED
    BY <2>1 DEF StagesFit, TypeOK
<1>11. ASSUME NEW r \in Requests, NEW f \in Files, Begins(r, f)
       PROVE StagesFit'
  <2>1. PICK to \in {"process", "commit", "row"} :
          /\ pc' = [pc EXCEPT ![r] = to]
          /\ to = "row" => kind[r] = "delete"
    BY <1>11, BeginsWithRow
  <2>2. /\ file' = [file EXCEPT ![r] = {f}]
        /\ UNCHANGED <<row, kind, put>> /\ pc[r] = "start"
    BY <1>11, BeginsWithRow
  <2>3. \A q \in Requests \ {r} : pc'[q] = pc[q] /\ file'[q] = file[q]
    BY <2>1, <2>2 DEF TypeOK
  <2>4. pc'[r] = to
    BY <2>1 DEF TypeOK
  <2> QED
    BY <2>1, <2>2, <2>3, <2>4 DEF StagesFit
<1> QED
  BY <1>1, <1>2, <1>3, <1>4, <1>5, <1>6, <1>7, <1>8, <1>9, <1>10, <1>11,
     StepForms

\* A file that is being added stays without a row, and stays the request's own,
\* until the request's transaction.
LEMMA KeepsAlone == KeepInv /\ [Next]_vars => AddsAreAlone'
<1> SUFFICES ASSUME KeepInv, [Next]_vars PROVE AddsAreAlone'
  OBVIOUS
<1> USE DEF KeepInv
<1> DEFINE Alone(r, f) ==
             /\ file[r] = {f} /\ row[f] = 0
             /\ \A q \in Requests \ {r} : file[q] # {f}
<1>0. \A r \in Requests : Adding(r) => \E f \in Files : Alone(r, f)
  BY DEF AddsAreAlone
<1>1. CASE UNCHANGED vars
  BY <1>1 DEF vars, db, locals, AddsAreAlone, Adding
<1>2. ASSUME NEW r \in Requests, Quiet(r) PROVE AddsAreAlone'
  <2>1. Ends(r) /\ UNCHANGED <<row, kind, file>>
    BY <1>2, QuietEnds
  <2>2. \A q \in Requests : Adding(q)' => Adding(q)
    BY <2>1 DEF Ends, Ended, Adding, TypeOK
  <2> QED
    BY <2>1, <2>2 DEF AddsAreAlone
<1>3. ASSUME NEW r \in Requests, Succeeds(r) PROVE AddsAreAlone'
  <2>1. \A q \in Requests : Adding(q)' => Adding(q)
    BY <1>3 DEF Succeeds, Goto, locals, Adding, TypeOK
  <2> QED
    BY <1>3, <2>1 DEF Succeeds, db, locals, AddsAreAlone
<1>4. ASSUME NEW r \in Requests, Create(r) PROVE AddsAreAlone'
  <2>1. PICK f \in Files : Alone(r, f)
    BY <1>0, <1>4 DEF Adding, Create, Goto
  <2>2. row' = [row EXCEPT ![f] = new[r]]
    BY <1>4, <2>1 DEF Create
  <2>3. pc' = [pc EXCEPT ![r] = "done"] /\ UNCHANGED <<kind, file>>
    BY <1>4 DEF Create, Goto, locals
  <2>4. ASSUME NEW q \in Requests, Adding(q)'
        PROVE \E g \in Files : Alone(q, g)'
    <3>1. q # r /\ Adding(q)
      BY <2>3, <2>4 DEF Adding, TypeOK
    <3>2. PICK g \in Files : Alone(q, g)
      BY <1>0, <3>1
    <3>3. g # f
      BY <2>1, <3>1, <3>2
    <3> QED
      BY <2>2, <2>3, <3>2, <3>3
  <2> QED
    BY <2>4 DEF AddsAreAlone
<1>5. ASSUME NEW r \in Requests, Update(r) PROVE AddsAreAlone'
  <2>1. PICK f \in file[r] :
          row' = [row EXCEPT ![f] = IF @ = 0 THEN 0 ELSE NewSize(r)]
    BY <1>5 DEF Update
  <2>2. \A g \in Files : row[g] = 0 => row'[g] = 0
    BY <2>1 DEF TypeOK
  <2>3. pc' = [pc EXCEPT ![r] = "done"] /\ UNCHANGED <<kind, file>>
    BY <1>5 DEF Update, Goto, locals
  <2>4. \A q \in Requests : Adding(q)' => Adding(q)
    BY <2>3 DEF Adding, TypeOK
  <2> QED
    BY <2>2, <2>3, <2>4 DEF AddsAreAlone
<1>6. ASSUME NEW r \in Requests, DeleteRow(r) PROVE AddsAreAlone'
  <2>1. PICK f \in file[r] : row' = [row EXCEPT ![f] = 0]
    BY <1>6 DEF DeleteRow
  <2>2. \A g \in Files : row[g] = 0 => row'[g] = 0
    BY <2>1 DEF TypeOK
  <2>3. pc' = [pc EXCEPT ![r] = "objects"] /\ UNCHANGED <<kind, file>>
    BY <1>6 DEF DeleteRow, Goto, locals
  <2>4. \A q \in Requests : Adding(q)' => Adding(q)
    BY <2>3 DEF Adding, TypeOK
  <2> QED
    BY <2>2, <2>3, <2>4 DEF AddsAreAlone
<1>7. ASSUME NEW r \in Requests, DeleteObjects(r) PROVE AddsAreAlone'
  <2>1. UNCHANGED <<row, kind, file>>
    BY <1>7 DEF DeleteObjects, db, locals
  <2>2. \A q \in Requests : Adding(q)' => Adding(q)
    BY <1>7, <2>1 DEF DeleteObjects, Goto, Adding, TypeOK
  <2> QED
    BY <2>1, <2>2 DEF AddsAreAlone
<1>8. ASSUME NEW r \in Requests, NEW s \in Sizes, Processed(r, s)
      PROVE AddsAreAlone'
  <2>1. UNCHANGED <<row, kind, file>>
    BY <1>8 DEF Processed, db
  <2>2. \A q \in Requests : Adding(q)' => Adding(q)
    BY <1>8, <2>1 DEF Processed, Goto, Adding, TypeOK
  <2> QED
    BY <2>1, <2>2 DEF AddsAreAlone
<1>9. ASSUME NEW r \in Requests, NEW s \in Sizes, Validate(r, s)
      PROVE AddsAreAlone'
  <2>1. PICK f \in Files :
          /\ row[f] = 0 /\ \A q \in Requests : file[q] # {f}
          /\ file' = [file EXCEPT ![r] = {f}]
    BY <1>9 DEF Validate
  <2>2. pc' = [pc EXCEPT ![r] = "process"] /\ UNCHANGED <<row, kind>>
    BY <1>9 DEF Validate, Goto, db
  <2>3. ASSUME NEW q \in Requests, Adding(q)'
        PROVE \E g \in Files : Alone(q, g)'
    <3>1. CASE q = r
      <4>1. Alone(r, f)'
        BY <2>1, <2>2 DEF TypeOK
      <4> QED
        BY <3>1, <4>1
    <3>2. CASE q # r
      <4>1. Adding(q)
        BY <2>2, <2>3, <3>2 DEF Adding, TypeOK
      <4>2. PICK g \in Files : Alone(q, g)
        BY <1>0, <4>1
      <4>3. g # f
        BY <2>1, <4>2
      <4> QED
        BY <2>1, <2>2, <3>2, <4>2, <4>3 DEF TypeOK
    <3> QED
      BY <3>1, <3>2
  <2> QED
    BY <2>3 DEF AddsAreAlone
<1>10. ASSUME NEW r \in Requests, NEW p \in Parts, Stored(r, p) \/ Removed(r, p)
       PROVE AddsAreAlone'
  BY <1>10 DEF Stored, Removed, db, AddsAreAlone, Adding
<1>11. ASSUME NEW r \in Requests, NEW f \in Files, Begins(r, f)
       PROVE AddsAreAlone'
  <2>1. row[f] # 0 /\ kind[r] \notin Adds /\ UNCHANGED <<row, kind>>
    BY <1>11, BeginsWithRow
  <2>2. file' = [file EXCEPT ![r] = {f}]
    BY <1>11, BeginsWithRow
  <2>3. \E to : pc' = [pc EXCEPT ![r] = to]
    BY <1>11, BeginsWithRow
  <2>4. ASSUME NEW q \in Requests, Adding(q)'
        PROVE \E g \in Files : Alone(q, g)'
    <3>1. q # r /\ Adding(q)
      BY <2>1, <2>3, <2>4 DEF Adding, TypeOK
    <3>2. PICK g \in Files : Alone(q, g)
      BY <1>0, <3>1
    <3>3. g # f
      BY <2>1, <3>2
    <3> QED
      BY <2>1, <2>2, <3>1, <3>2, <3>3 DEF TypeOK
  <2> QED
    BY <2>4 DEF AddsAreAlone
<1> QED
  BY <1>1, <1>2, <1>3, <1>4, <1>5, <1>6, <1>7, <1>8, <1>9, <1>10, <1>11,
     StepForms

\* What was put for a file that is being added is still there, and all of it
\* when the transaction comes.
LEMMA KeepsStored == KeepInv /\ [Next]_vars => AddsAreStored'
<1> SUFFICES ASSUME KeepInv, [Next]_vars PROVE AddsAreStored'
  OBVIOUS
<1> USE DEF KeepInv
<1> DEFINE Kept(r, f, p) ==
             Adding(r) /\ file[r] = {f} =>
               /\ pc[r] # "process" => new[r] # 0
               /\ put[r][p] = "new" => object[f][p] # 0
               /\ pc[r] = "commit" => put[r][p] = "new"
<1>0. \A r \in Requests, f \in Files, p \in Parts : Kept(r, f, p)
  BY DEF AddsAreStored
<1>1. CASE UNCHANGED vars
  BY <1>1 DEF vars, db, locals, AddsAreStored, Adding
<1>2. ASSUME NEW r \in Requests, Quiet(r) PROVE AddsAreStored'
  <2>1. Ends(r) /\ UNCHANGED <<object, kind, file, new, put>>
    BY <1>2, QuietEnds
  <2>2. \A q \in Requests : Adding(q)' => Adding(q) /\ pc'[q] = pc[q]
    BY <2>1 DEF Ends, Ended, Adding, TypeOK
  <2> QED
    BY <2>1, <2>2 DEF AddsAreStored
<1>3. ASSUME NEW r \in Requests, Succeeds(r) PROVE AddsAreStored'
  <2>1. /\ pc[r] = "store" /\ pc' = [pc EXCEPT ![r] = "commit"]
        /\ \A p \in Parts : put[r][p] = "new"
        /\ UNCHANGED <<object, kind, file, new, put>>
    BY <1>3 DEF Succeeds, Goto, locals
  <2>2. \A q \in Requests \ {r} : pc'[q] = pc[q]
    BY <2>1 DEF TypeOK
  <2>3. \A q \in Requests : Adding(q)' => Adding(q)
    BY <2>1, <2>2 DEF Adding
  <2> QED
    BY <2>1, <2>2, <2>3 DEF AddsAreStored
<1>4. ASSUME NEW r \in Requests, Create(r) \/ Update(r) PROVE AddsAreStored'
  <2>1. pc' = [pc EXCEPT ![r] = "done"] /\ UNCHANGED <<object, kind, file, new, put>>
    BY <1>4 DEF Create, Update, Goto, locals
  <2>2. \A q \in Requests : Adding(q)' => Adding(q) /\ pc'[q] = pc[q]
    BY <2>1 DEF Adding, TypeOK
  <2> QED
    BY <2>1, <2>2 DEF AddsAreStored
<1>5. ASSUME NEW r \in Requests, DeleteRow(r) PROVE AddsAreStored'
  <2>1. /\ pc' = [pc EXCEPT ![r] = "objects"]
        /\ UNCHANGED <<object, kind, file, new, put>>
    BY <1>5 DEF DeleteRow, Goto, locals
  <2>2. \A q \in Requests : Adding(q)' => Adding(q) /\ pc'[q] = pc[q]
    BY <2>1 DEF Adding, TypeOK
  <2> QED
    BY <2>1, <2>2 DEF AddsAreStored
<1>6. ASSUME NEW r \in Requests, DeleteObjects(r) PROVE AddsAreStored'
  <2>1. PICK f \in file[r], kept \in SUBSET Parts :
          object' = [object EXCEPT ![f] =
                       [p \in Parts |-> IF p \in kept THEN @[p] ELSE 0]]
    BY <1>6 DEF DeleteObjects
  <2>2. f \in Files /\ file[r] = {f}
    BY <2>1, FileOfRequest
  <2>3. UNCHANGED <<kind, file, new, put>> /\ kind[r] = "delete"
    BY <1>6 DEF DeleteObjects, Goto, locals, StagesFit
  <2>4. \A q \in Requests : Adding(q)' => q # r /\ Adding(q) /\ pc'[q] = pc[q]
    BY <1>6, <2>3 DEF DeleteObjects, Goto, Adding, Adds, TypeOK
  <2>5. ASSUME NEW q \in Requests, NEW g \in Files, NEW p \in Parts,
               Adding(q), q # r, file[q] = {g}
        PROVE object'[g][p] = object[g][p]
    <3>1. g # f
      BY <2>2, <2>5 DEF AddsAreAlone
    <3> QED
      BY <2>1, <3>1
  <2>6. ASSUME NEW q \in Requests, NEW g \in Files, NEW p \in Parts
        PROVE Kept(q, g, p)'
    BY <1>0, <2>3, <2>4, <2>5
  <2> QED
    BY <2>6 DEF AddsAreStored
<1>7. ASSUME NEW r \in Requests, NEW s \in Sizes, Processed(r, s)
      PROVE AddsAreStored'
  <2>1. /\ pc[r] = "process" /\ pc' = [pc EXCEPT ![r] = "store"]
        /\ new' = [new EXCEPT ![r] = s] /\ UNCHANGED <<object, kind, file, put>>
    BY <1>7 DEF Processed, Goto
  <2>2. s # 0
    BY LibraryAssumption
  <2>3. \A q \in Requests : Adding(q)' => Adding(q)
    BY <2>1 DEF Adding, TypeOK
  <2>4. ASSUME NEW q \in Requests, NEW g \in Files, NEW p \in Parts
        PROVE Kept(q, g, p)'
    BY <1>0, <2>1, <2>2, <2>3 DEF TypeOK
  <2> QED
    BY <2>4 DEF AddsAreStored
<1>8. ASSUME NEW r \in Requests, NEW s \in Sizes, Validate(r, s)
      PROVE AddsAreStored'
  <2>1. PICK f \in Files : file' = [file EXCEPT ![r] = {f}]
    BY <1>8 DEF Validate
  <2>2. /\ pc[r] = "start" /\ pc' = [pc EXCEPT ![r] = "process"]
        /\ UNCHANGED <<object, kind, new, put>>
    BY <1>8 DEF Validate, Goto
  <2>3. \A q \in Requests \ {r} : pc'[q] = pc[q] /\ file'[q] = file[q]
    BY <2>1, <2>2 DEF TypeOK
  <2>4. pc'[r] = "process" /\ \A p \in Parts : put'[r][p] # "new"
    BY <2>2 DEF StagesFit, TypeOK
  <2>5. ASSUME NEW q \in Requests, NEW g \in Files, NEW p \in Parts
        PROVE Kept(q, g, p)'
    BY <1>0, <2>2, <2>3, <2>4 DEF Adding
  <2> QED
    BY <2>5 DEF AddsAreStored
<1>9. ASSUME NEW r \in Requests, NEW p \in Parts, Stored(r, p)
      PROVE AddsAreStored'
  <2>1. PICK f \in file[r] : object' = [object EXCEPT ![f][p] = new[r]]
    BY <1>9 DEF Stored, Object
  <2>2. new[r] # 0 /\ put' = [put EXCEPT ![r][p] = "new"]
        /\ UNCHANGED <<pc, kind, file, new>>
    BY <1>9 DEF Stored, Put
  <2>3. f \in Files /\ file[r] = {f}
    BY <2>1, FileOfRequest
  <2>4. \A q \in Requests, g \in Files, t \in Parts :
          /\ object[g][t] # 0 => object'[g][t] # 0
          /\ put'[q][t] = "new" => put[q][t] = "new" \/ (q = r /\ t = p)
          /\ put[q][t] = "new" => put'[q][t] = "new"
    BY <2>1, <2>2, <2>3 DEF TypeOK
  <2>5. object'[f][p] # 0
    BY <2>1, <2>2, <2>3 DEF TypeOK
  <2>6. ASSUME NEW q \in Requests, NEW g \in Files, NEW t \in Parts
        PROVE Kept(q, g, t)'
    BY <1>0, <2>2, <2>3, <2>4, <2>5 DEF Adding
  <2> QED
    BY <2>6 DEF AddsAreStored
<1>10. ASSUME NEW r \in Requests, NEW p \in Parts, Removed(r, p)
       PROVE AddsAreStored'
  <2>1. PICK f \in file[r] : object' = [object EXCEPT ![f][p] = 0]
    BY <1>10 DEF Removed, Object
  <2>2. /\ pc[r] = "store" /\ put' = [put EXCEPT ![r][p] = "gone"]
        /\ UNCHANGED <<pc, kind, file, new>>
    BY <1>10 DEF Removed, Put
  <2>3. f \in Files /\ file[r] = {f}
    BY <2>1, FileOfRequest
  <2>4. ASSUME NEW q \in Requests, NEW g \in Files, NEW t \in Parts
        PROVE Kept(q, g, t)'
    <3>1. CASE q = r
      BY <1>0, <2>1, <2>2, <2>3, <3>1 DEF Adding, TypeOK
    <3>2. CASE q # r
      <4>1. Adding(q) /\ file[q] = {g} => g # f
        BY <2>3, <3>2 DEF AddsAreAlone
      <4>2. put'[q] = put[q] /\ (g # f => object'[g] = object[g])
        BY <2>1, <2>2, <3>2 DEF TypeOK
      <4> QED
        BY <1>0, <2>2, <4>1, <4>2 DEF Adding
    <3> QED
      BY <3>1, <3>2
  <2> QED
    BY <2>4 DEF AddsAreStored
<1>11. ASSUME NEW r \in Requests, NEW f \in Files, Begins(r, f)
       PROVE AddsAreStored'
  <2>1. /\ kind[r] \notin Adds /\ file' = [file EXCEPT ![r] = {f}]
        /\ UNCHANGED <<object, kind, put>>
    BY <1>11, BeginsWithRow
  <2>2. \E to : pc' = [pc EXCEPT ![r] = to]
    BY <1>11, BeginsWithRow
  <2>3. \A q \in Requests \ {r} :
          pc'[q] = pc[q] /\ file'[q] = file[q] /\ new'[q] = new[q]
    BY <1>11, <2>1, <2>2, BeginsWithRow DEF TypeOK
  <2>4. \A q \in Requests : Adding(q)' => q # r /\ Adding(q)
    BY <2>1, <2>3 DEF Adding
  <2>5. ASSUME NEW q \in Requests, NEW g \in Files, NEW p \in Parts
        PROVE Kept(q, g, p)'
    BY <1>0, <2>1, <2>3, <2>4
  <2> QED
    BY <2>5 DEF AddsAreStored
<1> QED
  BY <1>1, <1>2, <1>3, <1>4, <1>5, <1>6, <1>7, <1>8, <1>9, <1>10, <1>11,
     StepForms

\* No step takes an object from a row, but the cleanup of an edit that failed.
LEMMA KeepsObjects == KeepInv /\ [Next]_vars => RowsHaveObjects'
<1> SUFFICES ASSUME KeepInv, [Next]_vars,
                    NEW g \in Files, NEW t \in Parts, row'[g] # 0, object'[g][t] = 0
             PROVE \E q \in Requests : file'[q] = {g} /\ put'[q][t] = "gone"
  BY DEF RowsHaveObjects
<1> USE DEF KeepInv
<1> DEFINE Excused == \E q \in Requests : file[q] = {g} /\ put[q][t] = "gone"
<1>0. row[g] # 0 /\ object[g][t] = 0 => Excused
  BY DEF RowsHaveObjects
<1>1. CASE UNCHANGED vars
  BY <1>0, <1>1 DEF vars, db, locals
<1>2. ASSUME NEW r \in Requests, Quiet(r) PROVE Excused'
  BY <1>0, <1>2, QuietEnds
<1>3. ASSUME NEW r \in Requests, Succeeds(r) PROVE Excused'
  BY <1>0, <1>3 DEF Succeeds, db, locals
<1>4. ASSUME NEW r \in Requests, Create(r) PROVE Excused'
  <2>1. pc[r] = "commit" /\ Adding(r) /\ UNCHANGED <<object, file, put>>
    BY <1>4 DEF Create, Goto, Adding, locals
  <2>2. PICK f \in Files : file[r] = {f}
    BY <2>1 DEF AddsAreAlone
  <2>3. object[f][t] # 0
    BY <2>1, <2>2 DEF AddsAreStored
  <2>4. g # f
    BY <2>1, <2>3
  <2>5. row'[g] = row[g]
    BY <1>4, <2>2, <2>4 DEF Create, TypeOK
  <2> QED
    BY <1>0, <2>1, <2>5
<1>5. ASSUME NEW r \in Requests, Update(r) PROVE Excused'
  <2>1. PICK f \in file[r] :
          row' = [row EXCEPT ![f] = IF @ = 0 THEN 0 ELSE NewSize(r)]
    BY <1>5 DEF Update
  <2>2. row[g] # 0
    BY <2>1 DEF TypeOK
  <2> QED
    BY <1>0, <1>5, <2>2 DEF Update, locals
<1>6. ASSUME NEW r \in Requests, DeleteRow(r) PROVE Excused'
  <2>1. PICK f \in file[r] : row' = [row EXCEPT ![f] = 0]
    BY <1>6 DEF DeleteRow
  <2>2. row[g] # 0
    BY <2>1 DEF TypeOK
  <2> QED
    BY <1>0, <1>6, <2>2 DEF DeleteRow, locals
<1>7. ASSUME NEW r \in Requests, DeleteObjects(r) PROVE Excused'
  <2>1. PICK f \in file[r], kept \in SUBSET Parts :
          object' = [object EXCEPT ![f] =
                       [p \in Parts |-> IF p \in kept THEN @[p] ELSE 0]]
    BY <1>7 DEF DeleteObjects
  <2>2. row[f] = 0
    BY <1>7, <2>1 DEF DeleteObjects, Goto, StagesFit
  <2>3. UNCHANGED <<row, file, put>>
    BY <1>7 DEF DeleteObjects, db, locals
  <2>4. g # f
    BY <2>2, <2>3
  <2> QED
    BY <1>0, <2>1, <2>3, <2>4 DEF TypeOK
<1>8. ASSUME NEW r \in Requests, NEW s \in Sizes, Processed(r, s) PROVE Excused'
  BY <1>0, <1>8 DEF Processed, db
<1>9. ASSUME NEW r \in Requests, NEW s \in Sizes, Validate(r, s) PROVE Excused'
  <2>1. \E f : file' = [file EXCEPT ![r] = {f}]
    BY <1>9 DEF Validate
  <2>2. file[r] = {} /\ UNCHANGED <<row, object, put>>
    BY <1>9 DEF Validate, Goto, StagesFit, db
  <2>3. \A q \in Requests : file[q] = {g} => file'[q] = {g}
    BY <2>1, <2>2 DEF TypeOK
  <2> QED
    BY <1>0, <2>2, <2>3
<1>10. ASSUME NEW r \in Requests, NEW p \in Parts, Stored(r, p) PROVE Excused'
  <2>1. PICK f \in file[r] : object' = [object EXCEPT ![f][p] = new[r]]
    BY <1>10 DEF Stored, Object
  <2>2. /\ new[r] # 0 /\ put[r][p] # "gone"
        /\ put' = [put EXCEPT ![r][p] = "new"] /\ UNCHANGED <<row, file>>
    BY <1>10 DEF Stored, Put, db
  <2>3. object[g][t] = 0
    BY <2>1, <2>2 DEF TypeOK
  <2>4. \A q \in Requests : put[q][t] = "gone" => put'[q][t] = "gone"
    BY <2>2 DEF TypeOK
  <2> QED
    BY <1>0, <2>2, <2>3, <2>4
<1>11. ASSUME NEW r \in Requests, NEW p \in Parts, Removed(r, p) PROVE Excused'
  <2>1. PICK f \in file[r] : object' = [object EXCEPT ![f][p] = 0]
    BY <1>11 DEF Removed, Object
  <2>2. put' = [put EXCEPT ![r][p] = "gone"] /\ UNCHANGED <<row, file>>
    BY <1>11 DEF Removed, Put, db
  <2>3. file[r] = {f}
    BY <2>1, FileOfRequest
  <2>4. \A q \in Requests : put[q][t] = "gone" => put'[q][t] = "gone"
    BY <2>2 DEF TypeOK
  <2>5. CASE g = f /\ t = p
    BY <2>2, <2>3, <2>5 DEF TypeOK
  <2>6. CASE ~(g = f /\ t = p)
    <3>1. object[g][t] = 0
      BY <2>1, <2>6 DEF TypeOK
    <3> QED
      BY <1>0, <2>2, <2>4, <3>1
  <2> QED
    BY <2>5, <2>6
<1>12. ASSUME NEW r \in Requests, NEW f \in Files, Begins(r, f) PROVE Excused'
  <2>1. file[r] = {} /\ UNCHANGED <<row, object, put>>
    BY <1>12, BeginsWithRow DEF StagesFit
  <2>2. file' = [file EXCEPT ![r] = {f}]
    BY <1>12, BeginsWithRow
  <2>3. \A q \in Requests : file[q] = {g} => file'[q] = {g}
    BY <2>1, <2>2 DEF TypeOK
  <2> QED
    BY <1>0, <2>1, <2>3
<1> QED
  BY <1>1, <1>2, <1>3, <1>4, <1>5, <1>6, <1>7, <1>8, <1>9, <1>10, <1>11, <1>12,
     StepForms

-----------------------------------------------------------------------------
\* The first file has its objects, and no request has begun.
LEMMA InitKeepInv == Init => KeepInv
<1> SUFFICES ASSUME Init PROVE KeepInv
  OBVIOUS
<1>1. TypeOK
  BY InitTypeOK
<1>2. \A r \in Requests : pc[r] = "start" /\ file[r] = {}
  BY DEF Init
<1>3. \A r \in Requests, p \in Parts : put[r][p] \in {"none", "old"}
  BY DEF Init
<1>4. \A f \in Files, p \in Parts : object[f][p] = row[f]
  BY DEF Init
<1>5. StagesFit
  BY <1>2, <1>3 DEF StagesFit
<1>6. AddsAreAlone /\ AddsAreStored
  BY <1>2 DEF AddsAreAlone, AddsAreStored, Adding
<1>7. RowsHaveObjects
  BY <1>4 DEF RowsHaveObjects
<1> QED
  BY <1>1, <1>5, <1>6, <1>7 DEF KeepInv

\* The inductive invariant: what is added stays whole and its request's own
\* until its row is there, and what is deleted loses its row first.
THEOREM KeepInvCorrect == Spec => []KeepInv
<1>1. KeepInv /\ [Next]_vars => KeepInv'
  BY NextTypeOK, KeepsStages, KeepsAlone, KeepsStored, KeepsObjects DEF KeepInv
<1> QED
  BY InitKeepInv, <1>1, PTL DEF Spec

\* A row without its objects is that of a file whose edit failed and cleaned
\* up, for any number of requests that meet at it.
THEOREM RowsKeepObjects == Spec => []RowsHaveObjects
<1>1. KeepInv => RowsHaveObjects
  BY DEF KeepInv
<1> QED
  BY KeepInvCorrect, <1>1, PTL

-----------------------------------------------------------------------------
(***************************************************************************)
(* Sizes.                                                                  *)
(***************************************************************************)
Step(r) ==
  \/ Quiet(r) \/ Succeeds(r) \/ Create(r) \/ Update(r)
  \/ DeleteRow(r) \/ DeleteObjects(r)
  \/ \E s \in Sizes : Processed(r, s) \/ Validate(r, s)
  \/ \E p \in Parts : Stored(r, p) \/ Removed(r, p)
  \/ \E f \in Files : Begins(r, f)

Failed == {"failed", "unsaved"}

\* A failed edit or upload changed the object, or may have.
Spoilt(f) ==
  \E r \in Requests :
    file[r] = {f} /\ put[r]["video"] \in {"new", "gone"} /\ pc[r] \in Failed

\* No two requests are at one file, unless it is in contended.
Alone(q) ==
  \A f \in Files \ contended : Active(q) /\ file[q] = {f} =>
    \A r \in Requests : Active(r) /\ file[r] = {f} => r = q

\* What a request has put is the video in the bucket until it commits.
PutIsThere(q) ==
  \A f \in Files \ contended :
    Active(q) /\ file[q] = {f} /\ put[q]["video"] = "new" =>
      object[f]["video"] = new[q] \/ Spoilt(f)

\* A request commits what it has put, or the size that a rename read.
CommitsTruth(q) ==
  /\ put[q]["video"] \in {"new", "gone"} => kind[q] \in Adds \cup {"edit"}
  /\ pc[q] = "commit" => put[q]["video"] = "new" \/ kind[q] = "rename"
  /\ \A f \in Files \ contended :
       kind[q] = "rename" /\ pc[q] = "commit" /\ file[q] = {f} => new[q] = row[f]

SizeInv ==
  /\ \A q \in Requests : Alone(q) /\ PutIsThere(q) /\ CommitsTruth(q)
  /\ SizesAreTrue

\* A step is one of one request: what the others hold stays.
LEMMA OthersStay ==
  ASSUME TypeOK, NEW r \in Requests, Step(r)
  PROVE  /\ kind' = kind /\ contended \subseteq contended'
         /\ \A q \in Requests \ {r} :
              /\ pc'[q] = pc[q] /\ file'[q] = file[q]
              /\ new'[q] = new[q] /\ put'[q] = put[q]
<1> USE DEF TypeOK, Goto, db, locals
<1>1. CASE Quiet(r)
  BY <1>1 DEF Quiet, Fail, CommitFails, NotFound, DeleteStats, StatsFail, NoSpace
<1>2. CASE Succeeds(r) \/ Create(r) \/ Update(r) \/ DeleteRow(r) \/ DeleteObjects(r)
  BY <1>2 DEF Succeeds, Create, Update, DeleteRow, DeleteObjects
<1>3. CASE \E s \in Sizes : Processed(r, s) \/ Validate(r, s)
  BY <1>3 DEF Processed, Validate
<1>4. CASE \E p \in Parts : Stored(r, p) \/ Removed(r, p)
  BY <1>4 DEF Stored, Removed, Put
<1>5. CASE \E f \in Files : Begins(r, f)
  BY <1>5 DEF Begins, Edit, Rename, Delete, Find
<1> QED
  BY <1>1, <1>2, <1>3, <1>4, <1>5 DEF Step

\* Which steps start, put and end.
LEMMA OwnMoves ==
  ASSUME TypeOK, StagesFit, NEW r \in Requests, Step(r)
  PROVE  /\ pc[r] \notin Failed \/ (pc'[r] \in Failed /\ file'[r] = file[r])
         /\ put[r]["video"] \in {"new", "gone"} =>
              put'[r]["video"] \in {"new", "gone"} /\ file'[r] = file[r]
         /\ pc[r] # "done" /\ pc'[r] = "done" =>
              Create(r) \/ Update(r) \/ kind[r] = "delete"
         /\ pc[r] # "commit" /\ pc'[r] = "commit" =>
              (Succeeds(r) \/ \E f \in Files : Rename(r, f))
         /\ Active(r)' => (\/ Active(r) /\ file'[r] = file[r]
                           \/ (\E s \in Sizes : Validate(r, s))
                           \/ (\E f \in Files : Begins(r, f)))
<1> USE DEF TypeOK, Goto, db, locals, Active, Ended, Failed
<1>1. CASE Quiet(r)
  BY <1>1 DEF Quiet, Fail, CommitFails, NotFound, DeleteStats, StatsFail, NoSpace, StagesFit
<1>2. CASE Succeeds(r) \/ Create(r) \/ Update(r) \/ DeleteRow(r) \/ DeleteObjects(r)
  BY <1>2 DEF Succeeds, Create, Update, DeleteRow, DeleteObjects
<1>3. CASE \E s \in Sizes : Processed(r, s)
  BY <1>3 DEF Processed
<1>4. CASE \E s \in Sizes : Validate(r, s)
  BY <1>4 DEF Validate, StagesFit, Parts
<1>5. CASE \E p \in Parts : Stored(r, p)
  BY <1>5 DEF Stored, Put
<1>6. CASE \E p \in Parts : Removed(r, p)
  BY <1>6 DEF Removed, Put
<1>7. CASE \E f \in Files : Begins(r, f)
  <2>1. pc[r] = "start" /\ "video" \in Parts
    BY <1>7, BeginsWithRow DEF Parts
  <2>2. put[r]["video"] \notin {"new", "gone"}
    BY <2>1 DEF StagesFit
  <2>3. PICK f \in Files : Begins(r, f)
    BY <1>7
  <2>4. CASE Edit(r, f) \/ Delete(r, f)
    BY <2>1, <2>2, <2>3, <2>4 DEF Edit, Delete, Find
  <2>5. CASE Rename(r, f)
    BY <2>1, <2>2, <2>3, <2>5 DEF Rename, Find
  <2> QED
    BY <2>3, <2>4, <2>5 DEF Begins
<1> QED
  BY <1>1, <1>2, <1>3, <1>4, <1>5, <1>6, <1>7 DEF Step

\* A failed request stays one.
LEMMA SpoiltStays ==
  ASSUME TypeOK, StagesFit, NEW r \in Requests, Step(r), NEW f \in Files, Spoilt(f)
  PROVE  Spoilt(f)'
<1>1. PICK q \in Requests :
        file[q] = {f} /\ put[q]["video"] \in {"new", "gone"} /\ pc[q] \in Failed
  BY DEF Spoilt
<1>2. file'[q] = {f} /\ put'[q]["video"] \in {"new", "gone"} /\ pc'[q] \in Failed
  BY <1>1, OthersStay, OwnMoves
<1> QED
  BY <1>2 DEF Spoilt

LEMMA KeepsAloneAtFile ==
  ASSUME KeepInv, SizeInv, NEW r \in Requests, Step(r), NEW q \in Requests
  PROVE  Alone(q)'
<1> USE DEF KeepInv
<1> SUFFICES ASSUME NEW f \in Files, f \notin contended', Active(q)', file'[q] = {f},
                    NEW p \in Requests, Active(p)', file'[p] = {f}
             PROVE  p = q
  BY DEF Alone
<1>1. f \notin contended
  BY OthersStay
<1>2. \A t \in Requests \ {r} : Active(t)' => Active(t) /\ file'[t] = file[t]
  BY OthersStay DEF Active
<1>3. CASE Active(r) /\ file'[r] = file[r]
  BY <1>1, <1>2, <1>3 DEF SizeInv, Alone
<1>4. CASE \E s \in Sizes : Validate(r, s)
  <2>1. PICK g \in Files : /\ \A t \in Requests : file[t] # {g}
                           /\ file' = [file EXCEPT ![r] = {g}]
    BY <1>4 DEF Validate
  <2>2. CASE f = g
    BY <1>2, <2>1, <2>2
  <2>3. CASE f # g
    BY <1>1, <1>2, <2>1, <2>3 DEF SizeInv, Alone, TypeOK
  <2> QED
    BY <2>2, <2>3
<1>5. CASE \E g \in Files : Begins(r, g)
  <2>1. PICK g \in Files :
          /\ file' = [file EXCEPT ![r] = {g}]
          /\ \A t \in Requests : Active(t) /\ file[t] = {g} => g \in contended'
    BY <1>5 DEF Begins, Edit, Rename, Delete, Find
  <2>2. CASE f = g
    BY <1>2, <2>1, <2>2
  <2>3. CASE f # g
    BY <1>1, <1>2, <2>1, <2>3 DEF SizeInv, Alone, TypeOK
  <2> QED
    BY <2>2, <2>3
<1>6. CASE ~Active(r)'
  BY <1>1, <1>2, <1>6 DEF SizeInv, Alone
<1> QED
  BY <1>3, <1>4, <1>5, <1>6, OwnMoves

\* A request that has put its video goes on with it.
LEMMA OwnPut ==
  ASSUME TypeOK, StagesFit, NEW r \in Requests, Step(r), Active(r)',
         ~\E p \in Parts : Stored(r, p), put'[r]["video"] = "new",
         CommitsTruth(r)
  PROVE  put[r]["video"] = "new" /\ Active(r) /\ UNCHANGED <<file[r], new[r]>>
<1> USE DEF TypeOK, Goto, db, locals, Active, Ended
<1>0. "video" \in Parts
  BY DEF Parts
<1>1. CASE Quiet(r)
  BY <1>1, QuietEnds DEF Ends
<1>2. CASE Succeeds(r) \/ Create(r) \/ Update(r) \/ DeleteRow(r) \/ DeleteObjects(r)
  BY <1>2 DEF Succeeds, Create, Update, DeleteRow, DeleteObjects
<1>3. CASE \E s \in Sizes : Processed(r, s) \/ Validate(r, s)
  BY <1>0, <1>3 DEF Processed, Validate, StagesFit
<1>4. CASE \E p \in Parts : Removed(r, p)
  BY <1>4 DEF Removed, Put
<1>5. CASE \E f \in Files : Begins(r, f)
  <2>1. put'[r]["video"] = put[r]["video"] /\ pc[r] = "start"
    BY <1>5, BeginsWithRow
  <2> QED
    BY <1>0, <2>1 DEF StagesFit
<1> QED
  BY <1>1, <1>2, <1>3, <1>4, <1>5 DEF Step

\* Only puts, cleanups and deletions touch the objects.
LEMMA ObjectsStay ==
  ASSUME TypeOK, NEW r \in Requests, Step(r), ~DeleteObjects(r),
         ~\E p \in Parts : Stored(r, p) \/ Removed(r, p)
  PROVE  UNCHANGED object
<1>1. CASE Quiet(r)
  BY <1>1, QuietEnds
<1>2. CASE Succeeds(r) \/ Create(r) \/ Update(r) \/ DeleteRow(r)
  BY <1>2 DEF Succeeds, Create, Update, DeleteRow
<1>3. CASE \E s \in Sizes : Processed(r, s) \/ Validate(r, s)
  BY <1>3 DEF Processed, Validate
<1>4. CASE \E f \in Files : Begins(r, f)
  BY <1>4, BeginsWithRow
<1> QED
  BY <1>1, <1>2, <1>3, <1>4 DEF Step

LEMMA KeepsPut ==
  ASSUME KeepInv, SizeInv, NEW r \in Requests, Step(r), NEW q \in Requests
  PROVE  PutIsThere(q)'
<1> USE DEF KeepInv
<1> SUFFICES ASSUME NEW f \in Files, f \notin contended', Active(q)', file'[q] = {f},
                    put'[q]["video"] = "new"
             PROVE  object'[f]["video"] = new'[q] \/ Spoilt(f)'
  BY DEF PutIsThere
<1>0. f \notin contended /\ "video" \in Parts
  BY OthersStay DEF Parts
<1>1. CASE \E p \in Parts : Stored(r, p)
  <2>1. PICK p \in Parts, g \in file[r] :
          /\ pc[r] \in {"store", "failed"} /\ pc' = pc /\ file' = file /\ new' = new
          /\ put' = [put EXCEPT ![r][p] = "new"]
          /\ object' = [object EXCEPT ![g][p] = new[r]]
    BY <1>1 DEF Stored, Put, Object
  <2>2. g \in Files /\ file[r] = {g}
    BY FileOfRequest
  <2>3. CASE g = f /\ p = "video"
    <3>1. CASE pc[r] = "failed"
      <4>1. put'[r]["video"] = "new"
        BY <2>1, <2>3 DEF TypeOK
      <4> QED
        BY <2>1, <2>2, <2>3, <3>1, <4>1 DEF Spoilt, Failed
    <3>2. CASE pc[r] = "store"
      <4>1. q = r
        BY <1>0, <2>1, <2>2, <2>3, <3>2 DEF SizeInv, Alone, Active, Ended
      <4> QED
        BY <2>1, <2>2, <2>3, <4>1 DEF TypeOK
    <3> QED
      BY <2>1, <3>1, <3>2
  <2>4. CASE ~(g = f /\ p = "video")
    <3>1. object'[f]["video"] = object[f]["video"]
      BY <2>1, <2>2, <2>4 DEF TypeOK
    <3>2. CASE put[q]["video"] = "new"
      BY <1>0, <2>1, <3>1, <3>2, SpoiltStays DEF SizeInv, PutIsThere, Active
    <3>3. CASE put[q]["video"] # "new"
      <4>1. q = r /\ p = "video"
        BY <2>1, <3>3 DEF TypeOK
      <4> QED
        BY <2>1, <2>2, <2>4, <4>1
    <3> QED
      BY <3>2, <3>3
  <2> QED
    BY <2>3, <2>4
<1>2. CASE ~\E p \in Parts : Stored(r, p)
  <2>1. put[q]["video"] = "new" /\ Active(q) /\ file[q] = {f} /\ new'[q] = new[q]
    <3>1. CASE q # r
      BY <3>1, OthersStay DEF Active
    <3>2. CASE q = r
      BY <1>0, <1>2, <3>2, OwnPut DEF SizeInv
    <3> QED
      BY <3>1, <3>2
  <2>2. object[f]["video"] = new[q] \/ Spoilt(f)
    BY <1>0, <2>1 DEF SizeInv, PutIsThere
  <2>3. object'[f]["video"] = object[f]["video"]
    <3>1. CASE DeleteObjects(r) \/ \E p \in Parts : Removed(r, p)
      <4>1. PICK g \in file[r] : \A h \in Files \ {g} : object'[h] = object[h]
        BY <3>1 DEF DeleteObjects, Removed, Object, TypeOK
      <4>2. g \in Files /\ file[r] = {g} /\ Active(r)
        BY <3>1, FileOfRequest DEF DeleteObjects, Removed, Goto, Active, Ended
      <4>3. CASE g # f
        BY <4>1, <4>3
      <4>4. CASE g = f
        <5>1. q = r
          BY <1>0, <2>1, <4>2, <4>4 DEF SizeInv, Alone
        <5>2. kind[r] # "delete"
          BY <2>1, <5>1 DEF SizeInv, CommitsTruth, Adds
        <5>3. PICK p \in Parts : Removed(r, p)
          BY <3>1, <5>2 DEF DeleteObjects, Goto, StagesFit
        <5>4. p # "video"
          BY <5>1, <5>3 DEF Removed, Put, TypeOK
        <5> QED
          BY <4>2, <4>4, <5>3, <5>4 DEF Removed, Object, TypeOK
      <4> QED
        BY <4>3, <4>4
    <3>2. CASE ~(DeleteObjects(r) \/ \E p \in Parts : Removed(r, p))
      <4>1. UNCHANGED object
        BY <1>2, <3>2, ObjectsStay
      <4> QED
        BY <4>1
    <3> QED
      BY <3>1, <3>2
  <2> QED
    BY <2>1, <2>2, <2>3, SpoiltStays
<1> QED
  BY <1>1, <1>2

\* What a put and a cleanup have in common.
LEMMA StoreForm ==
  ASSUME TypeOK, NEW r \in Requests, NEW p \in Parts, Stored(r, p) \/ Removed(r, p)
  PROVE  \E g \in file[r], s \in Sizes \cup {0}, b \in {"new", "gone"} :
           /\ row' = row /\ pc' = pc /\ file' = file /\ pc[r] # "done"
           /\ object' = [object EXCEPT ![g][p] = s]
           /\ put' = [put EXCEPT ![r][p] = b]
BY DEF Stored, Removed, Put, Object, db, TypeOK

\* Which rows a step changes.
LEMMA RowsStay ==
  ASSUME TypeOK, NEW r \in Requests, Step(r), NEW f \in Files, row'[f] # row[f]
  PROVE  /\ Active(r) /\ file[r] = {f} /\ kind' = kind
         /\ Create(r) \/ Update(r) \/ DeleteRow(r)
<1> USE DEF TypeOK, Goto, db, locals, Active, Ended
<1>1. CASE Quiet(r)
  BY <1>1, QuietEnds
<1>2. CASE Succeeds(r) \/ DeleteObjects(r)
  BY <1>2 DEF Succeeds, DeleteObjects
<1>3. CASE Create(r) \/ Update(r) \/ DeleteRow(r)
  <2>1. PICK g \in file[r] : \A h \in Files \ {g} : row'[h] = row[h]
    BY <1>3 DEF Create, Update, DeleteRow
  <2>2. g = f /\ file[r] = {g}
    BY <2>1, FileOfRequest
  <2> QED
    BY <1>3, <2>2 DEF Create, Update, DeleteRow
<1>4. CASE \E s \in Sizes : Processed(r, s) \/ Validate(r, s)
  BY <1>4 DEF Processed, Validate
<1>5. CASE \E p \in Parts : Stored(r, p) \/ Removed(r, p)
  BY <1>5 DEF Stored, Removed
<1>6. CASE \E g \in Files : Begins(r, g)
  BY <1>6, BeginsWithRow
<1> QED
  BY <1>1, <1>2, <1>3, <1>4, <1>5, <1>6 DEF Step

\* The steps by which a request comes to what it commits.
LEMMA OwnTruth ==
  ASSUME KeepInv, NEW r \in Requests, Step(r), CommitsTruth(r)
  PROVE  /\ put'[r]["video"] \in {"new", "gone"} => kind[r] \in Adds \cup {"edit"}
         /\ pc'[r] = "commit" => put'[r]["video"] = "new" \/ kind[r] = "rename"
         /\ \A f \in Files :
              kind[r] = "rename" /\ pc'[r] = "commit" /\ file'[r] = {f} =>
                \/ pc[r] = "commit" /\ file[r] = {f} /\ new'[r] = new[r]
                \/ pc[r] # "commit" /\ new'[r] = row[f]
<1> USE DEF KeepInv, TypeOK, Goto, db, locals
<1>0. "video" \in Parts
  BY DEF Parts
<1>1. CASE Quiet(r)
  BY <1>1, QuietEnds DEF Ends, Ended, CommitsTruth
<1>2. CASE Succeeds(r)
  BY <1>0, <1>2 DEF Succeeds, CommitsTruth, Adds
<1>3. CASE Create(r) \/ Update(r) \/ DeleteRow(r) \/ DeleteObjects(r)
  BY <1>3 DEF Create, Update, DeleteRow, DeleteObjects, CommitsTruth
<1>4. CASE \E s \in Sizes : Processed(r, s) \/ Validate(r, s)
  BY <1>4 DEF Processed, Validate, CommitsTruth
<1>5. CASE \E p \in Parts : Stored(r, p)
  BY <1>5 DEF Stored, Put, CommitsTruth
<1>6. CASE \E p \in Parts : Removed(r, p)
  BY <1>6 DEF Removed, Put, CommitsTruth
<1>7. CASE \E f \in Files : Begins(r, f)
  <2>1. PICK f \in Files : Begins(r, f)
    BY <1>7
  <2>2. put'[r] = put[r] /\ pc[r] = "start"
    BY <2>1, BeginsWithRow
  <2>3. CASE Edit(r, f) \/ Delete(r, f)
    BY <2>2, <2>3 DEF Edit, Delete, Find, CommitsTruth
  <2>4. CASE Rename(r, f)
    BY <2>2, <2>4 DEF Rename, Find, CommitsTruth
  <2> QED
    BY <2>1, <2>3, <2>4 DEF Begins
<1> QED
  BY <1>1, <1>2, <1>3, <1>4, <1>5, <1>6, <1>7 DEF Step

LEMMA KeepsTruth ==
  ASSUME KeepInv, SizeInv, NEW r \in Requests, Step(r), NEW q \in Requests
  PROVE  CommitsTruth(q)'
<1> USE DEF KeepInv
<1>0. kind' = kind /\ CommitsTruth(q)
  BY OthersStay DEF SizeInv
<1>1. /\ put'[q]["video"] \in {"new", "gone"} => kind'[q] \in Adds \cup {"edit"}
      /\ pc'[q] = "commit" => put'[q]["video"] = "new" \/ kind'[q] = "rename"
  <2>1. CASE q = r
    BY <1>0, <2>1, OwnTruth
  <2>2. CASE q # r
    BY <1>0, <2>2, OthersStay DEF CommitsTruth
  <2> QED
    BY <2>1, <2>2
<1>2. ASSUME NEW f \in Files, f \notin contended', kind'[q] = "rename",
             pc'[q] = "commit", file'[q] = {f}
      PROVE  new'[q] = row'[f]
  <2>1. f \notin contended
    BY <1>2, OthersStay
  <2>2. \/ Active(q) /\ file[q] = {f} /\ new'[q] = row[f]
        \/ q = r /\ pc[r] # "commit" /\ new'[q] = row[f]
    <3>1. CASE q # r
      BY <1>0, <1>2, <2>1, <3>1, OthersStay DEF CommitsTruth, Active, Ended
    <3>2. CASE q = r
      BY <1>0, <1>2, <2>1, <3>2, OwnTruth DEF CommitsTruth, Active, Ended
    <3> QED
      BY <3>1, <3>2
  <2>3. row'[f] = row[f]
    <3> SUFFICES ASSUME row'[f] # row[f] PROVE FALSE
      OBVIOUS
    <3>1. /\ Active(r) /\ file[r] = {f}
          /\ Create(r) \/ Update(r) \/ DeleteRow(r)
      BY RowsStay
    <3>2. pc'[r] # "commit"
      BY <3>1 DEF Create, Update, DeleteRow, Goto, TypeOK
    <3>3. q = r
      BY <2>1, <2>2, <3>1 DEF SizeInv, Alone
    <3> QED
      BY <1>2, <3>2, <3>3
  <2> QED
    BY <2>2, <2>3
<1> QED
  BY <1>1, <1>2 DEF CommitsTruth

\* The size that a commit writes is that of the video in the bucket.
LEMMA CommitIsTrue ==
  ASSUME KeepInv, SizeInv, NEW r \in Requests, Create(r) \/ Update(r),
         NEW f \in Files, f \notin contended, file[r] = {f}
  PROVE  \/ row'[f] = 0 \/ row'[f] = object[f]["video"]
         \/ Spoilt(f)
         \/ row'[f] = row[f] /\ put[r]["video"] \notin {"new", "gone"}
<1> USE DEF KeepInv
<1>1. pc[r] = "commit" /\ Active(r) /\ row'[f] \in {0, new[r]}
  BY FileOfRequest DEF Create, Update, Goto, NewSize, TypeOK, Active, Ended
<1>2. CASE put[r]["video"] = "new"
  BY <1>1, <1>2 DEF SizeInv, PutIsThere
<1>3. CASE put[r]["video"] # "new"
  BY <1>1, <1>3 DEF SizeInv, CommitsTruth, Adds
<1> QED
  BY <1>2, <1>3

LEMMA KeepsSizes ==
  ASSUME KeepInv, SizeInv, NEW r \in Requests, Step(r)
  PROVE  SizesAreTrue'
<1> USE DEF KeepInv
<1> DEFINE Excuse(f) ==
             \E q \in Requests :
               file[q] = {f} /\ put[q]["video"] \in {"new", "gone"} /\ pc[q] # "done"
<1> SUFFICES ASSUME NEW f \in Files, f \notin contended',
                    row'[f] # 0, row'[f] # object'[f]["video"]
             PROVE  Excuse(f)'
  BY DEF SizesAreTrue
<1>0. f \notin contended /\ "video" \in Parts
  BY OthersStay DEF Parts
<1>1. CASE Create(r) \/ Update(r)
  <2>1. object' = object
    BY <1>1 DEF Create, Update
  <2>2. CASE Spoilt(f)
    BY <2>2, SpoiltStays DEF Spoilt, Failed
  <2>3. CASE file[r] = {f} /\ ~Spoilt(f)
    <3>1. row'[f] = row[f] /\ put[r]["video"] \notin {"new", "gone"}
      BY <1>0, <1>1, <2>1, <2>3, CommitIsTrue
    <3>2. PICK q \in Requests :
            file[q] = {f} /\ put[q]["video"] \in {"new", "gone"} /\ pc[q] # "done"
      BY <1>0, <2>1, <3>1 DEF SizeInv, SizesAreTrue
    <3>3. q # r
      BY <3>1, <3>2
    <3> QED
      BY <3>2, <3>3, OthersStay
  <2>4. CASE file[r] # {f}
    <3>1. row'[f] = row[f]
      BY <2>4, RowsStay
    <3>2. PICK q \in Requests :
            file[q] = {f} /\ put[q]["video"] \in {"new", "gone"} /\ pc[q] # "done"
      BY <1>0, <2>1, <3>1 DEF SizeInv, SizesAreTrue
    <3>3. q # r
      BY <2>4, <3>2
    <3> QED
      BY <3>2, <3>3, OthersStay
  <2> QED
    BY <2>2, <2>3, <2>4
<1>2. ASSUME NEW p \in Parts, Stored(r, p) \/ Removed(r, p) PROVE Excuse(f)'
  <2>1. PICK g \in file[r], s \in Sizes \cup {0}, b \in {"new", "gone"} :
          /\ row' = row /\ pc' = pc /\ file' = file /\ pc[r] # "done"
          /\ object' = [object EXCEPT ![g][p] = s]
          /\ put' = [put EXCEPT ![r][p] = b]
    BY <1>2, StoreForm
  <2>2. g \in Files /\ file[r] = {g}
    BY FileOfRequest
  <2>3. CASE g = f /\ p = "video"
    <3>1. put'[r]["video"] = b
      BY <2>1, <2>3 DEF TypeOK
    <3> QED
      BY <2>1, <2>2, <2>3, <3>1
  <2>4. CASE ~(g = f /\ p = "video")
    <3>1. object'[f]["video"] = object[f]["video"]
      BY <2>1, <2>2, <2>4 DEF TypeOK
    <3>2. PICK q \in Requests :
            file[q] = {f} /\ put[q]["video"] \in {"new", "gone"} /\ pc[q] # "done"
      BY <1>0, <2>1, <3>1 DEF SizeInv, SizesAreTrue
    <3>3. put'[q]["video"] \in {"new", "gone"}
      BY <2>1, <3>2 DEF TypeOK
    <3> QED
      BY <2>1, <3>2, <3>3
  <2> QED
    BY <2>3, <2>4
<1>3. CASE ~(Create(r) \/ Update(r)) /\ ~\E p \in Parts : Stored(r, p) \/ Removed(r, p)
  <2>1. row'[f] = row[f]
    BY <1>3, RowsStay DEF DeleteRow, TypeOK
  <2>2. object'[f] = object[f]
    <3>1. CASE DeleteObjects(r)
      <4>1. PICK g \in file[r] : \A h \in Files \ {g} : object'[h] = object[h]
        BY <3>1 DEF DeleteObjects, TypeOK
      <4>2. row[g] = 0 /\ g \in Files
        BY <3>1, FileOfRequest DEF DeleteObjects, Goto, StagesFit
      <4> QED
        BY <2>1, <4>1, <4>2
    <3>2. CASE ~DeleteObjects(r)
      BY <1>3, <3>2, ObjectsStay
    <3> QED
      BY <3>1, <3>2
  <2>3. PICK q \in Requests :
          file[q] = {f} /\ put[q]["video"] \in {"new", "gone"} /\ pc[q] # "done"
    BY <1>0, <2>1, <2>2 DEF SizeInv, SizesAreTrue
  <2>4. CASE q # r
    BY <2>3, <2>4, OthersStay
  <2>5. CASE q = r
    <3>1. kind[r] # "delete"
      BY <2>3, <2>5 DEF SizeInv, CommitsTruth, Adds
    <3>2. put'[r]["video"] \in {"new", "gone"} /\ file'[r] = {f} /\ pc'[r] # "done"
      BY <1>3, <2>3, <2>5, <3>1, OwnMoves
    <3> QED
      BY <3>2
  <2> QED
    BY <2>4, <2>5
<1> QED
  BY <1>1, <1>2, <1>3

LEMMA InitSizeInv == Init => SizeInv
<1> SUFFICES ASSUME Init PROVE SizeInv
  OBVIOUS
<1>1. "video" \in Parts
  BY DEF Parts
<1>2. \A r \in Requests : pc[r] = "start" /\ put[r]["video"] \in {"none", "old"}
  BY <1>1 DEF Init
<1>3. \A f \in Files : object[f]["video"] = row[f]
  BY <1>1 DEF Init
<1>4. SizesAreTrue
  BY <1>3 DEF SizesAreTrue
<1>5. ASSUME NEW q \in Requests PROVE Alone(q) /\ PutIsThere(q) /\ CommitsTruth(q)
  BY <1>2 DEF Alone, PutIsThere, CommitsTruth, Active
<1> QED
  BY <1>4, <1>5 DEF SizeInv

LEMMA StutterKeepsSizes == SizeInv /\ UNCHANGED vars => SizeInv'
<1> SUFFICES ASSUME SizeInv, UNCHANGED vars PROVE SizeInv'
  OBVIOUS
<1> USE DEF vars, db, locals
<1>1. SizesAreTrue'
  BY DEF SizeInv, SizesAreTrue
<1>2. ASSUME NEW q \in Requests
      PROVE  Alone(q)' /\ PutIsThere(q)' /\ CommitsTruth(q)'
  BY DEF SizeInv, Alone, PutIsThere, CommitsTruth, Spoilt, Active
<1> QED
  BY <1>1, <1>2 DEF SizeInv

LEMMA NextSizeInv == KeepInv /\ SizeInv /\ [Next]_vars => SizeInv'
<1> SUFFICES ASSUME KeepInv, SizeInv, Next PROVE SizeInv'
  BY StutterKeepsSizes
<1>1. PICK r \in Requests : Step(r)
  BY StepForms DEF Step
<1> QED
  BY <1>1, KeepsAloneAtFile, KeepsPut, KeepsTruth, KeepsSizes DEF SizeInv

\* The size in a row is that of the video in the bucket, except for an edit
\* between its put and its commit (SizesAreTrue).
THEOREM SizesStayTrue == Spec => []SizesAreTrue
<1>1. SizeInv => SizesAreTrue
  BY DEF SizeInv
<1> QED
  BY <1>1, InitSizeInv, NextSizeInv, KeepInvCorrect, PTL DEF Spec

-----------------------------------------------------------------------------
(***************************************************************************)
(* Counters.                                                               *)
(***************************************************************************)
Rows == {f \in Files : row[f] # 0}

\* Until its transaction, a request that found a row has read what is in it:
\* as long as no two requests are at one file.
ReadsTrue(q) ==
  pc[q] \in {"process", "store", "commit", "row"} /\ kind[q] \notin Adds =>
    /\ original[q] # 0
    /\ \E f \in Files : file[q] = {f} /\ row[f] = original[q]
    /\ pc[q] \in {"store", "commit"} => new[q] # 0

StatsInv ==
  contended = {} => StatsMatchRows /\ \A q \in Requests : ReadsTrue(q)

\* StatsMatchRows with the sums of Sums.
CountersFit ==
  contended = {} =>
    /\ used = Total(row, Files) + Total(original, Owing)
    /\ uploaded = Cardinality(Rows) + Cardinality(Owing)

LEMMA StatsAreSums == StatsMatchRows <=> CountersFit
BY DEF StatsMatchRows, CountersFit, Total, Rows

LEMMA StatsAreSumsNext == StatsMatchRows' <=> CountersFit'
BY StatsAreSums, PTL

LEMMA NewIsSize ==
  ASSUME TypeOK, NEW r \in Requests
  PROVE  new[r] \in Sizes \cup {0} /\ new[r] \in Int
<1>1. Sizes \cup {0} \subseteq Int
  BY LibraryAssumption
<1> QED
  BY <1>1 DEF TypeOK

LEMMA SumsAreIntegers ==
  ASSUME TypeOK
  PROVE  /\ IsFiniteSet(Files) /\ IsFiniteSet(Owing) /\ IsFiniteSet(Rows)
         /\ \A f \in Files : row[f] \in Int
         /\ \A q \in Requests : original[q] \in Int
         /\ Total(row, Files) \in Int /\ Total(original, Owing) \in Int
         /\ Cardinality(Rows) \in Int /\ Cardinality(Owing) \in Int
<1>1. IsFiniteSet(Files) /\ IsFiniteSet(Owing) /\ IsFiniteSet(Rows)
  BY LibraryAssumption, FS_Subset DEF Owing, Rows
<1>2. /\ \A f \in Files : row[f] \in Int
      /\ \A q \in Requests : original[q] \in Int
  <2>1. Sizes \cup {0} \subseteq Int
    BY LibraryAssumption
  <2> QED
    BY <2>1 DEF TypeOK
<1>3. Owing \subseteq Requests
  BY DEF Owing
<1>4. Total(row, Files) \in Int /\ Total(original, Owing) \in Int
  BY <1>1, <1>2, <1>3, TotalType
<1>5. Cardinality(Rows) \in Int /\ Cardinality(Owing) \in Int
  BY <1>1, FS_CardinalityType
<1> QED
  BY <1>1, <1>2, <1>4, <1>5

\* What each request read, and what is owed, changes as the request goes.
LEMMA OriginalsStay ==
  ASSUME TypeOK, NEW r \in Requests, Step(r)
  PROVE  /\ \A q \in Requests \ {r} : original'[q] = original[q]
         /\ original'[r] # original[r] =>
              /\ pc[r] = "start"
              /\ (\E s \in Sizes : Validate(r, s)) \/ (\E f \in Files : Begins(r, f))
<1> USE DEF TypeOK, Goto, db, locals
<1>1. CASE Quiet(r)
  BY <1>1 DEF Quiet, Fail, CommitFails, NotFound, DeleteStats, StatsFail, NoSpace
<1>2. CASE Succeeds(r) \/ Create(r) \/ Update(r) \/ DeleteRow(r) \/ DeleteObjects(r)
  BY <1>2 DEF Succeeds, Create, Update, DeleteRow, DeleteObjects
<1>3. CASE \E s \in Sizes : Processed(r, s) \/ Validate(r, s)
  BY <1>3 DEF Processed, Validate
<1>4. CASE \E p \in Parts : Stored(r, p) \/ Removed(r, p)
  BY <1>4 DEF Stored, Removed
<1>5. CASE \E f \in Files : Begins(r, f)
  BY <1>5 DEF Begins, Edit, Rename, Delete, Find
<1> QED
  BY <1>1, <1>2, <1>3, <1>4, <1>5 DEF Step

\* A request's own steps keep what it read, or read it.
LEMMA OwnReads ==
  ASSUME KeepInv, NEW r \in Requests, Step(r), ReadsTrue(r),
         ~(Create(r) \/ Update(r) \/ DeleteRow(r))
  PROVE  ReadsTrue(r)'
<1> USE DEF KeepInv, TypeOK, Goto, db, locals
<1>1. CASE Quiet(r)
  BY <1>1, QuietEnds DEF Ends, Ended, ReadsTrue
<1>2. CASE Succeeds(r) \/ DeleteObjects(r)
  BY <1>2 DEF Succeeds, DeleteObjects, ReadsTrue
<1>3. CASE \E s \in Sizes : Processed(r, s)
  BY <1>3, LibraryAssumption DEF Processed, ReadsTrue
<1>4. CASE \E s \in Sizes : Validate(r, s)
  BY <1>4 DEF Validate, ReadsTrue
<1>5. CASE \E p \in Parts : Stored(r, p) \/ Removed(r, p)
  BY <1>5 DEF Stored, Removed, ReadsTrue
<1>6. CASE \E f \in Files : Begins(r, f)
  BY <1>6 DEF Begins, Edit, Rename, Delete, Find, ReadsTrue
<1> QED
  BY <1>1, <1>2, <1>3, <1>4, <1>5, <1>6 DEF Step

LEMMA KeepsReads ==
  ASSUME KeepInv, SizeInv, NEW r \in Requests, Step(r), contended' = {},
         NEW q \in Requests, ReadsTrue(q)
  PROVE  ReadsTrue(q)'
<1> USE DEF KeepInv
<1>1. CASE q = r /\ (Create(r) \/ Update(r) \/ DeleteRow(r))
  <2>1. pc'[q] \in {"done", "objects"}
    BY <1>1 DEF Create, Update, DeleteRow, Goto, TypeOK
  <2> QED
    BY <2>1 DEF ReadsTrue
<1>2. CASE q = r /\ ~(Create(r) \/ Update(r) \/ DeleteRow(r))
  BY <1>2, OwnReads
<1>3. CASE q # r
  <2> SUFFICES ASSUME pc[q] \in {"process", "store", "commit", "row"},
                      kind[q] \notin Adds
               PROVE  ReadsTrue(q)'
    BY <1>3, OthersStay DEF ReadsTrue
  <2>1. PICK f \in Files : file[q] = {f} /\ row[f] = original[q]
    BY DEF ReadsTrue
  <2>2. contended = {}
    BY OthersStay
  <2>3. row'[f] = row[f]
    BY <1>3, <2>1, <2>2, RowsStay DEF SizeInv, Alone, Active, Ended
  <2> QED
    BY <1>3, <2>1, <2>3, OthersStay, OriginalsStay DEF ReadsTrue
<1> QED
  BY <1>1, <1>2, <1>3

\* What the counters and their sums do at each step.
Counts(r) == Create(r) \/ Update(r) \/ DeleteRow(r) \/ DeleteStats(r)

LEMMA OwingStays ==
  ASSUME TypeOK, StagesFit, NEW r \in Requests, Step(r)
  PROVE  Owing' = CASE DeleteRow(r) -> Owing \cup {r}
                    [] DeleteStats(r) -> Owing \ {r}
                    [] OTHER -> Owing
<1> USE DEF TypeOK, Goto, db, locals, Owing
<1>1. CASE DeleteRow(r)
  BY <1>1 DEF DeleteRow, DeleteStats
<1>2. CASE DeleteStats(r)
  BY <1>2 DEF DeleteRow, DeleteStats
<1>3. CASE ~DeleteRow(r) /\ ~DeleteStats(r)
  <2>1. CASE Quiet(r)
    BY <1>3, <2>1 DEF Quiet, Fail, CommitFails, NotFound, StatsFail, NoSpace
  <2>2. CASE Succeeds(r) \/ Create(r) \/ Update(r) \/ DeleteObjects(r)
    BY <1>3, <2>2 DEF Succeeds, Create, Update, DeleteObjects
  <2>3. CASE \E s \in Sizes : Processed(r, s) \/ Validate(r, s)
    BY <1>3, <2>3 DEF Processed, Validate
  <2>4. CASE \E p \in Parts : Stored(r, p) \/ Removed(r, p)
    BY <1>3, <2>4 DEF Stored, Removed
  <2>5. CASE \E f \in Files : Begins(r, f)
    BY <1>3, <2>5 DEF Begins, Edit, Rename, Delete, Find
  <2> QED
    BY <1>3, <2>1, <2>2, <2>3, <2>4, <2>5 DEF Step
<1> QED
  BY <1>1, <1>2, <1>3

LEMMA CountersStay ==
  ASSUME NEW r \in Requests, Step(r), ~Counts(r)
  PROVE  UNCHANGED <<used, uploaded>>
<1>1. CASE Quiet(r)
  BY <1>1 DEF Counts, Quiet, Fail, CommitFails, NotFound, StatsFail, NoSpace, db
<1>2. CASE Succeeds(r) \/ DeleteObjects(r)
  BY <1>2 DEF Succeeds, DeleteObjects, db
<1>3. CASE \E s \in Sizes : Processed(r, s) \/ Validate(r, s)
  BY <1>3 DEF Processed, Validate, db
<1>4. CASE \E p \in Parts : Stored(r, p) \/ Removed(r, p)
  BY <1>4 DEF Stored, Removed, db
<1>5. CASE \E f \in Files : Begins(r, f)
  BY <1>5 DEF Begins, Edit, Rename, Delete, Find, db
<1> QED
  BY <1>1, <1>2, <1>3, <1>4, <1>5 DEF Step, Counts

\* Who owes has read, and reads no more: the sum of what they owe is a step's
\* only by who owes.
LEMMA OwedStays ==
  ASSUME TypeOK, NEW r \in Requests, Step(r)
  PROVE  Total(original', Owing) = Total(original, Owing)
<1>1. \A q \in Owing : original'[q] = original[q]
  BY OriginalsStay DEF Owing
<1> QED
  BY <1>1, SumsAreIntegers, TotalSame

\* A row that gets another size changes the sum and the count by that.
LEMMA RowChanges ==
  ASSUME TypeOK, NEW f \in Files, NEW s \in Sizes \cup {0},
         row' = [row EXCEPT ![f] = s]
  PROVE  /\ Total(row', Files) = Total(row, Files) + s - row[f]
         /\ row[f] # 0 /\ s # 0 => Cardinality(Rows') = Cardinality(Rows)
         /\ row[f] = 0 /\ s # 0 => Cardinality(Rows') = Cardinality(Rows) + 1
         /\ row[f] # 0 /\ s = 0 => Cardinality(Rows') = Cardinality(Rows) - 1
<1>0. s \in Int /\ row'[f] = s /\ \A g \in Files \ {f} : row'[g] = row[g]
  BY LibraryAssumption DEF TypeOK
<1>1. /\ IsFiniteSet(Files) /\ IsFiniteSet(Rows) /\ \A g \in Files : row[g] \in Int
      /\ Cardinality(Rows) \in Int
  BY SumsAreIntegers
<1>2. \A g \in Files : row'[g] \in Int
  BY <1>0, <1>1
<1>3. Total(row', Files) = Total(row, Files) + row'[f] - row[f]
  <2>1. \A g \in Files : row'[g] \in Int /\ row[g] \in Int
    BY <1>1, <1>2
  <2>2. \A g \in Files \ {f} : row'[g] = row[g]
    BY <1>0
  <2> DEFINE v == row'
  <2> HIDE DEF v
  <2>3. Total(v, Files) = Total(row, Files) + v[f] - row[f]
    <3>1. (\A g \in Files : v[g] \in Int /\ row[g] \in Int) /\ \A g \in Files \ {f} : v[g] = row[g]
      BY <2>1, <2>2 DEF v
    <3> QED
      BY <1>1, <3>1, TotalChange
  <2> QED
    BY <2>3 DEF v
<1>4. CASE row[f] # 0 /\ s # 0
  <2>1. Rows' = Rows
    BY <1>0, <1>4 DEF Rows
  <2> QED
    BY <1>0, <1>3, <1>4, <2>1
<1>5. CASE row[f] = 0 /\ s # 0
  <2>1. Rows' = Rows \cup {f} /\ f \notin Rows
    BY <1>0, <1>5 DEF Rows
  <2>2. Cardinality(Rows \cup {f}) = Cardinality(Rows) + 1
    BY <1>1, <2>1, FS_AddElement
  <2> QED
    BY <1>0, <1>3, <1>5, <2>1, <2>2
<1>6. CASE row[f] # 0 /\ s = 0
  <2>1. Rows' = Rows \ {f} /\ f \in Rows
    BY <1>0, <1>6 DEF Rows
  <2>2. Cardinality(Rows \ {f}) = Cardinality(Rows) - 1
    BY <1>1, <2>1, FS_RemoveElement
  <2> QED
    BY <1>0, <1>3, <1>6, <2>1, <2>2
<1>7. CASE row[f] = 0 /\ s = 0
  BY <1>0, <1>3, <1>7
<1> QED
  BY <1>4, <1>5, <1>6, <1>7

LEMMA KeepsStats ==
  ASSUME KeepInv, SizeInv, StatsInv, NEW r \in Requests, Step(r), contended' = {}
  PROVE  StatsMatchRows'
<1> USE DEF KeepInv
<1>0. contended = {} /\ kind' = kind
  BY OthersStay
<1>1. /\ used = Total(row, Files) + Total(original, Owing)
      /\ uploaded = Cardinality(Rows) + Cardinality(Owing)
      /\ ReadsTrue(r)
  BY <1>0, StatsAreSums DEF StatsInv, CountersFit
<1> SUFFICES /\ used' = Total(row', Files) + Total(original', Owing')
             /\ uploaded' = Cardinality(Rows') + Cardinality(Owing')
  BY StatsAreSumsNext DEF CountersFit
<1>2. /\ Total(row, Files) \in Int /\ Total(original, Owing) \in Int
      /\ Cardinality(Rows) \in Int /\ Cardinality(Owing) \in Int
      /\ IsFiniteSet(Owing) /\ \A q \in Requests : original[q] \in Int
  BY SumsAreIntegers
<1>3. CASE Create(r)
  <2>1. /\ Adding(r) /\ pc[r] = "commit" /\ ~DeleteRow(r) /\ ~DeleteStats(r)
        /\ used' = used + new[r] /\ uploaded' = uploaded + 1
    BY <1>3 DEF Create, Goto, Adding, DeleteRow, DeleteStats
  <2>2. PICK f \in Files : file[r] = {f} /\ row[f] = 0
    BY <2>1 DEF AddsAreAlone
  <2>3. new[r] \in Sizes \cup {0} /\ new[r] \in Int /\ new[r] # 0
    BY <2>1, <2>2, NewIsSize DEF AddsAreStored, Parts
  <2>4. row' = [row EXCEPT ![f] = new[r]]
    BY <1>3, <2>2 DEF Create
  <2>5. /\ Total(row', Files) = Total(row, Files) + new[r] - 0
        /\ Cardinality(Rows') = Cardinality(Rows) + 1
    BY <2>2, <2>3, <2>4, RowChanges
  <2>6. Owing' = Owing /\ original' = original
    BY <1>3, <2>1, OwingStays DEF Create, locals
  <2> QED
    BY <1>1, <1>2, <2>1, <2>3, <2>5, <2>6
<1>4. CASE Update(r)
  <2>1. /\ pc[r] = "commit" /\ kind[r] \notin Adds
        /\ ~DeleteRow(r) /\ ~DeleteStats(r)
        /\ used' = used - (original[r] - new[r]) /\ uploaded' = uploaded
    BY <1>4 DEF Update, Goto, Adds, DeleteRow, DeleteStats, Saved, NewSize
  <2>2. PICK f \in Files : file[r] = {f} /\ row[f] = original[r]
    BY <1>1, <2>1 DEF ReadsTrue
  <2>3. /\ original[r] # 0
        /\ new[r] # 0 /\ new[r] \in Sizes \cup {0} /\ new[r] \in Int
    BY <1>1, <2>1, NewIsSize DEF ReadsTrue
  <2>4. row' = [row EXCEPT ![f] = new[r]]
    BY <1>4, <2>2, <2>3 DEF Update, NewSize, TypeOK
  <2>5. /\ Total(row', Files) = Total(row, Files) + new[r] - original[r]
        /\ Cardinality(Rows') = Cardinality(Rows)
    BY <2>2, <2>3, <2>4, RowChanges
  <2>6. Owing' = Owing /\ original' = original
    BY <1>4, <2>1, OwingStays DEF Update, locals
  <2> QED
    BY <1>1, <1>2, <2>1, <2>3, <2>5, <2>6
<1>5. CASE DeleteRow(r)
  <2>1. /\ pc[r] = "row" /\ kind[r] \notin Adds /\ r \notin Owing
        /\ UNCHANGED <<used, uploaded, original>>
    BY <1>5 DEF DeleteRow, Goto, StagesFit, Adds, Owing, locals
  <2>2. PICK f \in Files : file[r] = {f} /\ row[f] = original[r]
    BY <1>1, <2>1 DEF ReadsTrue
  <2>3. row' = [row EXCEPT ![f] = 0] /\ original[r] # 0
    BY <1>1, <1>5, <2>1, <2>2 DEF DeleteRow, ReadsTrue
  <2>4. /\ Total(row', Files) = Total(row, Files) + 0 - original[r]
        /\ Cardinality(Rows') = Cardinality(Rows) - 1
    BY <2>2, <2>3, RowChanges
  <2>5. Owing' = Owing \cup {r}
    BY <1>5, OwingStays DEF DeleteRow, DeleteStats, Goto
  <2>6. \A q \in Owing \cup {r} : original[q] \in Int
    BY <1>2 DEF Owing
  <2>7. Total(original, Owing \cup {r}) = Total(original, Owing) + original[r]
    BY <1>2, <2>1, <2>6, TotalAdd
  <2>8. Cardinality(Owing \cup {r}) = Cardinality(Owing) + 1
    BY <1>2, <2>1, FS_AddElement
  <2>9. original[r] \in Int
    BY <1>2
  <2> QED
    BY <1>1, <1>2, <2>1, <2>4, <2>5, <2>7, <2>8, <2>9
<1>6. CASE DeleteStats(r)
  <2>1. /\ pc[r] = "stats" /\ r \in Owing /\ UNCHANGED <<row, original>>
        /\ used' = used - original[r] /\ uploaded' = uploaded - 1
    BY <1>6 DEF DeleteStats, Goto, Owing, locals
  <2>2. Owing' = Owing \ {r}
    BY <1>6, OwingStays DEF DeleteRow, DeleteStats, Goto
  <2>3. \A q \in Owing : original[q] \in Int
    BY <1>2 DEF Owing
  <2>4. /\ Total(original, Owing) = original[r] + Total(original, Owing \ {r})
        /\ Cardinality(Owing \ {r}) = Cardinality(Owing) - 1
    BY <1>2, <2>1, <2>3, TotalRemove, FS_RemoveElement
  <2>5. IsFiniteSet(Owing \ {r})
    BY <1>2, FS_Subset
  <2>6. Total(original, Owing \ {r}) \in Int
    BY <2>3, <2>5, TotalType
  <2>7. Rows' = Rows
    BY <2>1 DEF Rows
  <2> QED
    BY <1>1, <1>2, <2>1, <2>2, <2>4, <2>6, <2>7
<1>7. CASE ~Counts(r)
  <2>1. UNCHANGED <<used, uploaded>> /\ Owing' = Owing
    BY <1>7, CountersStay, OwingStays DEF Counts
  <2>2. \A f \in Files : row'[f] = row[f]
    BY <1>7, RowsStay DEF Counts
  <2>3. Rows' = Rows /\ Total(row', Files) = Total(row, Files)
    BY <2>2, SumsAreIntegers, TotalSame DEF Rows
  <2> QED
    BY <1>1, <2>1, <2>3, OwedStays
<1> QED
  BY <1>3, <1>4, <1>5, <1>6, <1>7 DEF Counts

LEMMA InitStatsInv == Init => StatsInv
<1> SUFFICES ASSUME Init PROVE StatsInv
  OBVIOUS
<1>1. PICK f \in Files, s \in Sizes :
        row = [g \in Files |-> IF g = f THEN s ELSE 0] /\ used = s
  BY DEF Init
<1>2. Owing = {} /\ uploaded = 1 /\ \A q \in Requests : ReadsTrue(q)
  BY DEF Init, Owing, ReadsTrue
<1>3. TypeOK
  BY InitTypeOK
<1>4. Total(row, Files) = s
  <2> DEFINE none == [g \in Files |-> 0]
  <2>1. IsFiniteSet(Files) /\ s \in Int
    BY LibraryAssumption
  <2>2. Total(none, Files) = 0
    BY <2>1, TotalOfZeros
  <2>3. Total(row, Files) = Total(none, Files) + row[f] - none[f]
    BY <1>1, <2>1, TotalChange
  <2> QED
    BY <1>1, <2>1, <2>2, <2>3
<1>5. Rows = {f}
  BY <1>1, LibraryAssumption DEF Rows
<1>6. Cardinality(Rows) = 1 /\ Cardinality(Owing) = 0 /\ Total(original, Owing) = 0
  BY <1>2, <1>5, FS_Singleton, FS_EmptySet, TotalEmpty
<1>7. s \in Int
  BY LibraryAssumption
<1> QED
  BY <1>1, <1>2, <1>4, <1>6, <1>7, StatsAreSums DEF StatsInv, CountersFit

\* The counters of the user are those of the rows, but for what a deletion
\* still owes, wherever requests fail: unless two worked on one file at once
\* (upload.go, process.go, edit.go, delete.go).
THEOREM StatsStayTrue == Spec => []StatsMatchRows
<1> DEFINE Inv == KeepInv /\ SizeInv
<1>1. Inv /\ StatsInv /\ [Next]_vars => StatsInv'
  <2>1. ASSUME Inv, StatsInv, Next PROVE StatsInv'
    <3>1. PICK r \in Requests : Step(r)
      BY <2>1, StepForms DEF Step
    <3>2. contended' = {} => contended = {}
      BY <2>1, <3>1, OthersStay DEF KeepInv
    <3> QED
      BY <2>1, <3>1, <3>2, KeepsReads, KeepsStats DEF StatsInv
  <2>2. ASSUME StatsInv, UNCHANGED vars PROVE StatsInv'
    <3> USE <2>2 DEF vars, db, locals
    <3>1. Owing' = Owing /\ Rows' = Rows
      BY DEF Owing, Rows
    <3>2. StatsMatchRows => StatsMatchRows'
      BY <3>1, StatsAreSums, StatsAreSumsNext DEF CountersFit
    <3>3. \A q \in Requests : ReadsTrue(q) => ReadsTrue(q)'
      BY DEF ReadsTrue
    <3> QED
      BY <3>2, <3>3 DEF StatsInv
  <2> QED
    BY <2>1, <2>2
<1>2. StatsInv => StatsMatchRows
  BY DEF StatsInv, StatsMatchRows
<1>3. Spec => []SizeInv
  BY InitSizeInv, NextSizeInv, KeepInvCorrect, PTL DEF Spec
<1> QED
  BY <1>1, <1>2, <1>3, InitStatsInv, KeepInvCorrect, PTL DEF Spec

-----------------------------------------------------------------------------
(***************************************************************************)
(* Composition: what a request's call of Do does here is what Uploader.Do  *)
(* is proved to do.                                                        *)
(***************************************************************************)
\* What a handler knows of its call of Do.
ResultOf(r) ==
  CASE kind[r] \notin Adds \cup {"edit"} -> "none"
    [] kind[r] \in Adds \cup {"edit"} ->
         CASE pc[r] \in {"commit", "done", "unsaved"} -> "ok"
           [] pc[r] = "failed" /\ new[r] # 0 -> "err"
           [] OTHER -> "none"

DoOf(r) == INSTANCE UploadPromise
             WITH Parts <- Parts, bucket <- put[r], result <- ResultOf(r)

\* Past its call of Do a request has put both parts.
DoSucceeded(r) ==
  kind[r] \in Adds \cup {"edit"} /\ pc[r] \in {"commit", "done", "unsaved"} =>
    \A p \in Parts : put[r][p] = "new"

DosFit == TypeOK /\ StagesFit /\ \A r \in Requests : DoSucceeded(r)

LEMMA KeepsDos ==
  ASSUME TypeOK, StagesFit, NEW r \in Requests, Step(r), NEW q \in Requests,
         DoSucceeded(q)
  PROVE  DoSucceeded(q)'
<1> USE DEF DoSucceeded
<1>1. CASE q # r
  BY <1>1, OthersStay
<1>2. CASE q = r
  <2> USE DEF TypeOK, Goto, db, locals
  <2>1. CASE Quiet(r)
    BY <1>2, <2>1 DEF Quiet, Fail, CommitFails, NotFound, DeleteStats, StatsFail, NoSpace,
                      StagesFit, Adds
  <2>2. CASE Succeeds(r) \/ Create(r) \/ Update(r) \/ DeleteRow(r) \/ DeleteObjects(r)
    BY <1>2, <2>2 DEF Succeeds, Create, Update, DeleteRow, DeleteObjects, Adds
  <2>3. CASE \E s \in Sizes : Processed(r, s) \/ Validate(r, s)
    BY <1>2, <2>3 DEF Processed, Validate
  <2>4. CASE \E p \in Parts : Stored(r, p) \/ Removed(r, p)
    BY <1>2, <2>4 DEF Stored, Removed, Put
  <2>5. CASE \E f \in Files : Begins(r, f)
    BY <1>2, <2>5 DEF Begins, Edit, Rename, Delete, Find, Adds
  <2> QED
    BY <2>1, <2>2, <2>3, <2>4, <2>5 DEF Step
<1> QED
  BY <1>1, <1>2

LEMMA StepFollowsPromise ==
  ASSUME DosFit, NEW r \in Requests, Step(r), NEW q \in Requests
  PROVE  [DoOf(q)!Next]_<<put[q], ResultOf(q)>>
<1> USE DEF DosFit
<1>1. CASE q # r
  BY <1>1, OthersStay DEF ResultOf
<1>2. CASE q = r
  <2> USE <1>2 DEF TypeOK
  <2>0. "edit" \notin Adds
    BY DEF Adds
  <2>1. ASSUME NEW p \in Parts, Stored(r, p) PROVE DoOf(r)!Next
    <3>1. put[r][p] \in {"none", "old"} /\ pc[r] \in {"store", "failed"}
      BY <2>1 DEF Stored
    <3>2. ResultOf(r) # "ok"
      BY <3>1 DEF ResultOf
    <3>3. put'[r] = [put[r] EXCEPT ![p] = "new"]
      BY <2>1 DEF Stored, Put
    <3>4. ResultOf(r)' = ResultOf(r)
      BY <2>1 DEF Stored, ResultOf
    <3>5. DoOf(r)!Stored(p)
      BY <3>1, <3>2, <3>3, <3>4 DEF DoOf!Stored
    <3> QED
      BY <3>5 DEF DoOf!Next
  <2>2. ASSUME NEW p \in Parts, Removed(r, p) PROVE DoOf(r)!Next
    <3>1. put[r][p] = "new" /\ pc[r] = "store"
      BY <2>2 DEF Removed
    <3>2. ResultOf(r) = "none"
      BY <3>1 DEF ResultOf
    <3>3. put'[r] = [put[r] EXCEPT ![p] = "gone"]
      BY <2>2 DEF Removed, Put
    <3>4. ResultOf(r)' = ResultOf(r)
      BY <2>2 DEF Removed, ResultOf
    <3>5. DoOf(r)!Removed(p)
      BY <3>1, <3>2, <3>3, <3>4 DEF DoOf!Removed
    <3> QED
      BY <3>5 DEF DoOf!Next
  <2>3. CASE Succeeds(r)
    <3>1. /\ pc[r] = "store" /\ \A p \in Parts : put[r][p] = "new"
          /\ pc'[r] = "commit" /\ UNCHANGED <<put, kind>>
      BY <2>3 DEF Succeeds, Goto, locals
    <3>2. CASE kind[r] \in Adds \cup {"edit"}
      <4>1. ResultOf(r) = "none" /\ ResultOf(r)' = "ok"
        BY <3>1, <3>2 DEF ResultOf
      <4>2. DoOf(r)!Succeeds
        BY <3>1, <4>1 DEF DoOf!Succeeds
      <4> QED
        BY <4>2 DEF DoOf!Next
    <3>3. CASE kind[r] \notin Adds \cup {"edit"}
      BY <3>1, <3>3 DEF ResultOf
    <3> QED
      BY <3>2, <3>3
  <2>4. CASE Quiet(r)
    <3>1. UNCHANGED <<put, kind, new>>
      BY <2>4, QuietEnds
    <3>2. CASE ResultOf(r)' = ResultOf(r)
      BY <3>1, <3>2
    <3>3. CASE ResultOf(r)' # ResultOf(r)
      <4>1. ResultOf(r) = "none" /\ ResultOf(r)' = "err"
        BY <2>4, <3>1, <3>3
           DEF ResultOf, Quiet, Fail, CommitFails, NotFound, DeleteStats, StatsFail,
               NoSpace, Goto, StagesFit, Adds
      <4>2. DoOf(r)!Fails
        BY <3>1, <4>1 DEF DoOf!Fails
      <4> QED
        BY <4>2 DEF DoOf!Next
    <3> QED
      BY <3>2, <3>3
  <2>5. CASE Create(r) \/ Update(r) \/ DeleteRow(r) \/ DeleteObjects(r)
    BY <2>5 DEF Create, Update, DeleteRow, DeleteObjects, Goto, db, locals, ResultOf,
                StagesFit, Adds
  <2>6. CASE \E s \in Sizes : Processed(r, s) \/ Validate(r, s)
    BY <2>6 DEF Processed, Validate, Goto, db, ResultOf
  <2>7. CASE \E f \in Files : Begins(r, f)
    BY <2>7 DEF Begins, Edit, Rename, Delete, Find, Goto, db, ResultOf, Adds
  <2> QED
    BY <2>1, <2>2, <2>3, <2>4, <2>5, <2>6, <2>7 DEF Step
<1> QED
  BY <1>1, <1>2

\* Library's requests see of Uploader.Do no more than what it is proved to
\* promise (UploadPromise, DoKeepsPromise): each request, with what it put and
\* what its call answered, is a behaviour of the promise (upload.go:Do).
THEOREM EachDoIsAsPromised ==
  ASSUME NEW r \in Requests
  PROVE  Spec => DoOf(r)!Spec
<1>1. Init => DosFit /\ DoOf(r)!Init
  <2> SUFFICES ASSUME Init PROVE DosFit /\ DoOf(r)!Init
    OBVIOUS
  <2>1. TypeOK /\ StagesFit
    BY InitKeepInv DEF KeepInv
  <2>2. \A q \in Requests : DoSucceeded(q)
    BY DEF Init, DoSucceeded
  <2>3. put[r] \in [Parts -> {"none", "old"}]
    BY DEF Init
  <2>4. ResultOf(r) = "none"
    BY DEF Init, ResultOf
  <2> QED
    BY <2>1, <2>2, <2>3, <2>4 DEF DosFit, DoOf!Init
<1>2. KeepInv /\ DosFit /\ [Next]_vars => [DoOf(r)!Next]_<<put[r], ResultOf(r)>>
  <2>1. CASE DosFit /\ Next
    BY <2>1, StepForms, StepFollowsPromise DEF Step
  <2>2. CASE UNCHANGED vars
    BY <2>2 DEF vars, db, locals, ResultOf
  <2> QED
    BY <2>1, <2>2
<1>3. KeepInv /\ KeepInv' /\ DosFit /\ [Next]_vars => DosFit'
  <2>1. CASE KeepInv' /\ DosFit /\ Next
    BY <2>1, StepForms, KeepsDos DEF DosFit, KeepInv, Step
  <2>2. CASE KeepInv' /\ DosFit /\ UNCHANGED vars
    BY <2>2 DEF vars, db, locals, DosFit, DoSucceeded, KeepInv
  <2> QED
    BY <2>1, <2>2
<1> QED
  BY <1>1, <1>2, <1>3, KeepInvCorrect, PTL DEF Spec, DoOf!Spec
=============================================================================
