------------------------------ MODULE Library -------------------------------
(***************************************************************************)
(* One user's files: their rows and the user's Stats row in the database,  *)
(* their objects in the bucket, and the handlers that change them          *)
(* (app/file and app/ffmpeg), each a request that runs concurrently with   *)
(* the others.                                                             *)
(*                                                                         *)
(* A statement or a transaction of the database is a step, as is each      *)
(* effect of Uploader.Do, which follows UploadPromise.  Whatever talks to  *)
(* the database, ffmpeg or S3 may fail; a crash of the server is every     *)
(* request failing where it stands.                                        *)
(***************************************************************************)
EXTENDS Integers, FiniteSets, FiniteSetsExt

CONSTANTS
  Files,       \* the ids and keys that the database and RandStr may give
  Requests,
  Kinds,       \* which handlers are called
  Sizes,       \* of videos, before and after ffmpeg
  MaxStorage   \* the user's max_storage

AllKinds == {"upload", "process", "edit", "rename", "delete"}

ASSUME LibraryAssumption ==
  /\ IsFiniteSet(Files) /\ IsFiniteSet(Requests)
  /\ Kinds \subseteq AllKinds
  /\ Sizes \subseteq Nat \ {0}
  /\ MaxStorage \in Nat

VARIABLES
  row,       \* each file's size in the database, 0 when it has no row
  object,    \* the size of the video each object was made from, 0 for none
  used,      \* used_storage of the Stats row
  uploaded,  \* uploaded_files of the Stats row
  pc,        \* where each request is
  kind,      \* its handler
  file,      \* the file it works on: {} or a singleton
  original,  \* the size it read from the row, or was sent
  new,       \* the size of what ffmpeg made
  put,       \* what its call of Do did to each part: see UploadPromise
  contended  \* history: files that two requests worked on at once

db == <<row, used, uploaded>>
locals == <<kind, file, original, new, put, contended>>
vars == <<db, object, pc, locals>>

Parts == {"video", "thumb"}
Adds == {"upload", "process"}

Ended == {"done", "failed", "unsaved", "owing"}
Active(r) == pc[r] \notin Ended \cup {"start"}

\* One file is in the library when the requests arrive.
Init ==
  /\ \E f \in Files, s \in Sizes :
       /\ s <= MaxStorage
       /\ row = [g \in Files |-> IF g = f THEN s ELSE 0]
       /\ object = [g \in Files |-> [p \in Parts |-> row[g]]]
       /\ used = s
  /\ uploaded = 1
  /\ pc = [r \in Requests |-> "start"]
  /\ kind \in [Requests -> Kinds]
  /\ file = [r \in Requests |-> {}]
  /\ original = [r \in Requests |-> 0]
  /\ new = [r \in Requests |-> 0]
  /\ put = [r \in Requests |->
              [p \in Parts |-> IF kind[r] = "edit" THEN "old" ELSE "none"]]
  /\ contended = {}

-----------------------------------------------------------------------------
(***************************************************************************)
(* Steps that several handlers share.                                      *)
(***************************************************************************)
Goto(r, from, to) ==
  /\ pc[r] = from
  /\ pc' = [pc EXCEPT ![r] = to]

\* An early return: nothing is changed, or undone.
Fail(r) ==
  /\ pc[r] \in {"process", "store", "row"}
  /\ Goto(r, pc[r], "failed")
  /\ UNCHANGED <<db, object, locals>>

\* The transaction fails, after Do succeeded.
CommitFails(r) ==
  /\ Goto(r, "commit", "unsaved")
  /\ UNCHANGED <<db, object, locals>>

\* The handler reads the row of a file of the user's.
Find(r, f, next) ==
  /\ row[f] # 0
  /\ Goto(r, "start", next)
  /\ file' = [file EXCEPT ![r] = {f}]
  /\ original' = [original EXCEPT ![r] = row[f]]
  /\ contended' = contended \cup
       {g \in {f} : \E q \in Requests : Active(q) /\ file[q] = {f}}
  /\ UNCHANGED <<db, object, kind, put>>

NotFound(r) ==
  /\ kind[r] \in {"edit", "rename", "delete"}
  /\ Goto(r, "start", "failed")
  /\ UNCHANGED <<db, object, locals>>

\* The job queue's answer: ffmpeg made a video.
Processed(r, s) ==
  /\ Goto(r, "process", "store")
  /\ new' = [new EXCEPT ![r] = s]
  /\ UNCHANGED <<db, object, kind, file, original, put, contended>>

-----------------------------------------------------------------------------
(***************************************************************************)
(* Uploader.Do, as UploadPromise has it.                                   *)
(***************************************************************************)
Object(f, p, s) == object' = [object EXCEPT ![f][p] = s]
Put(r, p, state) == put' = [put EXCEPT ![r][p] = state]

\* A put takes effect: during the call, or after the call failed.
Stored(r, p) ==
  /\ kind[r] \in Adds \cup {"edit"}
  /\ pc[r] \in {"store", "failed"} /\ new[r] # 0
  /\ put[r][p] \in {"none", "old"}
  /\ Put(r, p, "new")
  /\ \E f \in file[r] : Object(f, p, new[r])
  /\ UNCHANGED <<db, pc, kind, file, original, new, contended>>

\* The cleanup after an error deletes what the call has put.
Removed(r, p) ==
  /\ pc[r] = "store"
  /\ put[r][p] = "new"
  /\ Put(r, p, "gone")
  /\ \E f \in file[r] : Object(f, p, 0)
  /\ UNCHANGED <<db, pc, kind, file, original, new, contended>>

CommitsEarly(r) ==
  /\ Goto(r, "store", "commit")
  /\ \E p \in Parts : put[r][p] = "new"
  /\ UNCHANGED <<db, object, locals>>

Succeeds(r) ==
  /\ Goto(r, "store", "commit")
  /\ \A p \in Parts : put[r][p] = "new"
  /\ UNCHANGED <<db, object, locals>>

-----------------------------------------------------------------------------
(***************************************************************************)
(* FileUpload, and FFmpegProcess with saveToCloud.                         *)
(***************************************************************************)
\* FileValidator compares the size sent with the space left; FFmpegProcess
\* gives it no database, and so no user, to ask.
HasSpace(r, s) == kind[r] = "upload" => used + s <= MaxStorage

\* The file's id and key are fresh ones.
Validate(r, s) ==
  /\ kind[r] \in Adds
  /\ HasSpace(r, s)
  /\ Goto(r, "start", "process")
  /\ \E f \in Files :
       /\ row[f] = 0 /\ \A p \in Parts : object[f][p] = 0
       /\ \A q \in Requests : file[q] # {f}
       /\ file' = [file EXCEPT ![r] = {f}]
  /\ original' = [original EXCEPT ![r] = s]
  /\ UNCHANGED <<db, object, kind, new, put, contended>>

NoSpace(r, s) ==
  /\ kind[r] \in Adds
  /\ ~HasSpace(r, s)
  /\ Goto(r, "start", "failed")
  /\ UNCHANGED <<db, object, locals>>

\* The transaction: the row, and the two counters.
Create(r) ==
  /\ kind[r] \in Adds
  /\ Goto(r, "commit", "done")
  /\ \E f \in file[r] : row' = [row EXCEPT ![f] = new[r]]
  /\ used' = used + new[r]
  /\ uploaded' = uploaded + 1
  /\ UNCHANGED <<object, locals>>

-----------------------------------------------------------------------------
(***************************************************************************)
(* FileEdit.                                                               *)
(***************************************************************************)
Edit(r, f) ==
  /\ kind[r] = "edit"
  /\ Find(r, f, "process")
  /\ UNCHANGED new

\* A new name only: no video is made, and the size stays the one read.
Rename(r, f) ==
  /\ kind[r] = "rename"
  /\ Find(r, f, "commit")
  /\ new' = [new EXCEPT ![r] = row[f]]

Growth(r) == new[r] - original[r]

KeptSize(r) == original[r]

\* The size that the row is to have.
NewSize(r) == new[r]

\* What the edit takes from the used storage.
Saved(r) == original[r] - NewSize(r)

\* The transaction writes the whole row back, unless it is gone by now, and
\* the counter in any case.
Update(r) ==
  /\ kind[r] \in {"edit", "rename"}
  /\ Goto(r, "commit", "done")
  /\ \E f \in file[r] :
       row' = [row EXCEPT ![f] = IF @ = 0 THEN 0 ELSE NewSize(r)]
  /\ used' = used - Saved(r)
  /\ UNCHANGED <<uploaded, object, locals>>

-----------------------------------------------------------------------------
(***************************************************************************)
(* FileDelete: three statements, each with an early return.                *)
(***************************************************************************)
Delete(r, f) ==
  /\ kind[r] = "delete"
  /\ Find(r, f, "row")
  /\ UNCHANGED new

DeleteRow(r) ==
  /\ Goto(r, "row", "objects")
  /\ \E f \in file[r] : row' = [row EXCEPT ![f] = 0]
  /\ UNCHANGED <<used, uploaded, object, locals>>

\* DeleteObjects answers for each key by itself, and the handler looks at no
\* answer: any of the objects may stay.  If the call fails, so does the
\* request.
DeleteObjects(r) ==
  /\ \E to \in {"stats", "owing"} : Goto(r, "objects", to)
  /\ \E f \in file[r], kept \in SUBSET Parts :
       object' = [object EXCEPT ![f] =
                    [p \in Parts |-> IF p \in kept THEN @[p] ELSE 0]]
  /\ UNCHANGED <<db, locals>>

DeleteStats(r) ==
  /\ Goto(r, "stats", "done")
  /\ used' = used - original[r]
  /\ uploaded' = uploaded - 1
  /\ UNCHANGED <<row, object, locals>>

\* The counters cannot be changed: the row is gone all the same.
StatsFail(r) ==
  /\ Goto(r, "stats", "owing")
  /\ UNCHANGED <<db, object, locals>>

-----------------------------------------------------------------------------
DoStep(r) == Succeeds(r) \/ \E p \in Parts : Stored(r, p) \/ Removed(r, p)

AddStep(r) ==
  \/ Create(r)
  \/ \E s \in Sizes : Validate(r, s) \/ NoSpace(r, s)

EditStep(r) == Update(r) \/ \E f \in Files : Edit(r, f) \/ Rename(r, f)

DeleteStep(r) ==
  \/ DeleteRow(r) \/ DeleteObjects(r) \/ DeleteStats(r) \/ StatsFail(r)
  \/ \E f \in Files : Delete(r, f)

Next ==
  \E r \in Requests :
    \/ Fail(r) \/ CommitFails(r) \/ NotFound(r)
    \/ \E s \in Sizes : Processed(r, s)
    \/ DoStep(r) \/ AddStep(r) \/ EditStep(r) \/ DeleteStep(r)

Spec == Init /\ [][Next]_vars

-----------------------------------------------------------------------------
\* Types; and a row has a size that ffmpeg made, never a difference of sizes.
TypeOK ==
  /\ row \in [Files -> Sizes \cup {0}]
  /\ object \in [Files -> [Parts -> Sizes \cup {0}]]
  /\ used \in Int /\ uploaded \in Int
  /\ pc \in [Requests -> {"start", "process", "store", "commit", "row",
                          "objects", "stats", "done", "failed", "unsaved", "owing"}]
  /\ kind \in [Requests -> Kinds]
  /\ file \in [Requests -> {{}} \cup {{f} : f \in Files}]
  /\ original \in [Requests -> Sizes \cup {0}]
  /\ new \in [Requests -> Sizes \cup {0}]
  /\ put \in [Requests -> [Parts -> {"none", "old", "new", "gone"}]]
  /\ contended \subseteq Files

\* The requests that took a row away and have not, or will never have, taken
\* it from the counters.
Owing == {r \in Requests : pc[r] \in {"objects", "stats", "owing"}}

\* The counters (app/file, app/ffmpeg/process.go) are those of the rows,
\* whatever requests run together and wherever they fail, except for what a
\* deletion still owes; unless two requests worked on one file at once.
StatsMatchRows ==
  contended = {} =>
    /\ used = MapThenSumSet(LAMBDA f : row[f], Files)
                + MapThenSumSet(LAMBDA r : original[r], Owing)
    /\ uploaded = Cardinality({f \in Files : row[f] # 0}) + Cardinality(Owing)

\* A row of the database whose object is not in the bucket is that of a file
\* whose edit failed and cleaned up: neither a deletion (delete.go) nor an
\* upload (upload.go) that fails half-way leaves a row without its objects,
\* even when requests meet at one file.
RowsHaveObjects ==
  \A f \in Files, p \in Parts :
    row[f] # 0 /\ object[f][p] = 0 =>
      \E r \in Requests : file[r] = {f} /\ put[r][p] = "gone"

\* The size in a row is that of the video in the bucket, except while an edit
\* is past its upload or when it failed there (edit.go); unless two requests
\* worked on the file at once.
SizesAreTrue ==
  \A f \in Files \ contended :
    row[f] \notin {0, object[f]["video"]} =>
      \E r \in Requests :
        file[r] = {f} /\ put[r]["video"] \in {"new", "gone"} /\ pc[r] # "done"

-----------------------------------------------------------------------------
\* .env.example:72, "Amount of storage one user has in bytes": a user's
\* files never take more than that.
QuotaRespected == used <= MaxStorage
=============================================================================
