------------------------------ MODULE Delivery ------------------------------
(***************************************************************************)
(* What clients get to see of one file: its row, the object in the bucket, *)
(* the copies of the object that the CDN keeps, and the answers of owns    *)
(* that the router caches.                                                 *)
(*                                                                         *)
(* Objects are stored as "immutable" under keys that an edit overwrites    *)
(* (internal/service/upload.go), so that a client finds the new video only *)
(* by another URL: the lists give the key with "?v=" and the row's version *)
(* (app/file/fetch_bulk.go, app/file/search.go, app/user/fetch.go), which  *)
(* FileEdit increments.                                                    *)
(*                                                                         *)
(* A video is known by the edits it went through.  The thumbnail is put    *)
(* and listed beside it, in the same way.                                  *)
(***************************************************************************)
EXTENDS Integers, FiniteSets

CONSTANTS
  Requests,  \* that change the file
  Kinds,     \* of those requests
  Users,
  Owner

ASSUME DeliveryAssumption ==
  /\ IsFiniteSet(Requests)
  /\ Kinds \subseteq {"upload", "edit", "rename", "delete"}
  /\ Owner \in Users

VARIABLES
  row,        \* the version in the file's row, 0 when it has no row
  object,     \* the video under the file's key: {} or a singleton
  cdn,        \* the CDN's copy for each URL, by its ?v= (0 for none): the same
  links,      \* the URLs that clients were given
  pc,         \* where each request is
  kind,       \* its handler
  read,       \* the version it read and will write back, 0 when there is none
  new,        \* the video it made: {} or a singleton
  put,        \* what its call of Do did to the object: see UploadPromise
  contended,  \* history: two requests were to write the version back at once
  kept,       \* the answer of owns in the cache: {} or a singleton
  flight      \* the answer of owns that all who ask wait for: {} or a singleton

requestVars == <<pc, kind, read, new, put, contended>>
clientVars == <<links, kept, flight>>
vars == <<row, object, cdn, requestVars, clientVars>>

Videos == SUBSET Requests
Versions == 0..Cardinality(Requests) + 1
Writers == {"edit", "rename"}

\* The file is there, or one of the requests is the upload that creates it.
Init ==
  /\ kind \in [Requests -> Kinds]
  /\ \A q, r \in Requests : kind[q] = "upload" /\ kind[r] = "upload" => q = r
  /\ IF \E r \in Requests : kind[r] = "upload"
     THEN row = 0 /\ object = {}
     ELSE row = 1 /\ object = {{}}
  /\ cdn = [v \in Versions |-> {}]
  /\ links = {}
  /\ pc = [r \in Requests |-> "start"]
  /\ read = [r \in Requests |-> 0]
  /\ new = [r \in Requests |-> {}]
  /\ put = [r \in Requests |-> "old"]
  /\ contended = FALSE
  /\ kept = {}
  /\ flight = {}

Goto(r, from, to) ==
  /\ pc[r] = from
  /\ pc' = [pc EXCEPT ![r] = to]

-----------------------------------------------------------------------------
(***************************************************************************)
(* The handlers that change the file.                                      *)
(***************************************************************************)
\* Of a request that will write the row back, from its read on.
Writing(r) ==
  kind[r] \in Writers /\ pc[r] \in {"download", "store", "commit"}

\* FileEdit and FileDelete read the row of the user's file.
Find(r) ==
  /\ row # 0
  /\ \/ kind[r] = "edit" /\ Goto(r, "start", "download")
     \/ kind[r] = "rename" /\ Goto(r, "start", "commit")
     \/ kind[r] = "delete" /\ Goto(r, "start", "row")
  /\ read' = [read EXCEPT ![r] = IF kind[r] \in Writers THEN row ELSE @]
  /\ contended' = (contended \/ (kind[r] \in Writers /\ \E q \in Requests : Writing(q)))
  /\ UNCHANGED <<row, object, cdn, kind, new, put, clientVars>>

\* No such row; ffmpeg, S3 or the database fails: an early return.  After a
\* transaction that fails the object stays in the bucket.
Fail(r) ==
  /\ pc[r] \in {"start", "download", "store", "commit", "row", "objects"}
  /\ Goto(r, pc[r], IF pc[r] = "commit" THEN "unsaved" ELSE "failed")
  /\ read' = [read EXCEPT ![r] = 0]
  /\ UNCHANGED <<row, object, cdn, kind, new, put, contended, clientVars>>

\* What the CDN answers for a URL: its copy, or else the object, of which it
\* then has a copy.
Served(v) == IF cdn[v] # {} THEN cdn[v] ELSE object

\* FileEdit downloads the video by its key alone, and ffmpeg makes another.
Download(r) ==
  /\ Goto(r, "download", "store")
  /\ Served(0) # {}
  /\ cdn' = [cdn EXCEPT ![0] = Served(0)]
  /\ new' = [new EXCEPT ![r] = {video \cup {r} : video \in Served(0)}]
  /\ UNCHANGED <<row, object, kind, read, put, contended, clientVars>>

\* FileUpload has validated and converted what it was sent.
Uploaded(r) ==
  /\ kind[r] = "upload"
  /\ Goto(r, "start", "store")
  /\ new' = [new EXCEPT ![r] = {{r}}]
  /\ UNCHANGED <<row, object, cdn, kind, read, put, contended, clientVars>>

\* Uploader.Do: the put takes effect, during the call or after it failed.
Stored(r) ==
  /\ pc[r] \in {"store", "failed"} /\ new[r] # {}
  /\ put[r] = "old"
  /\ put' = [put EXCEPT ![r] = "new"]
  /\ object' = new[r]
  /\ UNCHANGED <<row, cdn, pc, kind, read, new, contended, clientVars>>

Removed(r) ==
  /\ pc[r] = "store" /\ put[r] = "new"
  /\ put' = [put EXCEPT ![r] = "gone"]
  /\ object' = {}
  /\ UNCHANGED <<row, cdn, pc, kind, read, new, contended, clientVars>>

Succeeds(r) ==
  /\ put[r] = "new"
  /\ Goto(r, "store", "commit")
  /\ UNCHANGED <<row, object, cdn, kind, read, new, put, contended, clientVars>>

TakesDosVersion(r) == IF kind[r] = "edit" THEN 1 ELSE read[r] + 1
IncrementsTwice(r) == read[r] + (IF kind[r] = "edit" THEN 2 ELSE 1)

\* file.Version++ of what was read; the row Do gives a new file has 1.
NewVersion(r) == read[r] + 1

InsertsIfGone(r) == row' = NewVersion(r)

\* The transaction inserts a new file's row.  Updates writes back a row that is
\* still there, and is no error if it is not.
WriteRow(r) ==
  row' = IF row = 0 /\ kind[r] \in Writers THEN 0 ELSE NewVersion(r)

Commit(r) ==
  /\ Goto(r, "commit", "done")
  /\ WriteRow(r)
  /\ read' = [read EXCEPT ![r] = 0]
  /\ UNCHANGED <<object, cdn, kind, new, put, contended, clientVars>>

DeleteRow(r) ==
  /\ Goto(r, "row", "objects")
  /\ row' = 0
  /\ UNCHANGED <<object, cdn, kind, read, new, put, contended, clientVars>>

\* DeleteObjects, whose answers for single keys are not read.
DeleteObject(r) ==
  /\ Goto(r, "objects", "done")
  /\ object' \in {object, {}}
  /\ UNCHANGED <<row, cdn, kind, read, new, put, contended, clientVars>>

-----------------------------------------------------------------------------
(***************************************************************************)
(* Clients and caches.                                                     *)
(***************************************************************************)
Give(version) ==
  /\ row # 0
  /\ links' = links \cup {version}
  /\ UNCHANGED <<row, object, cdn, requestVars, kept, flight>>

\* FileFetchBulk, FileSearch and UserFetch give the key with the version.  (An
\* answer of FileSearch that the router cached gives an earlier one again.)
List == Give(row)

\* FileFetch, and the answer of FileEdit, give the key alone.
FileFetch == Give(0)

\* A client follows a URL it was given, now or earlier.
Follow(v) ==
  /\ v \in links
  /\ cdn[v] = {} /\ object # {}
  /\ cdn' = [cdn EXCEPT ![v] = object]
  /\ UNCHANGED <<row, object, requestVars, clientVars>>

\* The CDN may drop a copy at any time.
Evict(v) ==
  /\ cdn' = [cdn EXCEPT ![v] = {}]
  /\ UNCHANGED <<row, object, requestVars, clientVars>>

Owns(u) == row # 0 /\ u = Owner

\* Behind cacheFor: of the requests that find nothing in the cache one runs
\* FileOwns, and those for the same URI that come meanwhile wait for its answer,
\* whoever sent them.  (Those that come between its start and its look at the row
\* get the same answer as those that come after the look: the two are one step.
\* One that looked into the cache just before an answer was kept may run FileOwns
\* as well.)  Anything but a 200, a failing query's 500 included, is FALSE.
FileOwns(u) ==
  /\ flight = {}
  /\ flight' \in {{Owns(u)}, {FALSE}}
  /\ UNCHANGED <<row, object, cdn, requestVars, links, kept>>

\* The cache keeps an answer by its URI, and 2xx answers only.
KeepsEvery(owns) == {owns}
Keeps(owns) == IF owns THEN {owns} ELSE kept

\* All who wait are given the answer.
FinishOwns(owns) ==
  /\ flight = {owns}
  /\ kept' = Keeps(owns)
  /\ flight' = {}
  /\ UNCHANGED <<row, object, cdn, requestVars, links>>

\* Five minutes are over.
Forget ==
  /\ kept' = {}
  /\ UNCHANGED <<row, object, cdn, requestVars, links, flight>>

\* What a user who asks now is told: the answer that is kept, or that of the
\* request in flight, or what the user's own request finds.
OwnsAnswer(u) ==
  CASE kept # {} -> kept
    [] kept = {} /\ flight # {} -> flight
    [] kept = {} /\ flight = {} -> {Owns(u)}

-----------------------------------------------------------------------------
RequestStep(r) ==
  \/ Find(r) \/ Fail(r) \/ Download(r) \/ Uploaded(r)
  \/ Stored(r) \/ Removed(r) \/ Succeeds(r) \/ Commit(r)
  \/ DeleteRow(r) \/ DeleteObject(r)

Next ==
  \/ \E r \in Requests : RequestStep(r)
  \/ List \/ FileFetch \/ Forget
  \/ \E v \in Versions : Follow(v) \/ Evict(v)
  \/ \E u \in Users : FileOwns(u)
  \/ \E owns \in BOOLEAN : FinishOwns(owns)

Spec == Init /\ [][Next]_vars

-----------------------------------------------------------------------------
Maybe(S) == {{}} \cup {{x} : x \in S}

TypeOK ==
  /\ row \in Versions
  /\ object \in Maybe(Videos)
  /\ cdn \in [Versions -> Maybe(Videos)]
  /\ links \subseteq Versions
  /\ pc \in [Requests -> {"start", "download", "store", "commit", "row",
                          "objects", "done", "failed", "unsaved"}]
  /\ kind \in [Requests -> Kinds]
  /\ read \in [Requests -> Versions]
  /\ new \in [Requests -> Maybe(Videos)]
  /\ put \in [Requests -> {"old", "new", "gone"}]
  /\ contended \in BOOLEAN
  /\ kept \in Maybe(BOOLEAN)
  /\ flight \in Maybe(BOOLEAN)

\* The URL that the lists give for a file (fetch_bulk.go:120) leads to the
\* video that is in the bucket, whatever old URLs and copies there are, except
\* while an edit is between its put and its commit, or failed there; unless
\* two requests were to write the version back at once.
ListedIsCurrent ==
  row # 0 /\ cdn[row] # {} /\ ~contended =>
    \/ cdn[row] = object
    \/ object = {}
    \/ \E r \in Requests : object = new[r] /\ pc[r] # "done"

\* The version that an edit or a rename commits (edit.go:232) is one that no
\* client was given before; with the same exception.
VersionsAreNew ==
  [][row' \notin {row, 0} => row' \notin links \/ contended]_vars

\* A deletion is not undone by an edit that read the row before (edit.go:236).
DeletedStaysDeleted ==
  (\E r \in Requests : kind[r] = "delete" /\ pc[r] \in {"objects", "done"})
    => row = 0

\* The owner of a file that is there is told so by owns (router.go:102),
\* whatever was asked and kept before, by whomever: no refusal, from before the
\* upload or given to a guest, outlives the request it was made for.  While such
\* a request is in flight the owner is told what it is told.
OwnerIsTold ==
  row # 0 /\ flight = {} => OwnsAnswer(Owner) = {TRUE}

-----------------------------------------------------------------------------
\* app/file/edit.go:107, "Download the video to process": the video in the
\* bucket went through every edit that was committed.
NoEditIsLost ==
  ~contended =>
    \A r \in Requests, video \in object :
      kind[r] = "edit" /\ pc[r] = "done" => r \in video
=============================================================================
