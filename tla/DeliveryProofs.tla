--------------------------- MODULE DeliveryProofs ---------------------------
(***************************************************************************)
(* Proofs about Delivery, for any number of requests, of any kinds, and    *)
(* any users: a committed version is new, the listed URL leads to the      *)
(* video in the bucket, a deletion lasts, owns tells the owner so, and     *)
(* each call of Do is what UploadPromise has it.                           *)
(***************************************************************************)
EXTENDS Delivery, FiniteSetTheorems, TLAPS

Done == {r \in Requests : pc[r] = "done"}

\* Every commit adds one to a version that was there before.
Bounded ==
  /\ row <= 1 + Cardinality(Done)
  /\ \A r \in Requests : read[r] <= 1 + Cardinality(Done)

TypeInv == TypeOK /\ Bounded

-----------------------------------------------------------------------------
LEMMA DoneType ==
  /\ IsFiniteSet(Done)
  /\ Cardinality(Done) \in Nat
  /\ Cardinality(Done) <= Cardinality(Requests)
  /\ Cardinality(Requests) \in Nat
<1>1. IsFiniteSet(Requests) /\ Done \subseteq Requests
  BY DeliveryAssumption DEF Done
<1> QED
  BY <1>1, FS_Subset, FS_CardinalityType

\* A step that takes nobody to "done", or one request.
LEMMA DoneGrows ==
  ASSUME TypeOK, NEW r \in Requests, NEW to, pc[r] # "done",
         pc' = [pc EXCEPT ![r] = to]
  PROVE  Cardinality(Done') = Cardinality(Done) + (IF to = "done" THEN 1 ELSE 0)
<1>1. CASE to = "done"
  <2>1. Done' = Done \cup {r} /\ r \notin Done
    BY <1>1 DEF Done, TypeOK
  <2> QED
    BY <1>1, <2>1, DoneType, FS_AddElement
<1>2. CASE to # "done"
  <2>1. Done' = Done
    BY <1>2 DEF Done, TypeOK
  <2> QED
    BY <1>2, <2>1, DoneType
<1> QED
  BY <1>1, <1>2

LEMMA ZeroAndOne == 0 \in Versions /\ 1 \in Versions
  BY DoneType DEF Versions

LEMMA TypeInit == Init => TypeInv
<1> SUFFICES ASSUME Init PROVE TypeInv
  OBVIOUS
<1>1. object \in Maybe(Videos)
  BY DEF Init, Maybe, Videos
<1>2. {} \in Maybe(BOOLEAN) /\ {} \in Maybe(Videos)
  BY DEF Init, Maybe
<1>3. TypeOK
  BY <1>1, <1>2, ZeroAndOne DEF Init, TypeOK
<1>4. Bounded
  BY DoneType DEF Init, Bounded
<1> QED
  BY <1>3, <1>4 DEF TypeInv

\* The steps of a request move pc and nothing else of it, but for what they
\* say.
LEMMA StepsMove ==
  ASSUME TypeOK, NEW r \in Requests, RequestStep(r)
  PROVE  \/ pc' = pc
         \/ \E to \in {"download", "store", "commit", "row", "objects", "done",
                       "failed", "unsaved"} :
              pc[r] # "done" /\ pc' = [pc EXCEPT ![r] = to]
<1>1. CASE Find(r)
  BY <1>1 DEF Find, Goto
<1>2. CASE Fail(r)
  BY <1>2 DEF Fail, Goto
<1>3. CASE Stored(r) \/ Removed(r)
  BY <1>3 DEF Stored, Removed
<1>4. CASE Download(r) \/ Uploaded(r) \/ Succeeds(r)
  BY <1>4 DEF Download, Uploaded, Succeeds, Goto
<1>5. CASE Commit(r) \/ DeleteRow(r) \/ DeleteObject(r)
  BY <1>5 DEF Commit, DeleteRow, DeleteObject, Goto
<1> QED
  BY <1>1, <1>2, <1>3, <1>4, <1>5 DEF RequestStep

LEMMA BoundedStep == TypeInv /\ [Next]_vars => Bounded'
<1> SUFFICES ASSUME TypeOK, Bounded, [Next]_vars PROVE Bounded'
  BY DEF TypeInv
<1>0. row \in Nat /\ \A r \in Requests : read[r] \in Nat
  BY DEF TypeOK, Versions
<1>1. ASSUME NEW r \in Requests, RequestStep(r) PROVE Bounded'
  <2>1. /\ Cardinality(Done) \in Nat /\ Cardinality(Done') \in Nat
        /\ Cardinality(Done) <= Cardinality(Done')
    <3>1. CASE pc' = pc
      BY <3>1, DoneType DEF Done
    <3>2. CASE pc' # pc
      BY <1>1, <3>2, StepsMove, DoneGrows, DoneType
    <3> QED
      BY <3>1, <3>2
  <2>2. CASE row' = row /\ read' = read
    BY <1>0, <2>1, <2>2 DEF Bounded
  <2>3. CASE Find(r)
    <3>1. row' = row
      BY <2>3 DEF Find
    <3>2. \A q \in Requests : read'[q] \in {read[q], row}
      BY <2>3 DEF Find, TypeOK
    <3> QED
      BY <1>0, <2>1, <3>1, <3>2 DEF Bounded
  <2>4. CASE Commit(r)
    <3>1. Cardinality(Done') = Cardinality(Done) + 1
      BY <2>4, DoneGrows DEF Commit, Goto
    <3>2. row' \in {0, read[r] + 1}
      BY <2>4 DEF Commit, WriteRow, NewVersion
    <3>3. \A q \in Requests : read'[q] \in {read[q], 0}
      BY <2>4 DEF Commit, TypeOK
    <3> QED
      BY <1>0, <2>1, <3>1, <3>2, <3>3 DEF Bounded
  <2>5. CASE DeleteRow(r)
    <3>1. row' = 0 /\ read' = read
      BY <2>5 DEF DeleteRow
    <3> QED
      BY <1>0, <2>1, <3>1 DEF Bounded
  <2>6. CASE Fail(r)
    <3>1. row' = row
      BY <2>6 DEF Fail
    <3>2. \A q \in Requests : read'[q] \in {read[q], 0}
      BY <2>6 DEF Fail, TypeOK
    <3> QED
      BY <1>0, <2>1, <3>1, <3>2 DEF Bounded
  <2>7. CASE ~(Find(r) \/ Commit(r) \/ DeleteRow(r) \/ Fail(r))
    <3>1. row' = row /\ read' = read
      BY <1>1, <2>7 DEF RequestStep, Download, Uploaded, Stored, Removed,
         Succeeds, DeleteObject
    <3> QED
      BY <2>2, <3>1
  <2> QED
    BY <2>3, <2>4, <2>5, <2>6, <2>7
<1>2. CASE pc' = pc /\ row' = row /\ read' = read
  BY <1>2 DEF Bounded, Done
<1>3. CASE UNCHANGED vars
  BY <1>2, <1>3 DEF vars, requestVars
<1>4. CASE ~\E r \in Requests : RequestStep(r)
  <2>1. CASE Next
    BY <1>2, <1>4, <2>1 DEF Next, List, FileFetch, Give, Forget, Follow, Evict,
       FileOwns, FinishOwns, requestVars
  <2> QED
    BY <1>3, <2>1
<1> QED
  BY <1>1, <1>4

LEMMA VersionsBound ==
  ASSUME NEW n \in Nat, n <= 1 + Cardinality(Done')
  PROVE  n \in Versions
<1>1. IsFiniteSet(Requests) /\ Done' \subseteq Requests
  BY DeliveryAssumption DEF Done
<1>2. Cardinality(Done') <= Cardinality(Requests) /\ Cardinality(Done') \in Nat
      /\ Cardinality(Requests) \in Nat
  BY <1>1, FS_Subset, FS_CardinalityType
<1> QED
  BY <1>2 DEF Versions

LEMMA TypeStep == TypeInv /\ [Next]_vars => TypeInv'
<1> SUFFICES ASSUME TypeOK, Bounded, [Next]_vars PROVE TypeOK'
  BY BoundedStep DEF TypeInv
<1>1. Bounded'
  BY BoundedStep DEF TypeInv
<1>2. ASSUME NEW r \in Requests, RequestStep(r) PROVE TypeOK'
  <2>1. CASE Find(r)
    BY <2>1 DEF Find, Goto, clientVars, TypeOK
  <2>2. CASE Fail(r)
    BY <2>2, ZeroAndOne DEF Fail, Goto, clientVars, TypeOK
  <2>3. CASE Download(r)
    <3>1. Served(0) \in Maybe(Videos) /\ 0 \in Versions
      BY ZeroAndOne DEF Served, TypeOK
    <3>2. {video \cup {r} : video \in Served(0)} \in Maybe(Videos)
      <4>1. CASE Served(0) = {}
        <5>1. {video \cup {r} : video \in Served(0)} = {}
          BY <4>1
        <5> QED
          BY <5>1 DEF Maybe
      <4>2. CASE Served(0) # {}
        <5>1. PICK x \in Videos : Served(0) = {x}
          BY <3>1, <4>2 DEF Maybe
        <5>2. {video \cup {r} : video \in Served(0)} = {x \cup {r}}
          BY <5>1
        <5>3. x \cup {r} \in Videos
          BY DEF Videos
        <5> QED
          BY <5>2, <5>3 DEF Maybe
      <4> QED
        BY <4>1, <4>2
    <3>3. cdn' \in [Versions -> Maybe(Videos)] /\ new' \in [Requests -> Maybe(Videos)]
      BY <2>3, <3>1, <3>2 DEF Download, TypeOK
    <3> QED
      BY <2>3, <3>3 DEF Download, Goto, clientVars, TypeOK
  <2>4. CASE Uploaded(r)
    <3>1. {{r}} \in Maybe(Videos)
      BY DEF Maybe, Videos
    <3> QED
      BY <2>4, <3>1 DEF Uploaded, Goto, clientVars, TypeOK
  <2>5. CASE Stored(r)
    BY <2>5 DEF Stored, clientVars, TypeOK
  <2>6. CASE Removed(r)
    BY <2>6 DEF Removed, clientVars, TypeOK, Maybe
  <2>7. CASE Succeeds(r)
    BY <2>7 DEF Succeeds, Goto, clientVars, TypeOK
  <2>8. CASE Commit(r)
    <3>1. row' \in Nat
      BY <2>8, DoneType DEF Commit, WriteRow, NewVersion, TypeOK, Versions
    <3>2. row' <= 1 + Cardinality(Done')
      BY <1>1 DEF Bounded
    <3>3. row' \in Versions
      BY <3>1, <3>2, VersionsBound
    <3> QED
      BY <2>8, <3>3, ZeroAndOne DEF Commit, Goto, clientVars, TypeOK
  <2>9. CASE DeleteRow(r)
    BY <2>9, ZeroAndOne DEF DeleteRow, Goto, clientVars, TypeOK
  <2>10. CASE DeleteObject(r)
    BY <2>10 DEF DeleteObject, Goto, clientVars, TypeOK, Maybe
  <2> QED
    BY <1>2, <2>1, <2>2, <2>3, <2>4, <2>5, <2>6, <2>7, <2>8, <2>9, <2>10
       DEF RequestStep
<1>3. CASE List \/ FileFetch
  BY <1>3, ZeroAndOne DEF List, FileFetch, Give, requestVars, TypeOK
<1>4. CASE Forget
  BY <1>4 DEF Forget, requestVars, TypeOK, Maybe
<1>5. ASSUME NEW v \in Versions, Follow(v) PROVE TypeOK'
  BY <1>5 DEF Follow, requestVars, clientVars, TypeOK
<1>6. ASSUME NEW v \in Versions, Evict(v) PROVE TypeOK'
  <2>1. {} \in Maybe(Videos)
    BY DEF Maybe
  <2> QED
    BY <1>6, <2>1 DEF Evict, requestVars, clientVars, TypeOK
<1>7. ASSUME NEW u \in Users, FileOwns(u) PROVE TypeOK'
  <2>1. Owns(u) \in BOOLEAN
    BY DEF Owns
  <2>2. flight' \in Maybe(BOOLEAN)
    BY <1>7, <2>1 DEF FileOwns, Maybe
  <2> QED
    BY <1>7, <2>2 DEF FileOwns, requestVars, TypeOK
<1>9. ASSUME NEW owns \in BOOLEAN, FinishOwns(owns) PROVE TypeOK'
  <2>1. kept' \in Maybe(BOOLEAN) /\ flight' \in Maybe(BOOLEAN)
    BY <1>9 DEF FinishOwns, Keeps, Maybe, TypeOK
  <2> QED
    BY <1>9, <2>1 DEF FinishOwns, requestVars, TypeOK
<1>8. CASE UNCHANGED vars
  BY <1>8 DEF vars, requestVars, clientVars, TypeOK
<1> QED
  BY <1>2, <1>3, <1>4, <1>5, <1>6, <1>7, <1>8, <1>9 DEF Next

\* Every variable keeps its type, for any number of requests and users; the
\* version in particular is bounded by the commits (TypeOK).
THEOREM TypeCorrect == Spec => []TypeOK
<1>1. TypeInv => TypeOK
  BY DEF TypeInv
<1> QED
  BY <1>1, TypeInit, TypeStep, PTL DEF Spec

-----------------------------------------------------------------------------
\* The cache keeps no refusal.
NoRefusalKept == kept \subseteq {TRUE}

LEMMA NoRefusalKeptStep == NoRefusalKept /\ [Next]_vars => NoRefusalKept'
<1> SUFFICES ASSUME NoRefusalKept, [Next]_vars PROVE kept' \subseteq {TRUE}
  BY DEF NoRefusalKept
<1>1. ASSUME NEW r \in Requests, RequestStep(r) PROVE kept' = kept
  BY <1>1 DEF RequestStep, Find, Fail, Download, Uploaded, Stored, Removed,
     Succeeds, Commit, DeleteRow, DeleteObject, clientVars
<1>2. ASSUME NEW owns \in BOOLEAN, FinishOwns(owns) PROVE kept' \subseteq {TRUE}
  BY <1>2 DEF FinishOwns, Keeps, NoRefusalKept
<1>3. CASE Forget
  BY <1>3 DEF Forget
<1>4. CASE List \/ FileFetch \/ (\E v \in Versions : Follow(v) \/ Evict(v))
           \/ (\E u \in Users : FileOwns(u)) \/ UNCHANGED vars
  BY <1>4 DEF List, FileFetch, Give, Follow, Evict, FileOwns, clientVars, vars,
     NoRefusalKept
<1> QED
  BY <1>1, <1>2, <1>3, <1>4 DEF Next, NoRefusalKept

\* Whatever was asked and kept before, owns tells the owner of a file that is
\* there so, unless another request for it is in flight (OwnerIsTold).
THEOREM OwnerAlwaysTold == Spec => []OwnerIsTold
<1>1. Init => NoRefusalKept
  BY DEF Init, NoRefusalKept
<1>2. NoRefusalKept => OwnerIsTold
  <2> SUFFICES ASSUME NoRefusalKept, row # 0, flight = {}
               PROVE  OwnsAnswer(Owner) = {TRUE}
    BY DEF OwnerIsTold
  <2>1. Owns(Owner)
    BY DEF Owns
  <2>2. CASE kept # {}
    <3>1. OwnsAnswer(Owner) = kept
      BY <2>2 DEF OwnsAnswer
    <3> QED
      BY <2>2, <3>1 DEF NoRefusalKept
  <2>3. CASE kept = {}
    <3>1. OwnsAnswer(Owner) = {Owns(Owner)}
      BY <2>3 DEF OwnsAnswer
    <3>2. Owns(Owner) = TRUE
      BY <2>1 DEF Owns
    <3> QED
      BY <3>1, <3>2
  <2> QED
    BY <2>2, <2>3
<1> QED
  BY <1>1, <1>2, NoRefusalKeptStep, PTL DEF Spec

-----------------------------------------------------------------------------
(***************************************************************************)
(* Versions, copies and deletions.                                         *)
(***************************************************************************)
\* Which requests are where, and which of them have made a video.
StageOf(r) ==
  /\ pc[r] = "download" => kind[r] = "edit"
  /\ pc[r] = "store" => kind[r] \in {"edit", "upload"}
  /\ pc[r] = "commit" => kind[r] # "delete"
  /\ pc[r] \in {"row", "objects"} => kind[r] = "delete"
  /\ new[r] # {} => pc[r] \notin {"start", "download"} /\ kind[r] \in {"edit", "upload"}
  /\ kind[r] = "upload" => read[r] = 0

\* Nothing has happened to a file that is not uploaded yet.
UploadIsFirst ==
  \A u \in Requests : kind[u] = "upload" =>
    /\ \A r \in Requests : kind[r] = "upload" => r = u
    /\ pc[u] # "done" =>
         /\ row = 0 /\ links = {}
         /\ \A r \in Requests : kind[r] # "upload" => pc[r] \in {"start", "failed"}

\* Unless two requests meet, the one that will write the row back has read
\* what the row is, and no later version was given to anybody.
Calm ==
  \/ contended
  \/ /\ \A q, r \in Requests : Writing(q) /\ Writing(r) => q = r
     /\ row # 0 =>
          /\ \A r \in Requests : Writing(r) => read[r] = row
          /\ \A v \in links : v <= row

CopiesWereGiven == \A v \in Versions : cdn[v] # {} => v = 0 \/ v \in links

VersionInv ==
  /\ TypeOK
  /\ \A r \in Requests : StageOf(r)
  /\ UploadIsFirst
  /\ Calm
  /\ CopiesWereGiven

LEMMA VersionInvInit == Init => VersionInv
<1> SUFFICES ASSUME Init PROVE VersionInv
  OBVIOUS
<1>1. TypeOK
  BY TypeInit DEF TypeInv
<1>2. ASSUME NEW r \in Requests PROVE StageOf(r)
  BY <1>2 DEF Init, StageOf
<1>3. UploadIsFirst
  BY DEF Init, UploadIsFirst
<1>4. Calm /\ CopiesWereGiven
  BY DEF Init, Calm, CopiesWereGiven, Writing
<1> QED
  BY <1>1, <1>2, <1>3, <1>4 DEF VersionInv

\* The steps of clients and caches.
ClientStep ==
  \/ List \/ FileFetch \/ Forget
  \/ \E v \in Versions : Follow(v) \/ Evict(v)
  \/ \E u \in Users : FileOwns(u)
  \/ \E owns \in BOOLEAN : FinishOwns(owns)
  \/ UNCHANGED vars

LEMMA ClientsDisturbLittle ==
  ASSUME VersionInv, ClientStep
  PROVE  /\ UNCHANGED <<row, object, pc, kind, read, new, put, contended>>
         /\ \/ links' = links
            \/ row # 0 /\ links' \in {links \cup {row}, links \cup {0}}
         /\ \/ cdn' = cdn /\ links \subseteq links'
            \/ /\ links' = links
               /\ \E v \in Versions :
                    /\ cdn' \in {[cdn EXCEPT ![v] = object], [cdn EXCEPT ![v] = {}]}
                    /\ v \in links \/ cdn' = [cdn EXCEPT ![v] = {}]
<1>1. CASE List \/ FileFetch
  BY <1>1 DEF List, FileFetch, Give, requestVars
<1>2. CASE \E v \in Versions : Follow(v) \/ Evict(v)
  BY <1>2 DEF Follow, Evict, requestVars, clientVars
<1>3. CASE \/ Forget
           \/ \E u \in Users : FileOwns(u)
           \/ \E owns \in BOOLEAN : FinishOwns(owns)
           \/ UNCHANGED vars
  BY <1>3 DEF Forget, FileOwns, FinishOwns, vars, requestVars, clientVars
<1> QED
  BY <1>1, <1>2, <1>3 DEF ClientStep

LEMMA ClientsKeepInv ==
  ASSUME VersionInv, ClientStep, TypeOK'
  PROVE  VersionInv'
<1>1. UNCHANGED <<row, object, pc, kind, read, new, put, contended>>
  BY ClientsDisturbLittle
<1>2. \A r \in Requests : StageOf(r)'
  BY <1>1 DEF VersionInv, StageOf
<1>3. UploadIsFirst'
  BY <1>1, ClientsDisturbLittle DEF VersionInv, UploadIsFirst
<1>4. Calm'
  <2>1. row # 0 => \A v \in links' : v \in links \/ v \in {0, row}
    BY ClientsDisturbLittle
  <2>2. row \in Nat
    BY DEF VersionInv, TypeOK, Versions
  <2> QED
    BY <1>1, <2>1, <2>2 DEF VersionInv, Calm, Writing
<1>5. CopiesWereGiven'
  <2> SUFFICES ASSUME NEW w \in Versions, cdn'[w] # {}
               PROVE  w = 0 \/ w \in links'
    BY DEF CopiesWereGiven
  <2>1. CASE cdn' = cdn /\ links \subseteq links'
    BY <2>1 DEF VersionInv, CopiesWereGiven
  <2>2. CASE ~(cdn' = cdn /\ links \subseteq links')
    <3>1. PICK v \in Versions :
            /\ cdn' \in {[cdn EXCEPT ![v] = object], [cdn EXCEPT ![v] = {}]}
            /\ v \in links \/ cdn' = [cdn EXCEPT ![v] = {}]
            /\ links' = links
      BY <2>2, ClientsDisturbLittle
    <3>2. CASE w = v
      BY <3>1, <3>2 DEF VersionInv, TypeOK
    <3>3. CASE w # v
      BY <3>1, <3>3 DEF VersionInv, TypeOK, CopiesWereGiven
    <3> QED
      BY <3>2, <3>3
  <2> QED
    BY <2>1, <2>2
<1> QED
  BY <1>2, <1>3, <1>4, <1>5 DEF VersionInv

\* What no step of a request touches.
LEMMA RequestsLeave ==
  ASSUME TypeOK, NEW r \in Requests, RequestStep(r)
  PROVE  /\ kind' = kind /\ links' = links
         /\ \A q \in Requests \ {r} :
              /\ pc'[q] = pc[q] /\ read'[q] = read[q]
              /\ new'[q] = new[q] /\ put'[q] = put[q]
         /\ \A v \in Versions \ {0} : cdn'[v] = cdn[v]
         /\ contended => contended'
<1> USE DEF TypeOK, clientVars
<1>1. CASE Find(r)
  BY <1>1 DEF Find, Goto
<1>2. CASE Fail(r) \/ Succeeds(r)
  BY <1>2 DEF Fail, Succeeds, Goto
<1>3. CASE Download(r)
  BY <1>3, ZeroAndOne DEF Download, Goto
<1>4. CASE Uploaded(r)
  BY <1>4 DEF Uploaded, Goto
<1>5. CASE Stored(r) \/ Removed(r)
  BY <1>5 DEF Stored, Removed
<1>6. CASE Commit(r) \/ DeleteRow(r) \/ DeleteObject(r)
  BY <1>6 DEF Commit, DeleteRow, DeleteObject, Goto
<1> QED
  BY <1>1, <1>2, <1>3, <1>4, <1>5, <1>6 DEF RequestStep

LEMMA StagesStep ==
  ASSUME VersionInv, NEW r \in Requests, RequestStep(r), NEW q \in Requests
  PROVE  StageOf(q)'
<1>0. TypeOK /\ StageOf(q) /\ StageOf(r)
  BY DEF VersionInv
<1>1. CASE q # r
  BY <1>0, <1>1, RequestsLeave DEF StageOf
<1>2. CASE q = r
  <2> USE <1>0, <1>2 DEF TypeOK
  <2>1. CASE Find(r)
    <3>1. kind[r] # "upload"
      BY <2>1 DEF Find
    <3> QED
      BY <2>1, <3>1 DEF Find, Goto, StageOf
  <2>2. CASE Fail(r)
    BY <2>2 DEF Fail, Goto, StageOf
  <2>3. CASE Download(r)
    BY <2>3 DEF Download, Goto, StageOf
  <2>4. CASE Uploaded(r)
    BY <2>4 DEF Uploaded, Goto, StageOf
  <2>5. CASE Stored(r) \/ Removed(r)
    BY <2>5 DEF Stored, Removed, StageOf
  <2>6. CASE Succeeds(r)
    BY <2>6 DEF Succeeds, Goto, StageOf
  <2>7. CASE Commit(r)
    BY <2>7 DEF Commit, Goto, StageOf
  <2>8. CASE DeleteRow(r) \/ DeleteObject(r)
    BY <2>8 DEF DeleteRow, DeleteObject, Goto, StageOf
  <2> QED
    BY <2>1, <2>2, <2>3, <2>4, <2>5, <2>6, <2>7, <2>8 DEF RequestStep
<1> QED
  BY <1>1, <1>2

\* What a request does to the row.
LEMMA RowMoves ==
  ASSUME VersionInv, NEW r \in Requests, RequestStep(r)
  PROVE  \/ row' = row
         \/ row' = 0 /\ kind[r] = "delete" /\ pc[r] = "row"
         \/ Commit(r) /\ row = 0 /\ kind[r] = "upload" /\ row' = 1
         \/ Commit(r) /\ row # 0 /\ kind[r] \in Writers /\ row' = read[r] + 1
<1>1. CASE Commit(r)
  <2>1. kind[r] \in Writers \/ kind[r] = "upload"
    <3>1. StageOf(r) /\ kind[r] \in {"upload", "edit", "rename", "delete"}
      BY DeliveryAssumption DEF VersionInv, TypeOK
    <3> QED
      BY <1>1, <3>1 DEF Commit, Goto, StageOf, Writers
  <2>2. CASE kind[r] \in Writers
    BY <1>1, <2>2 DEF Commit, WriteRow, NewVersion
  <2>3. CASE kind[r] = "upload"
    <3>1. row = 0 /\ read[r] = 0
      BY <1>1, <2>3 DEF Commit, Goto, VersionInv, UploadIsFirst, StageOf
    <3>2. kind[r] \notin Writers
      BY <2>3 DEF Writers
    <3> QED
      BY <1>1, <2>3, <3>1, <3>2 DEF Commit, WriteRow, NewVersion
  <2> QED
    BY <2>1, <2>2, <2>3
<1>2. CASE DeleteRow(r)
  BY <1>2 DEF DeleteRow, Goto, VersionInv, StageOf
<1>3. CASE ~(Commit(r) \/ DeleteRow(r))
  BY <1>3 DEF RequestStep, Find, Fail, Download, Uploaded, Stored, Removed,
     Succeeds, DeleteObject
<1> QED
  BY <1>1, <1>2, <1>3

LEMMA UploadIsFirstStep ==
  ASSUME VersionInv, NEW r \in Requests, RequestStep(r)
  PROVE  UploadIsFirst'
<1>0. TypeOK /\ UploadIsFirst /\ kind' = kind /\ links' = links
  BY RequestsLeave DEF VersionInv
<1>1. ASSUME NEW u \in Requests, kind[u] = "upload", pc'[u] # "done"
      PROVE  /\ row' = 0 /\ links' = {}
             /\ \A q \in Requests : kind[q] # "upload" => pc'[q] \in {"start", "failed"}
  <2>1. pc[u] # "done"
    BY <1>0, <1>1, RequestsLeave, StepsMove
  <2>2. /\ row = 0 /\ links = {}
        /\ \A q \in Requests : kind[q] # "upload" => pc[q] \in {"start", "failed"}
        /\ \A q \in Requests : kind[q] = "upload" => q = u
    BY <1>0, <1>1, <2>1 DEF UploadIsFirst
  <2>3. ~(Commit(r) /\ kind[r] = "upload")
    BY <1>0, <1>1, <2>2 DEF Commit, Goto, TypeOK
  <2>4. row' = 0
    BY <2>2, <2>3, RowMoves
  <2>5. ASSUME NEW q \in Requests, kind[q] # "upload"
        PROVE  pc'[q] \in {"start", "failed"}
    <3>1. CASE q # r
      BY <1>0, <2>2, <2>5, <3>1, RequestsLeave
    <3>2. CASE q = r
      <4>1. pc[r] \in {"start", "failed"}
        BY <2>2, <2>5, <3>2
      <4>2. CASE Fail(r)
        BY <1>0, <3>2, <4>1, <4>2 DEF Fail, Goto, TypeOK
      <4>3. CASE Stored(r) \/ Removed(r)
        BY <3>2, <4>1, <4>3 DEF Stored, Removed
      <4>4. ~(Find(r) \/ Uploaded(r))
        BY <2>2, <2>5, <3>2 DEF Find, Uploaded
      <4>5. ~(Download(r) \/ Succeeds(r) \/ Commit(r) \/ DeleteRow(r) \/ DeleteObject(r))
        BY <4>1 DEF Download, Succeeds, Commit, DeleteRow, DeleteObject, Goto
      <4> QED
        BY <4>2, <4>3, <4>4, <4>5 DEF RequestStep
    <3> QED
      BY <3>1, <3>2
  <2> QED
    BY <1>0, <2>2, <2>4, <2>5
<1> QED
  BY <1>0, <1>1 DEF UploadIsFirst

\* Only Find makes a request one that will write the row back.
LEMMA WritersFind ==
  ASSUME VersionInv, NEW r \in Requests, RequestStep(r), NEW q \in Requests,
         Writing(q)'
  PROVE  \/ Writing(q) /\ read'[q] = read[q]
         \/ /\ q = r /\ row' = row /\ read'[r] = row
            /\ contended' = (contended \/ \E p \in Requests : Writing(p))
<1>0. TypeOK /\ kind' = kind
  BY RequestsLeave DEF VersionInv
<1>1. CASE q # r
  BY <1>0, <1>1, RequestsLeave DEF Writing
<1>2. CASE q = r
  <2> USE <1>0, <1>2 DEF TypeOK
  <2>1. CASE Find(r)
    BY <2>1 DEF Find, Goto, Writing
  <2>2. CASE Download(r) \/ Succeeds(r)
    BY <2>2 DEF Download, Succeeds, Goto, Writing
  <2>3. CASE Stored(r) \/ Removed(r)
    BY <2>3 DEF Stored, Removed, Writing
  <2>4. ~Fail(r) /\ ~Commit(r) /\ ~DeleteRow(r) /\ ~DeleteObject(r) /\ ~Uploaded(r)
    BY DEF Fail, Commit, DeleteRow, DeleteObject, Uploaded, Goto, Writing, Writers
  <2> QED
    BY <2>1, <2>2, <2>3, <2>4 DEF RequestStep
<1> QED
  BY <1>1, <1>2

LEMMA CalmStep ==
  ASSUME VersionInv, NEW r \in Requests, RequestStep(r)
  PROVE  Calm'
<1>0. TypeOK /\ Calm /\ UploadIsFirst /\ kind' = kind /\ links' = links
  BY RequestsLeave DEF VersionInv
<1>1. CASE contended'
  BY <1>1 DEF Calm
<1>2. CASE ~contended'
  <2>1. /\ ~contended
        /\ \A p, q \in Requests : Writing(p) /\ Writing(q) => p = q
        /\ row # 0 => /\ \A q \in Requests : Writing(q) => read[q] = row
                      /\ \A v \in links : v <= row
    BY <1>0, <1>2, RequestsLeave DEF Calm
  <2>2. ASSUME NEW p \in Requests, NEW q \in Requests, Writing(p)', Writing(q)'
        PROVE  p = q
    BY <1>2, <2>1, <2>2, WritersFind
  <2>3. ASSUME row' # 0
        PROVE  /\ \A q \in Requests : Writing(q)' => read'[q] = row'
               /\ \A v \in links' : v <= row'
    <3>1. CASE row' = row
      BY <1>0, <2>1, <2>3, <3>1, WritersFind
    <3>2. CASE Commit(r) /\ row = 0 /\ kind[r] = "upload" /\ row' = 1
      <4>1. /\ links = {}
            /\ \A q \in Requests : kind[q] # "upload" => pc[q] \in {"start", "failed"}
        BY <1>0, <3>2 DEF UploadIsFirst, Commit, Goto
      <4>2. \A q \in Requests : ~Writing(q)
        BY <4>1 DEF Writing, Writers
      <4>3. \A q \in Requests : ~Writing(q)'
        BY <3>2, <4>2, WritersFind
      <4> QED
        BY <1>0, <4>1, <4>3
    <3>3. CASE Commit(r) /\ row # 0 /\ kind[r] \in Writers /\ row' = read[r] + 1
      <4>1. Writing(r)
        BY <3>3 DEF Commit, Goto, Writing
      <4>2. row' = row + 1 /\ row \in Nat
        BY <1>0, <2>1, <3>3, <4>1 DEF TypeOK, Versions
      <4>3. ~Writing(r)'
        BY <1>0, <3>3 DEF Commit, Goto, Writing, TypeOK
      <4>4. \A q \in Requests : ~Writing(q)'
        BY <2>1, <4>1, <4>2, <4>3, WritersFind
      <4>5. \A v \in links : v \in Nat
        BY <1>0 DEF TypeOK, Versions
      <4> QED
        BY <1>0, <2>1, <3>3, <4>2, <4>4, <4>5
    <3> QED
      BY <2>3, <3>1, <3>2, <3>3, RowMoves
  <2> QED
    BY <2>2, <2>3 DEF Calm
<1> QED
  BY <1>1, <1>2

LEMMA VersionInvStep == VersionInv /\ TypeInv /\ [Next]_vars => VersionInv'
<1> SUFFICES ASSUME VersionInv, TypeInv, [Next]_vars PROVE VersionInv'
  OBVIOUS
<1>1. TypeOK'
  BY TypeStep DEF TypeInv
<1>2. CASE ClientStep
  BY <1>1, <1>2, ClientsKeepInv
<1>3. ASSUME NEW r \in Requests, RequestStep(r) PROVE VersionInv'
  <2>1. CopiesWereGiven'
    BY <1>3, RequestsLeave DEF VersionInv, CopiesWereGiven
  <2> QED
    BY <1>1, <1>3, <2>1, StagesStep, UploadIsFirstStep, CalmStep DEF VersionInv
<1> QED
  BY <1>2, <1>3 DEF Next, ClientStep

\* The inductive invariant: which request has read and made what, and which
\* versions were given to clients.
THEOREM VersionInvCorrect == Spec => [](VersionInv /\ TypeInv)
  BY VersionInvInit, VersionInvStep, TypeInit, TypeStep, PTL DEF Spec

-----------------------------------------------------------------------------
LEMMA CommitsNew ==
  ASSUME VersionInv, NEW r \in Requests, RequestStep(r), row' \notin {row, 0},
         ~contended
  PROVE  row' \notin links /\ row' # 0 /\ Commit(r)
<1>1. CASE Commit(r) /\ row = 0 /\ kind[r] = "upload" /\ row' = 1
  BY <1>1 DEF VersionInv, UploadIsFirst, Commit, Goto
<1>2. CASE Commit(r) /\ row # 0 /\ kind[r] \in Writers /\ row' = read[r] + 1
  <2>1. Writing(r)
    BY <1>2 DEF Commit, Goto, Writing
  <2>2. row' = row + 1 /\ row \in Nat /\ \A v \in links : v \in Nat /\ v <= row
    BY <1>2, <2>1 DEF VersionInv, Calm, TypeOK, Versions
  <2> QED
    BY <1>2, <2>2
<1> QED
  BY <1>1, <1>2, RowMoves

\* A version that an edit, a rename or an upload commits was given to no
\* client before, unless two requests meet (VersionsAreNew).
THEOREM VersionsNeverReused == Spec => VersionsAreNew
<1>1. VersionInv /\ [Next]_vars
        => [row' \notin {row, 0} => row' \notin links \/ contended]_vars
  <2> SUFFICES ASSUME VersionInv, [Next]_vars, row' \notin {row, 0}
               PROVE  row' \notin links \/ contended
    OBVIOUS
  <2>1. ~ClientStep
    BY ClientsDisturbLittle
  <2> QED
    BY <2>1, CommitsNew DEF Next, ClientStep
<1> QED
  BY <1>1, VersionInvCorrect, PTL DEF Spec, VersionsAreNew

\* A deletion lasts, although an edit that read the row before writes it back
\* (DeletedStaysDeleted).
THEOREM DeletionLasts == Spec => []DeletedStaysDeleted
<1>1. Init => DeletedStaysDeleted
  BY DEF Init, DeletedStaysDeleted
<1>2. VersionInv /\ DeletedStaysDeleted /\ [Next]_vars => DeletedStaysDeleted'
  <2> SUFFICES ASSUME VersionInv, DeletedStaysDeleted, [Next]_vars,
                      NEW d \in Requests, kind'[d] = "delete",
                      pc'[d] \in {"objects", "done"}
               PROVE  row' = 0
    BY DEF DeletedStaysDeleted
  <2>1. CASE ClientStep
    BY <2>1, ClientsDisturbLittle DEF DeletedStaysDeleted
  <2>2. ASSUME NEW r \in Requests, RequestStep(r) PROVE row' = 0
    <3>0. TypeOK /\ kind' = kind /\ StageOf(d)
      BY <2>2, RequestsLeave DEF VersionInv
    <3>1. CASE pc[d] \in {"objects", "done"}
      <4>1. row = 0
        BY <3>0, <3>1 DEF DeletedStaysDeleted
      <4>2. ~(Commit(r) /\ kind[r] = "upload")
        BY <3>0, <3>1 DEF VersionInv, UploadIsFirst, Commit, Goto
      <4> QED
        BY <2>2, <4>1, <4>2, RowMoves
    <3>2. CASE pc[d] \notin {"objects", "done"}
      <4>1. d = r
        BY <2>2, <3>0, <3>2, RequestsLeave
      <4>2. CASE DeleteRow(r)
        BY <4>2 DEF DeleteRow
      <4>3. CASE DeleteObject(r) \/ Commit(r)
        BY <3>0, <3>2, <4>1, <4>3 DEF DeleteObject, Commit, Goto, StageOf
      <4>4. CASE Find(r) \/ Fail(r) \/ Download(r) \/ Uploaded(r) \/ Succeeds(r)
        BY <3>0, <4>1, <4>4 DEF Find, Fail, Download, Uploaded, Succeeds, Goto, TypeOK
      <4>5. CASE Stored(r) \/ Removed(r)
        BY <3>2, <4>5 DEF Stored, Removed
      <4> QED
        BY <2>2, <4>2, <4>3, <4>4, <4>5 DEF RequestStep
    <3> QED
      BY <3>1, <3>2
  <2> QED
    BY <2>1, <2>2 DEF Next, ClientStep
<1> QED
  BY <1>1, <1>2, VersionInvCorrect, PTL DEF Spec

-----------------------------------------------------------------------------
\* What a request does to the object and to what was made.
LEMMA ObjectMoves ==
  ASSUME VersionInv, NEW r \in Requests, RequestStep(r), object' # {}
  PROVE  \/ object' = object /\ new' = new
         \/ object' = new'[r] /\ pc'[r] # "done"
         \/ object' = object /\ new[r] = {} /\ \A q \in Requests \ {r} : new'[q] = new[q]
<1>0. TypeOK /\ StageOf(r)
  BY DEF VersionInv
<1>1. CASE Stored(r)
  BY <1>0, <1>1 DEF Stored
<1>2. CASE Download(r) \/ Uploaded(r)
  <2>1. new[r] = {}
    BY <1>0, <1>2 DEF Download, Uploaded, Goto, StageOf
  <2> QED
    BY <1>0, <1>2, <2>1, RequestsLeave DEF Download, Uploaded
<1>3. CASE ~(Stored(r) \/ Download(r) \/ Uploaded(r))
  BY <1>3 DEF RequestStep, Find, Fail, Removed, Succeeds, Commit, DeleteRow,
     DeleteObject
<1> QED
  BY <1>1, <1>2, <1>3

\* A request that has made a video is done only by its commit.
LEMMA DoneIsCommit ==
  ASSUME VersionInv, NEW r \in Requests, RequestStep(r), NEW q \in Requests,
         new[q] # {}, pc[q] # "done", pc'[q] = "done"
  PROVE  q = r /\ Commit(r)
<1>0. TypeOK /\ StageOf(q)
  BY DEF VersionInv
<1>1. q = r
  BY <1>0, RequestsLeave
<1>2. ~DeleteObject(r)
  BY <1>0, <1>1 DEF DeleteObject, Goto, StageOf
<1>3. ~(Find(r) \/ Fail(r) \/ Download(r) \/ Uploaded(r) \/ Succeeds(r) \/ DeleteRow(r))
  BY <1>0, <1>1 DEF Find, Fail, Download, Uploaded, Succeeds, DeleteRow, Goto, TypeOK
<1>4. ~(Stored(r) \/ Removed(r))
  BY DEF Stored, Removed
<1> QED
  BY <1>1, <1>2, <1>3, <1>4 DEF RequestStep

LEMMA RequestsKeepListed ==
  ASSUME VersionInv, ListedIsCurrent, TypeOK', NEW r \in Requests, RequestStep(r)
  PROVE  ListedIsCurrent'
<1> SUFFICES ASSUME row' # 0, cdn'[row'] # {}, ~contended', object' # {}
             PROVE  \/ cdn'[row'] = object'
                    \/ \E q \in Requests : object' = new'[q] /\ pc'[q] # "done"
  BY DEF ListedIsCurrent
<1>0. TypeOK /\ ~contended
  BY RequestsLeave DEF VersionInv
<1>1. CASE row' = row
  <2>1. cdn'[row] = cdn[row]
    BY <1>0, <1>1, RequestsLeave DEF TypeOK
  <2>2. ~Commit(r)
    <3> SUFFICES ASSUME Commit(r) PROVE FALSE
      OBVIOUS
    <3>1. kind[r] # "upload"
      <4>1. kind[r] = "upload" => row = 0
        BY DEF VersionInv, UploadIsFirst, Commit, Goto
      <4> QED
        BY <1>1, <4>1
    <3>2. kind[r] \in Writers /\ Writing(r)
      <4>1. StageOf(r) /\ kind[r] \in {"upload", "edit", "rename", "delete"}
        BY DeliveryAssumption DEF VersionInv, TypeOK
      <4> QED
        BY <3>1, <4>1 DEF Commit, Goto, StageOf, Writing, Writers
    <3>3. read[r] = row /\ row \in Nat
      BY <1>0, <1>1, <3>2 DEF VersionInv, Calm, TypeOK, Versions
    <3> QED
      BY <1>1, <3>2, <3>3 DEF Commit, WriteRow, NewVersion
  <2>3. CASE object' = new'[r] /\ pc'[r] # "done"
    BY <2>3
  <2>4. CASE object' = object
    <3>1. CASE cdn[row] = object
      BY <1>1, <2>1, <2>4, <3>1
    <3>2. CASE \E q \in Requests : object = new[q] /\ pc[q] # "done"
      <4>1. PICK q \in Requests : object = new[q] /\ pc[q] # "done"
        BY <3>2
      <4>2. pc'[q] # "done"
        BY <2>2, <2>4, <4>1, DoneIsCommit
      <4>3. new'[q] = object' \/ (object' = new'[r] /\ pc'[r] # "done")
        <5>1. \/ new' = new
              \/ object' = new'[r] /\ pc'[r] # "done"
              \/ new[r] = {} /\ \A p \in Requests \ {r} : new'[p] = new[p]
          BY ObjectMoves
        <5>2. q = r => new[r] # {}
          BY <2>4, <4>1
        <5> QED
          BY <2>4, <4>1, <5>1, <5>2
      <4> QED
        BY <4>1, <4>2, <4>3
    <3> QED
      BY <1>0, <1>1, <2>1, <2>4, <3>1, <3>2 DEF ListedIsCurrent
  <2> QED
    BY <2>3, <2>4, ObjectMoves
<1>2. CASE row' # row
  <2>1. row' \notin links
    BY <1>0, <1>2, CommitsNew
  <2>2. row' \in Versions
    BY DEF TypeOK
  <2>3. cdn[row'] = {}
    BY <2>1, <2>2 DEF VersionInv, CopiesWereGiven
  <2> QED
    BY <1>0, <2>2, <2>3, RequestsLeave
<1> QED
  BY <1>1, <1>2

LEMMA ClientsKeepListed ==
  ASSUME VersionInv, ListedIsCurrent, ClientStep
  PROVE  ListedIsCurrent'
<1>1. UNCHANGED <<row, object, pc, new, contended>>
  BY ClientsDisturbLittle
<1>2. cdn'[row] \in {cdn[row], object, {}}
  BY ClientsDisturbLittle DEF VersionInv, TypeOK
<1> QED
  BY <1>1, <1>2 DEF ListedIsCurrent

\* The URL that the lists give leads to the video in the bucket, except for an
\* edit that has put and not committed (ListedIsCurrent).
THEOREM ListedStaysCurrent == Spec => []ListedIsCurrent
<1>1. Init => ListedIsCurrent
  BY ZeroAndOne DEF Init, ListedIsCurrent
<1>2. VersionInv /\ TypeOK' /\ ListedIsCurrent /\ [Next]_vars => ListedIsCurrent'
  BY RequestsKeepListed, ClientsKeepListed DEF Next, ClientStep
<1>3. TypeInv => TypeOK
  BY DEF TypeInv
<1> QED
  BY <1>1, <1>2, <1>3, VersionInvCorrect, PTL DEF Spec
-----------------------------------------------------------------------------
(***************************************************************************)
(* Composition: what a request's call of Do does to the video here is what *)
(* Uploader.Do is proved to do.                                            *)
(***************************************************************************)
CallsDo(r) == kind[r] \in {"edit", "upload"}

\* What a handler knows of its call of Do.
ResultOf(r) ==
  CASE CallsDo(r) /\ pc[r] \in {"commit", "done", "unsaved"} -> "ok"
    [] CallsDo(r) /\ pc[r] = "failed" /\ new[r] # {} -> "err"
    [] OTHER -> "none"

DoOf(r) == INSTANCE UploadPromise
             WITH Parts <- {"video"}, bucket <- [p \in {"video"} |-> put[r]],
                  result <- ResultOf(r)

\* A request that is past its call has a video, and has put it.
DoFits(r) ==
  /\ CallsDo(r) /\ pc[r] \in {"store", "commit", "done", "unsaved"} => new[r] # {}
  /\ CallsDo(r) /\ pc[r] \in {"commit", "done", "unsaved"} => put[r] = "new"
  /\ pc[r] \in {"start", "download"} => put[r] = "old"

DosFit == \A r \in Requests : DoFits(r)

LEMMA KeepsDo ==
  ASSUME VersionInv, NEW r \in Requests, RequestStep(r), DoFits(r)
  PROVE  DoFits(r)'
<1>0. TypeOK /\ StageOf(r) /\ kind' = kind
  BY RequestsLeave DEF VersionInv
<1> USE <1>0 DEF TypeOK, DoFits, CallsDo, Goto
<1>1. CASE Find(r) \/ Fail(r)
  BY <1>1 DEF Find, Fail, StageOf
<1>2. CASE Download(r) \/ Uploaded(r)
  <2>1. new'[r] # {} /\ pc'[r] = "store" /\ put' = put
    <3>1. CASE Uploaded(r)
      BY <3>1 DEF Uploaded
    <3>2. CASE Download(r)
      <4>1. PICK video \in Served(0) : TRUE
        BY <3>2 DEF Download
      <4>2. new' = [new EXCEPT ![r] = {v \cup {r} : v \in Served(0)}]
        BY <3>2 DEF Download
      <4>3. new'[r] = {v \cup {r} : v \in Served(0)}
        BY <4>2
      <4>4. pc'[r] = "store" /\ put' = put
        BY <3>2 DEF Download
      <4>5. video \cup {r} \in new'[r]
        BY <4>1, <4>3
      <4> QED
        BY <4>4, <4>5
    <3> QED
      BY <1>2, <3>1, <3>2
  <2> QED
    BY <2>1
<1>3. CASE Stored(r) \/ Removed(r)
  BY <1>3 DEF Stored, Removed
<1>4. CASE Succeeds(r) \/ Commit(r)
  BY <1>4 DEF Succeeds, Commit
<1>5. CASE DeleteRow(r) \/ DeleteObject(r)
  BY <1>5 DEF DeleteRow, DeleteObject, StageOf
<1> QED
  BY <1>1, <1>2, <1>3, <1>4, <1>5 DEF RequestStep

LEMMA OthersLeave ==
  [Next]_vars => (\E r \in Requests : RequestStep(r)) \/ UNCHANGED requestVars
  BY DEF Next, vars, List, FileFetch, Give, Forget, Follow, Evict,
         FileOwns, FinishOwns

LEMMA KeepsDos == VersionInv /\ DosFit /\ [Next]_vars => DosFit'
<1> SUFFICES ASSUME VersionInv, DosFit, [Next]_vars, NEW q \in Requests
             PROVE  DoFits(q)'
  BY DEF DosFit
<1>1. DoFits(q)
  BY DEF DosFit
<1>2. ASSUME NEW r \in Requests, RequestStep(r) PROVE DoFits(q)'
  <2>1. CASE q = r
    BY <1>1, <1>2, <2>1, KeepsDo
  <2>2. CASE q # r
    BY <1>1, <1>2, <2>2, RequestsLeave DEF VersionInv, DoFits, CallsDo
  <2> QED
    BY <2>1, <2>2
<1>3. CASE UNCHANGED requestVars
  BY <1>1, <1>3 DEF requestVars, DoFits, CallsDo
<1> QED
  BY <1>2, <1>3, OthersLeave

LEMMA StepFollowsPromise ==
  ASSUME VersionInv, NEW r \in Requests, RequestStep(r), DoFits(r)
  PROVE  [DoOf(r)!Next]_<<[p \in {"video"} |-> put[r]], ResultOf(r)>>
<1>0. TypeOK /\ StageOf(r) /\ kind' = kind
  BY RequestsLeave DEF VersionInv
<1> DEFINE bucket == [p \in {"video"} |-> put[r]]
<1>1. ASSUME put' = put, ResultOf(r)' = ResultOf(r)
      PROVE  UNCHANGED <<bucket, ResultOf(r)>>
  BY <1>1
<1>2. CASE Stored(r)
  <2>1. /\ pc[r] \in {"store", "failed"} /\ new[r] # {} /\ put[r] = "old"
        /\ put'[r] = "new" /\ pc' = pc /\ new' = new
    BY <1>0, <1>2 DEF Stored, TypeOK
  <2>2. ResultOf(r) # "ok" /\ ResultOf(r)' = ResultOf(r)
    BY <1>0, <2>1 DEF ResultOf, CallsDo
  <2>3. bucket["video"] = "old" /\ bucket' = [bucket EXCEPT !["video"] = "new"]
    BY <2>1
  <2>4. DoOf(r)!Stored("video")
    BY <2>2, <2>3 DEF DoOf!Stored
  <2> QED
    BY <2>4 DEF DoOf!Next
<1>3. CASE Removed(r)
  <2>1. /\ pc[r] = "store" /\ put[r] = "new"
        /\ put'[r] = "gone" /\ pc' = pc /\ new' = new
    BY <1>0, <1>3 DEF Removed, TypeOK
  <2>2. ResultOf(r) = "none" /\ ResultOf(r)' = ResultOf(r)
    BY <1>0, <2>1 DEF ResultOf, CallsDo
  <2>3. bucket["video"] = "new" /\ bucket' = [bucket EXCEPT !["video"] = "gone"]
    BY <2>1
  <2>4. DoOf(r)!Removed("video")
    BY <2>2, <2>3 DEF DoOf!Removed
  <2> QED
    BY <2>4 DEF DoOf!Next
<1>4. CASE Succeeds(r)
  <2>1. /\ pc[r] = "store" /\ put[r] = "new" /\ pc'[r] = "commit"
        /\ put' = put /\ new' = new
    BY <1>0, <1>4 DEF Succeeds, Goto, TypeOK
  <2>2. CallsDo(r)
    BY <1>0, <2>1 DEF StageOf, CallsDo
  <2>3. ResultOf(r) = "none" /\ ResultOf(r)' = "ok"
    BY <1>0, <2>1, <2>2 DEF ResultOf, CallsDo
  <2>4. \A p \in {"video"} : bucket[p] = "new"
    BY <2>1
  <2>5. UNCHANGED bucket
    BY <2>1
  <2>6. DoOf(r)!Succeeds
    BY <2>3, <2>4, <2>5 DEF DoOf!Succeeds
  <2> QED
    BY <2>6 DEF DoOf!Next
<1>5. CASE Fail(r)
  <2>1. /\ put' = put /\ new' = new
        /\ pc[r] = "commit" => pc'[r] = "unsaved"
        /\ pc[r] # "commit" => pc'[r] = "failed"
        /\ pc[r] \in {"start", "download", "store", "commit", "row", "objects"}
    BY <1>0, <1>5 DEF Fail, Goto, TypeOK
  <2>2. CASE CallsDo(r) /\ pc[r] = "store"
    <3>1. ResultOf(r) = "none" /\ ResultOf(r)' = "err"
      BY <1>0, <2>1, <2>2 DEF ResultOf, CallsDo, DoFits
    <3>2. UNCHANGED bucket
      BY <2>1
    <3>3. DoOf(r)!Fails
      BY <3>1, <3>2 DEF DoOf!Fails
    <3> QED
      BY <3>3 DEF DoOf!Next
  <2>3. CASE ~(CallsDo(r) /\ pc[r] = "store")
    BY <1>0, <1>1, <2>1, <2>3 DEF ResultOf, CallsDo, StageOf
  <2> QED
    BY <2>2, <2>3
<1>6. CASE Find(r) \/ Download(r) \/ Uploaded(r)
  <2>1. /\ put' = put /\ pc[r] \in {"start", "download"}
        /\ pc'[r] \in {"download", "store", "row"} \/ kind[r] = "rename"
    BY <1>0, <1>6 DEF Find, Download, Uploaded, Goto, TypeOK
  <2>2. ResultOf(r)' = ResultOf(r)
    BY <1>0, <2>1 DEF ResultOf, CallsDo
  <2> QED
    BY <1>1, <2>1, <2>2
<1>7. CASE Commit(r) \/ DeleteRow(r) \/ DeleteObject(r)
  <2>1. /\ put' = put /\ new' = new
        /\ \/ pc[r] = "commit" /\ pc'[r] = "done"
           \/ pc[r] \in {"row", "objects"} /\ kind[r] = "delete"
    BY <1>0, <1>7 DEF Commit, DeleteRow, DeleteObject, Goto, StageOf, TypeOK
  <2>2. ResultOf(r)' = ResultOf(r)
    BY <1>0, <2>1 DEF ResultOf, CallsDo
  <2> QED
    BY <1>1, <2>1, <2>2
<1> QED
  BY <1>2, <1>3, <1>4, <1>5, <1>6, <1>7 DEF RequestStep

\* Delivery's requests too see of Uploader.Do no more than what it is proved to
\* promise: each request, with what it put under the video's key and what its
\* call answered, is a behaviour of UploadPromise (upload.go:Do).
THEOREM EachDoIsAsPromised ==
  ASSUME NEW r \in Requests
  PROVE  Spec => DoOf(r)!Spec
<1> DEFINE bucket == [p \in {"video"} |-> put[r]]
<1>1. Init => DosFit /\ DoOf(r)!Init
  <2> SUFFICES ASSUME Init PROVE DosFit /\ DoOf(r)!Init
    OBVIOUS
  <2>1. DosFit
    BY DEF Init, DosFit, DoFits, CallsDo
  <2>2. ResultOf(r) = "none"
    BY DEF Init, ResultOf
  <2>3. bucket \in [{"video"} -> {"none", "old"}]
    BY DEF Init
  <2> QED
    BY <2>1, <2>2, <2>3 DEF DoOf!Init
<1>2. VersionInv /\ DosFit /\ [Next]_vars
        => [DoOf(r)!Next]_<<bucket, ResultOf(r)>>
  <2> SUFFICES ASSUME VersionInv, DosFit, [Next]_vars
               PROVE  [DoOf(r)!Next]_<<bucket, ResultOf(r)>>
    OBVIOUS
  <2>1. ASSUME NEW q \in Requests, RequestStep(q), q # r
        PROVE  UNCHANGED <<bucket, ResultOf(r)>>
    BY <2>1, RequestsLeave DEF VersionInv, ResultOf, CallsDo
  <2>2. CASE RequestStep(r)
    BY <2>2, StepFollowsPromise DEF DosFit
  <2>3. CASE UNCHANGED requestVars
    BY <2>3 DEF requestVars, ResultOf, CallsDo
  <2> QED
    BY <2>1, <2>2, <2>3, OthersLeave
<1> QED
  BY <1>1, <1>2, KeepsDos, VersionInvCorrect, PTL DEF Spec, DoOf!Spec
=============================================================================
