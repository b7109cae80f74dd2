--------------------------- MODULE UploadPromise ----------------------------
(***************************************************************************)
(* What a caller of Uploader.Do can rely on, as one object per part of the *)
(* file and one result:                                                    *)
(*                                                                         *)
(*   - a part is stored at most once, and never after a success;           *)
(*   - only what this call stored is removed, and only before it returns;  *)
(*   - success means that every part is stored.                            *)
(*                                                                         *)
(* It promises nothing of the objects a failure leaves behind.             *)
(***************************************************************************)
CONSTANT Parts  \* of the file that the caller looks at: video, thumbnail

VARIABLES
  bucket,  \* each part's object: "none", "old" (to be replaced), "new", "gone"
  result   \* "none" until Do returns "ok" or "err"

Init ==
  /\ bucket \in [Parts -> {"none", "old"}]
  /\ result = "none"

Stored(p) ==
  /\ result # "ok"
  /\ bucket[p] \in {"none", "old"}
  /\ bucket' = [bucket EXCEPT ![p] = "new"]
  /\ UNCHANGED result

Removed(p) ==
  /\ result = "none"
  /\ bucket[p] = "new"
  /\ bucket' = [bucket EXCEPT ![p] = "gone"]
  /\ UNCHANGED result

Succeeds ==
  /\ result = "none"
  /\ \A p \in Parts : bucket[p] = "new"
  /\ result' = "ok"
  /\ UNCHANGED bucket

Fails ==
  /\ result = "none"
  /\ result' = "err"
  /\ UNCHANGED bucket

Next == (\E p \in Parts : Stored(p) \/ Removed(p)) \/ Succeeds \/ Fails

Spec == Init /\ [][Next]_<<bucket, result>>
=============================================================================
