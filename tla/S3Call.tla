------------------------------- MODULE S3Call -------------------------------
(***************************************************************************)
(* What a CreateBucket or a DeleteBucket of the S3Bucket controller comes  *)
(* to, whatever the SDK does for it: S3 does it in one step, whose answer  *)
(* comes, or is lost, and then the call fails or is made once more. A      *)
(* result is true of the bucket at the step that brings it about. These    *)
(* are the steps CreateBucket and DeleteBucket of S3BucketController;      *)
(* ApiCall implements this specification.                                  *)
(***************************************************************************)
VARIABLES
  bucket, \* "none", or whose bucket has the name: "ours", "others"
  op,     \* what is called: "create", "delete"
  outcome \* "none" before the first call, "calling", or what the controller
          \* concludes: "made", "gone", "failed"

vars == <<bucket, op, outcome>>

Start(o) ==
  /\ outcome # "calling"
  /\ op' = o /\ outcome' = "calling" /\ UNCHANGED bucket

(* An answer that is lost is followed by another try, or by an error.      *)
Answered(conclusion) == outcome' \in {conclusion, "calling", "failed"}

Fail == outcome' = "failed" /\ UNCHANGED bucket

CreateBucket ==
  /\ outcome = "calling" /\ op = "create" /\ UNCHANGED op
  /\ \/ bucket = "none" /\ bucket' = "ours" /\ Answered("made")
     \/ Fail

DeleteBucket ==
  /\ outcome = "calling" /\ op = "delete" /\ UNCHANGED op
  /\ \/ bucket # "none" /\ bucket' = "none" /\ Answered("gone")
     \/ bucket = "none" /\ outcome' = "gone" /\ UNCHANGED bucket \* NoSuchBucket
     \/ Fail

OthersChangeBucket ==
  /\ bucket' = IF bucket = "none" THEN "others" ELSE "none"
  /\ UNCHANGED <<op, outcome>>

Init ==
  /\ bucket \in {"none", "ours", "others"}
  /\ op = "create" /\ outcome = "none"

Next ==
  \/ \E o \in {"create", "delete"} : Start(o)
  \/ CreateBucket \/ DeleteBucket \/ OthersChangeBucket

Spec == Init /\ [][Next]_vars
=============================================================================
