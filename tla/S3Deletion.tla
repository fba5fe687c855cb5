----------------------------- MODULE S3Deletion -----------------------------
(***************************************************************************)
(* The deletion of one bucket with deleteStrategy Force, as                *)
(* S3BucketController takes it: DeleteBucket, one step for all of          *)
(* deleteBucketObjects, and the second DeleteBucket.  Of the objects only  *)
(* one thing matters, whether there are any.  ForceDelete implements this  *)
(* specification with its pages and batches.                               *)
(***************************************************************************)
VARIABLES
  exists,    \* the bucket is there
  filled,    \* it has objects, or old versions of some
  versioned, \* versioning has been enabled at some time
  put,       \* an object was put since the bucket was found not to be empty
  step       \* the next call: "deleteBucket", "emptyBucket",
             \* "deleteEmptied"; or what came of them: "gone", "failed"

vars == <<exists, filled, versioned, put, step>>

Fail == step' = "failed" /\ UNCHANGED <<exists, filled, versioned, put>>

(* A DeleteBucket call on an empty bucket, with or without its answer.     *)
BucketIsDeleted ==
  /\ exists /\ ~filled /\ exists' = FALSE
  /\ step' \in {"gone", "failed"}
  /\ UNCHANGED <<filled, versioned, put>>

DeleteBucket ==
  /\ step = "deleteBucket"
  /\ \/ BucketIsDeleted
     \/ /\ ~exists /\ step' = "gone" \* NoSuchBucket
        /\ UNCHANGED <<exists, filled, versioned, put>>
     \/ /\ exists /\ filled /\ step' = "emptyBucket" \* BucketNotEmpty
        /\ put' = FALSE /\ UNCHANGED <<exists, filled, versioned>>
     \/ Fail

(* deleteBucketObjects: a success leaves what was put meanwhile, and old   *)
(* versions; a failure leaves anything; without the bucket it fails.       *)
EmptyBucket ==
  /\ step = "emptyBucket" /\ UNCHANGED <<exists, versioned, put>>
  /\ \/ /\ exists /\ step' = "deleteEmptied"
        /\ filled' \in {FALSE, put \/ versioned}
     \/ exists /\ step' = "failed" /\ filled' \in BOOLEAN
     \/ ~exists /\ step' = "failed" /\ UNCHANGED filled

(* Any error of the second DeleteBucket is one.                            *)
DeleteEmptied ==
  /\ step = "deleteEmptied"
  /\ BucketIsDeleted \/ Fail

(* The object is queued again.                                             *)
Retry ==
  /\ step = "failed" /\ step' = "deleteBucket"
  /\ UNCHANGED <<exists, filled, versioned, put>>

OutsiderDeletesBucket ==
  /\ exists /\ exists' = FALSE /\ filled' = FALSE
  /\ UNCHANGED <<versioned, put, step>>

OutsiderPutsObject ==
  /\ exists /\ filled' = TRUE /\ put' = TRUE
  /\ UNCHANGED <<exists, versioned, step>>

(* Without its last object a versioned bucket still has old versions, and  *)
(* a bucket that is being emptied is empty only when that is done.         *)
OutsiderRemovesObjects ==
  /\ exists /\ filled' \in {FALSE, filled}
  /\ UNCHANGED <<exists, versioned, put, step>>

Init ==
  /\ exists = TRUE /\ filled \in BOOLEAN /\ versioned \in BOOLEAN
  /\ put = FALSE /\ step = "deleteBucket"

Next ==
  \/ DeleteBucket \/ EmptyBucket \/ DeleteEmptied \/ Retry
  \/ OutsiderDeletesBucket \/ OutsiderPutsObject \/ OutsiderRemovesObjects

Spec == Init /\ [][Next]_vars
=============================================================================
