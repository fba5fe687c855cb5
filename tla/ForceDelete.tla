---------------------------- MODULE ForceDelete ----------------------------
(***************************************************************************)
(* The deletion of one bucket with deleteStrategy Force: deleteBucket and  *)
(* deleteBucketObjects of pkg/controller/s3bucket, with the iterator over  *)
(* the pages of ListObjects and the batches of DeleteObjects of the AWS    *)
(* SDK that they use.                                                      *)
(*                                                                         *)
(* Objects are put, and the bucket is deleted, by outsiders while the      *)
(* worker lists and deletes; calls fail, succeed for a part of a batch, or *)
(* lose their answer; a reconcile that fails is run again.                 *)
(***************************************************************************)
EXTENDS Naturals, FiniteSets

CONSTANTS
  Objects,   \* names of objects; their order is that of ListObjects
  PageSize,  \* most objects of one page (1000 for S3)
  BatchSize, \* objects of one DeleteObjects call (DefaultBatchSize: 100)
  MaxPuts, MaxFaults \* bounds of the environment

ASSUME ConstantsAssumption ==
  /\ Objects \subseteq Nat \ {0} /\ IsFiniteSet(Objects)
  /\ PageSize \in Nat \ {0} /\ BatchSize \in Nat \ {0}
  /\ MaxPuts \in Nat /\ MaxFaults \in Nat

VARIABLES
  exists,    \* the bucket is there
  versioned, \* versioning has been enabled at some time
  objects,   \* the objects ListObjects shows
  behind,    \* objects with old versions or delete markers
  pc,        \* the next call of the worker
  marker,    \* Pagination.nextTokens: where the next page starts; 0 before
             \* the first page
  more,      \* HasNextPage
  page,      \* DeleteListIterator.objects: not yet taken from the page
  input,     \* DeleteObjectsInput: the batch that is being filled
  failed,    \* errs of BatchDelete.Delete is not empty
  sent,      \* history: objects of the batches of this pass
  fresh,     \* history: objects put since this pass started
  spent      \* what the environment has used of its bounds

bucket == <<exists, versioned, objects, behind>>
pass == <<marker, more, page, input, failed, sent>>
vars == <<bucket, pc, pass, fresh, spent>>

-----------------------------------------------------------------------------
(* S3.                                                                     *)

(* DeleteBucket succeeds only then.                                        *)
Deletable == objects = {} /\ behind = {}

(* Deleting without a version leaves a delete marker in a bucket that has  *)
(* been versioned.                                                         *)
DeletedFromBucket(S) ==
  /\ objects' = objects \ S
  /\ behind' = IF versioned THEN behind \cup S ELSE behind
  /\ UNCHANGED <<exists, versioned>>

Fault ==
  spent.faults < MaxFaults /\ spent' = [spent EXCEPT !.faults = @ + 1]

-----------------------------------------------------------------------------
(* The worker.                                                             *)

GoTo(next) == pc' = next

(* deleteBucketObjects: a new iterator and a new batch.                    *)
StartPass ==
  /\ marker' = 0 /\ more' = TRUE /\ page' = {} /\ input' = {} /\ failed' = FALSE
  /\ sent' = {} /\ fresh' = {}

(* The bucket is deleted, and the answer comes or is lost.                 *)
GoneOrUnanswered ==
  \/ GoTo("gone") /\ UNCHANGED spent
  \/ GoTo("failed") /\ Fault

(* The first DeleteBucket.                                                 *)
DeleteBucket ==
  /\ pc = "deleteBucket"
  /\ \/ /\ ~exists /\ GoTo("gone") \* NoSuchBucket
        /\ UNCHANGED <<bucket, pass, fresh, spent>>
     \/ /\ exists /\ Deletable /\ exists' = FALSE
        /\ UNCHANGED <<versioned, objects, behind, pass, fresh>>
        /\ GoneOrUnanswered
     \/ /\ exists /\ ~Deletable \* BucketNotEmpty
        /\ StartPass /\ GoTo("next") /\ UNCHANGED <<bucket, spent>>
     \/ /\ Fault /\ GoTo("failed") /\ UNCHANGED <<bucket, pass, fresh>>

(* Listing again from the marker itself.                                   *)
ListedFrom(m) == {o \in objects : o >= m}

(* The objects behind a marker, and the pages they begin with.             *)
Listed(m) == {o \in objects : o > m}
PageUpTo(last) == {o \in Listed(marker) : o <= last}

(* A marker one behind the last key.                                       *)
NextMarkerBehind(last) == last + 1

(* nextPageTokens: the last key of a page, which has no NextMarker.        *)
NextMarker(last) == last

(* Pagination.Next: an error, like a page with nothing in it, ends the     *)
(* loop of Delete.                                                         *)
ListObjects ==
  /\ pc = "next" /\ page = {} /\ more
  /\ \/ /\ exists
        /\ \E last \in Listed(marker) :
             /\ Cardinality(PageUpTo(last)) <= PageSize
             /\ page' = PageUpTo(last) /\ more' = (page' # Listed(marker))
             /\ marker' = NextMarker(last)
        /\ UNCHANGED <<pc, failed, spent>>
     \/ /\ exists /\ Listed(marker) = {}
        /\ more' = FALSE /\ GoTo("flush")
        /\ UNCHANGED <<marker, page, failed, spent>>
     \/ /\ (~exists /\ UNCHANGED spent) \/ Fault
        /\ failed' = TRUE /\ GoTo("flush")
        /\ UNCHANGED <<marker, more, page>>
  /\ UNCHANGED <<bucket, input, sent, fresh>>

LastPageDone ==
  /\ pc = "next" /\ page = {} /\ ~more
  /\ GoTo("flush")
  /\ UNCHANGED <<bucket, pass, fresh, spent>>

(* A batch that is full one object too late.                               *)
OverFull(S) == Cardinality(S) = BatchSize + 1
Full(S) == Cardinality(S) = BatchSize

(* One turn of the loop of Delete: a full batch is deleted at once.        *)
TakeObject ==
  /\ pc = "next"
  /\ \E o \in page :
       /\ \A p \in page : o <= p
       /\ page' = page \ {o} /\ input' = input \cup {o}
  /\ GoTo(IF Full(input') THEN "deleteBatch" ELSE "next")
  /\ UNCHANGED <<bucket, marker, more, failed, sent, fresh, spent>>

(* deleteBatch: the call deletes some objects, and reports the others, or  *)
(* all of them when it fails as a whole.                                   *)
SendBatch ==
  /\ \/ /\ exists /\ DeletedFromBucket(input) /\ UNCHANGED <<failed, spent>>
     \/ /\ exists /\ Fault /\ failed' = TRUE
        /\ \E S \in SUBSET input : DeletedFromBucket(S)
     \/ ~exists /\ failed' = TRUE /\ UNCHANGED <<bucket, spent>>
  /\ sent' = sent \cup input /\ input' = {}
  /\ UNCHANGED <<marker, more, page, fresh>>

DeleteFullBatch == pc = "deleteBatch" /\ SendBatch /\ GoTo("next")

DeleteLastBatch ==
  pc = "flush" /\ input # {} /\ SendBatch /\ UNCHANGED pc

(* An end that forgets the batch that is not full.                         *)
EndPassForgetful ==
  /\ pc = "flush"
  /\ GoTo(IF failed THEN "failed" ELSE "deleteAgain")
  /\ UNCHANGED <<bucket, pass, fresh, spent>>

(* The end of Delete: any error is BatchedDeleteIncomplete.                *)
EndPass ==
  /\ pc = "flush" /\ input = {}
  /\ GoTo(IF failed THEN "failed" ELSE "deleteAgain")
  /\ UNCHANGED <<bucket, pass, fresh, spent>>

(* The second DeleteBucket, of which any error is one.                     *)
DeleteBucketAgain ==
  /\ pc = "deleteAgain"
  /\ \/ /\ exists /\ Deletable /\ exists' = FALSE
        /\ UNCHANGED <<versioned, objects, behind>>
        /\ GoneOrUnanswered
     \/ (~exists \/ ~Deletable) /\ GoTo("failed") /\ UNCHANGED <<bucket, spent>>
     \/ Fault /\ GoTo("failed") /\ UNCHANGED bucket
  /\ UNCHANGED <<pass, fresh>>

(* A failed reconcile that is not tried again.                             *)
GivesUp == pc = "failed" /\ UNCHANGED vars

(* The controller queues the object again after every error.               *)
Retry ==
  /\ pc = "failed" /\ GoTo("deleteBucket")
  /\ UNCHANGED <<bucket, pass, fresh, spent>>

Worker ==
  \/ DeleteBucket \/ ListObjects \/ LastPageDone \/ TakeObject
  \/ DeleteFullBatch \/ DeleteLastBatch \/ EndPass \/ DeleteBucketAgain \/ Retry

-----------------------------------------------------------------------------
(* Outsiders.                                                              *)

PutObject(o) ==
  /\ exists /\ spent.puts < MaxPuts
  /\ spent' = [spent EXCEPT !.puts = @ + 1]
  /\ objects' = objects \cup {o}
  /\ behind' = IF versioned /\ o \in objects THEN behind \cup {o} ELSE behind
  /\ fresh' = fresh \cup {o}
  /\ UNCHANGED <<exists, versioned, pc, pass>>

RemoveObject(o) ==
  /\ exists /\ o \in objects
  /\ DeletedFromBucket({o})
  /\ UNCHANGED <<pc, pass, fresh, spent>>

RemoveBucket ==
  /\ exists /\ Deletable /\ exists' = FALSE
  /\ UNCHANGED <<versioned, objects, behind, pc, pass, fresh, spent>>

Outsiders == (\E o \in Objects : PutObject(o) \/ RemoveObject(o)) \/ RemoveBucket

-----------------------------------------------------------------------------
Init ==
  /\ exists = TRUE /\ versioned \in BOOLEAN
  /\ objects \in SUBSET Objects
  /\ behind \in IF versioned THEN SUBSET Objects ELSE {{}}
  /\ pc = "deleteBucket"
  /\ marker = 0 /\ more = TRUE /\ page = {} /\ input = {} /\ failed = FALSE
  /\ sent = {} /\ fresh = {}
  /\ spent = [puts |-> 0, faults |-> 0]

Next == Worker \/ Outsiders

Spec == Init /\ [][Next]_vars

(* The worker's goroutine runs, and the queue's retry comes.               *)
FairSpec == Spec /\ WF_vars(Worker)

-----------------------------------------------------------------------------
(* Properties.                                                             *)

PCs == {"deleteBucket", "next", "deleteBatch", "flush", "deleteAgain", "failed",
        "gone"}

(* Every variable has its type: a page and a batch are sets of objects     *)
(* within the sizes of S3 and of the SDK.                                  *)
TypeOK ==
  /\ exists \in BOOLEAN /\ versioned \in BOOLEAN
  /\ objects \subseteq Objects /\ behind \subseteq Objects
  /\ pc \in PCs
  /\ marker \in {0} \cup Objects /\ more \in BOOLEAN
  /\ page \subseteq Objects /\ input \subseteq Objects
  /\ failed \in BOOLEAN
  /\ sent \subseteq Objects /\ fresh \subseteq Objects
  /\ spent \in [puts : 0..MaxPuts, faults : 0..MaxFaults]

(* deleteBucketObjects says that it is done only when every object that    *)
(* was in the bucket when it started is gone: whatever is put, removed or  *)
(* fails meanwhile, no object falls between two pages or two batches, and  *)
(* no failed deletion goes unreported.                                     *)
SuccessLeavesOnlyNewObjects ==
  (pc = "deleteAgain" /\ exists) => objects \subseteq fresh

(* One pass asks for the deletion of an object at most once, also when the *)
(* deletion failed or the object was put again: a pass never runs in       *)
(* circles over the pages.                                                 *)
NoObjectSentTwice == (page \cup input) \cap sent = {}

(* A batch is deleted when it is full: DeleteObjects never gets more keys  *)
(* than BatchSize, wherever a page ends.                                   *)
BatchWithinLimit == Cardinality(input) <= BatchSize

(* The pass of deleteBucketObjects has a call to make still: its result is *)
(* decided by the last one.                                                *)
Emptying ==
  pc \in {"next", "deleteBatch", "flush"}
    /\ (page # {} \/ input # {} \/ (pc = "next" /\ more))

Step ==
  CASE pc \in {"deleteBucket", "gone"} -> pc
    [] Emptying -> "emptyBucket"
    [] ~Emptying /\ pc \in {"next", "flush"} ->
         IF failed THEN "failed" ELSE "deleteEmptied"
    [] pc = "deleteAgain" -> "deleteEmptied"
    [] OTHER -> "failed"

Deletion == INSTANCE S3Deletion WITH
  filled <- exists /\ (Emptying \/ ~Deletable),
  put <- fresh # {},
  step <- Step

(* S3BucketController's one step for deleteBucketObjects is enough: a pass *)
(* over pages and batches, among objects that are put and removed and      *)
(* calls that fail, does nothing but empty the bucket in the step that     *)
(* decides its result; and when it succeeds and the bucket is not empty,   *)
(* an object was put meanwhile or there are old versions.                  *)
ImplementsDeletion == Deletion!Spec

(* Without versions the retries end with the bucket gone, whatever failed  *)
(* and was put meanwhile, once outsiders put no more.                      *)
BucketGoes == ~versioned ~> ~exists

-----------------------------------------------------------------------------
(* What the documentation says, and the code does not keep.                *)

(* s3bucket_types.go: with Force all objects should be deleted so that the *)
(* bucket can be deleted without error. Then the second DeleteBucket does  *)
(* not fail when nobody else touches the bucket and no call fails.         *)
EmptiedBucketIsDeletable == (pc = "deleteAgain" /\ exists) => Deletable
=============================================================================
