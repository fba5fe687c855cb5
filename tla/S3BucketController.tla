------------------------- MODULE S3BucketController -------------------------
(***************************************************************************)
(* The S3Bucket controller (pkg/controller/s3bucket): one worker that      *)
(* reconciles S3Bucket objects of the Kubernetes API with buckets of S3.   *)
(*                                                                         *)
(* The worker reads an object from the informer's cache, which lags behind *)
(* the API server, and goes back when the informer lists the objects again *)
(* from an API server that lags itself. The worker keeps the object in     *)
(* memory for the whole reconcile, and makes one remote call per step:     *)
(* Update calls that the API server refuses when the object has changed    *)
(* since, and S3 calls that nobody serialises.                             *)
(* Between two calls, users edit and delete objects, outsiders create,     *)
(* fill and delete buckets, calls fail or lose their answer, and the       *)
(* process crashes.                                                        *)
(***************************************************************************)
EXTENDS Naturals, Sequences, FiniteSets, WorkQueue

CONSTANTS
  Keys,                \* names of S3Bucket objects
  Buckets,             \* names of S3 buckets; an ARN stands for its bucket
  InvalidBuckets,      \* the names validateBucketName rejects; they stand for
                       \* every spec validateInstance rejects by itself
  Regions,
  LegacyRegion,        \* us-east-1: S3 reports its buckets' location as nil
  Acls,                \* canned ACLs, after the default of bucketAcl
  DeleteStrategies,    \* subset of {"Delete", "Skip", "Force"}
  OwnershipStrategies, \* subset of {"Created", "Acquire"}
  NONE,                \* an empty status field; no key
  Outsider,            \* whoever makes a bucket and is not the operator
  MaxLag,              \* how many versions a list may be older than the
                       \* newest one the operator has seen
  MaxUser, MaxOutsider, MaxFaults, MaxCrashes \* bounds of the environment

ASSUME ConstantsAssumption ==
  /\ Keys # {} /\ NONE \notin Keys /\ Outsider \notin Keys
  /\ NONE \notin Buckets /\ NONE \notin Regions /\ NONE \notin Acls
  /\ InvalidBuckets \subseteq Buckets
  /\ Buckets # {} /\ Regions # {} /\ Acls # {}
  /\ DeleteStrategies # {} /\ DeleteStrategies \subseteq {"Delete", "Skip", "Force"}
  /\ OwnershipStrategies # {}
  /\ OwnershipStrategies \subseteq {"Created", "Acquire"}
  /\ MaxLag \in Nat /\ MaxUser \in Nat /\ MaxOutsider \in Nat
  /\ MaxFaults \in Nat /\ MaxCrashes \in Nat

-----------------------------------------------------------------------------
(* The objects of the API.                                                 *)

Specs == [bucket : Buckets, region : Regions, acl : Acls,
          deleteStrategy : DeleteStrategies,
          ownershipStrategy : OwnershipStrategies]

Statuses == [arn : Buckets \cup {NONE},
             location : Regions \cup {NONE},
             acl : Acls \cup {NONE}]

NoStatus == [arn |-> NONE, location |-> NONE, acl |-> NONE]

(* One version of an object. "terminating" is a deletionTimestamp that is  *)
(* set; an absent object keeps the last state it had, as the watch's       *)
(* Deleted event does.                                                     *)
Versions == [rv : Nat, phase : {"absent", "live", "terminating"},
             finalizer : BOOLEAN, spec : Specs, status : Statuses]

NeverCreated == [rv |-> 0, phase |-> "absent", finalizer |-> FALSE,
                 spec |-> CHOOSE s \in Specs : TRUE, status |-> NoStatus]

(* A bucket of S3; creator is a history field the code does not have.      *)
BucketStates == [exists : BOOLEAN, region : Regions, acl : Acls,
                 objects : BOOLEAN, creator : Keys \cup {Outsider}]

NoBucket == [exists |-> FALSE, region |-> CHOOSE r \in Regions : TRUE,
             acl |-> CHOOSE a \in Acls : TRUE, objects |-> FALSE,
             creator |-> Outsider]

Spending == [user : 0..MaxUser, outsider : 0..MaxOutsider,
             faults : 0..MaxFaults, crashes : 0..MaxCrashes]

VARIABLES
  versions, \* [Keys -> Seq(Versions)]: from the newest version a cache of
            \* the operator has held (first) to the one the API server
            \* stores (last); those between are events under way
  past,     \* [Keys -> Seq(Versions)]: older ones that may still be listed
  behind,   \* [Keys -> Nat]: how many versions the cache has gone back
  s3,       \* [Buckets -> BucketStates]
  wq,       \* the controller's work queue
  worker,   \* the one worker: its next call, its key and its instance
  made,     \* history: <<k, b>> when the operator has created b for k
  recorded, \* history: <<k, b>> when k has been stored with the ARN of b
  released, \* history: keys whose bucket was deleted, or found missing,
            \* since the deletion of the object was requested
  spent     \* what the environment has used of its bounds

informer == <<past, behind>>
vars == <<versions, informer, s3, wq, worker, made, recorded, released, spent>>

Stored(k) == versions[k][Len(versions[k])]
Cached(k) == IF behind[k] = 0 THEN Head(versions[k])
             ELSE past[k][Len(past[k]) + 1 - behind[k]]

-----------------------------------------------------------------------------
(* The worker.                                                             *)

(* How a reconcile ends: (Result{}, nil), (Result{Requeue}, nil), and the  *)
(* two kinds of RetryError.                                                *)
Outcomes == {"done", "requeue", "retryable", "nonRetryable"}

(* The object is live as far as the worker knows, and it holds our         *)
(* finalizer.                                                              *)
Provisioning == {"headBucket", "createBucket", "recordCreated",
                 "getLocation", "recordAcquired", "configure", "putAcl",
                 "recordAcl", "configureRest"}

Deleting == {"deleteBucket", "emptyBucket", "deleteEmptied", "removeFinalizer"}

Idle == [pc |-> "idle", key |-> NONE, inst |-> NeverCreated, rewound |-> FALSE]

PCs == {"idle", "addFinalizer"} \cup Provisioning \cup Deleting \cup Outcomes

(* rewound is a history field: the cache had gone back when inst was read. *)
Workers == [pc : PCs, key : Keys \cup {NONE}, inst : Versions, rewound : BOOLEAN]

GoTo(pc) == worker' = [worker EXCEPT !.pc = pc]

(* validateInstance, without the refusal of a new bucket name.             *)
ValidateLax(v) ==
  /\ v.spec.bucket \notin InvalidBuckets
  /\ v.status.location \in {NONE, v.spec.region}

(* validateInstance: a valid name that is not changed, nor the region.     *)
Validate(v) ==
  /\ v.spec.bucket \notin InvalidBuckets
  /\ v.status.arn \in {NONE, v.spec.bucket}
  /\ v.status.location \in {NONE, v.spec.region}

AfterFinalizer(v) == IF Validate(v) THEN "headBucket" ELSE "nonRetryable"

(* reconcileInstance once the bucket exists: without any test of the ARN,  *)
(* and without the test of the strategy.                                   *)
AfterExistsUntested(v) == "configure"
AfterExistsAcquiring(v) == IF v.status.arn = NONE THEN "getLocation" ELSE "configure"

(* reconcileInstance once the bucket exists.                               *)
AfterExists(v) ==
  IF v.status.arn # NONE THEN "configure"
  ELSE IF v.spec.ownershipStrategy = "Acquire" THEN "getLocation"
  ELSE "nonRetryable"

(* reconcileBucketAcl compares with the status, not with S3.               *)
AfterPolicy(v) == IF v.spec.acl # v.status.acl THEN "putAcl" ELSE "configureRest"

(* deleteBucket's tests before its first call.                             *)
StartDeletion(v) ==
  IF v.spec.deleteStrategy = "Skip" \/ v.status.arn = NONE
  THEN "removeFinalizer" ELSE "deleteBucket"

(* Reconcile without the finalizer of a live object.                       *)
StartReconcileUnguarded(v) ==
  CASE v.phase = "absent" -> "done"
    [] v.phase = "live" -> AfterFinalizer(v)
    [] v.phase = "terminating" /\ v.finalizer -> StartDeletion(v)
    [] OTHER -> "done"

(* Reconcile up to its first call, for the instance read from the cache.   *)
StartReconcile(v) ==
  CASE v.phase = "absent" -> "done"
    [] v.phase = "live" /\ ~v.finalizer -> "addFinalizer"
    [] v.phase = "live" /\ v.finalizer -> AfterFinalizer(v)
    [] v.phase = "terminating" /\ v.finalizer -> StartDeletion(v)
    [] OTHER -> "done"

-----------------------------------------------------------------------------
(* Calls to the API server.                                                *)

MayFault == spent.faults < MaxFaults
Fault == spent' = [spent EXCEPT !.faults = @ + 1]

(* What the API server holds after an accepted Update: an object that does *)
(* not change keeps its version, and one that is being deleted is gone     *)
(* with its last finalizer.                                                *)
Persisted(k, v) ==
  IF v = Stored(k) THEN v
  ELSE [v EXCEPT !.rv = @ + 1,
                 !.phase = IF @ = "terminating" /\ ~v.finalizer THEN "absent" ELSE @]

(* An API server that does not compare resource versions.                  *)
AcceptsAny(k, v) == Stored(k).phase # "absent"

(* The API server refuses an object that is gone or has changed.           *)
Accepts(k, v) == Stored(k).phase # "absent" /\ Stored(k).rv = v.rv

Store(k, v) ==
  /\ versions' = IF v = Stored(k) THEN versions
                 ELSE [versions EXCEPT ![k] = Append(@, v)]
  /\ recorded' = IF v.status.arn = NONE THEN recorded
                 ELSE recorded \cup {<<k, v.status.arn>>}

(* client.Update of the whole object v, status included (the CRD has no    *)
(* status subresource). A success refreshes the instance in memory.        *)
Update(v, next, failed) ==
  \/ /\ Accepts(worker.key, v)
     /\ Store(worker.key, Persisted(worker.key, v))
     /\ worker' = [worker EXCEPT !.pc = next, !.inst = Persisted(worker.key, v)]
     /\ UNCHANGED spent
  \/ /\ ~Accepts(worker.key, v)
     /\ GoTo(failed)
     /\ UNCHANGED <<versions, recorded, spent>>
  \/ /\ MayFault /\ Fault \* the call fails, or only its answer is lost
     /\ GoTo(failed)
     /\ \/ UNCHANGED <<versions, recorded>>
        \/ Accepts(worker.key, v) /\ Store(worker.key, Persisted(worker.key, v))

-----------------------------------------------------------------------------
(* Reconcile, one action per call.                                         *)

inst == worker.inst
Target == s3[inst.spec.bucket]   \* the bucket reconcileInstance works on
Owned == s3[inst.status.arn]     \* the bucket deleteBucket works on

(* S3 has done what the call asks for, and the answer is lost: the SDK     *)
(* makes the call again, or has spent its retries (module ApiCall).        *)
AnswerLost == GoTo(worker.pc) \/ GoTo("nonRetryable")

(* The worker takes the next key and reads its object from the cache.      *)
TakeKey ==
  /\ worker.pc = "idle" /\ wq.queue # << >>
  /\ LET k == Head(wq.queue)
     IN  worker' = [pc |-> StartReconcile(Cached(k)), key |-> k,
                    inst |-> Cached(k), rewound |-> behind[k] > 0]
  /\ wq' = Get(wq)
  /\ UNCHANGED <<versions, s3, recorded, released, spent, made>>

AddFinalizer ==
  /\ worker.pc = "addFinalizer"
  /\ Update([inst EXCEPT !.finalizer = TRUE], AfterFinalizer(inst), "requeue")
  /\ UNCHANGED <<s3, wq, released, made>>

(* checkBucketExists.                                                      *)
HeadBucket ==
  /\ worker.pc = "headBucket"
  /\ \/ Target.exists /\ GoTo(AfterExists(inst)) /\ UNCHANGED spent
     \/ ~Target.exists /\ GoTo("createBucket") /\ UNCHANGED spent
     \/ MayFault /\ Fault /\ (GoTo("nonRetryable") \/ GoTo("retryable"))
  /\ UNCHANGED <<versions, s3, wq, recorded, released, made>>

NewBucket(spec, creator) ==
  [exists |-> TRUE, region |-> spec.region, acl |-> spec.acl,
   objects |-> FALSE, creator |-> creator]

(* createBucket's status fields, swapped and as they are.                  *)
CreatedStatusSwapped(spec) ==
  [arn |-> spec.region, location |-> spec.bucket, acl |-> spec.acl]

CreatedStatus(spec) ==
  [arn |-> spec.bucket, location |-> spec.region, acl |-> spec.acl]

(* The call always names the region as its LocationConstraint, and S3      *)
(* takes none for us-east-1, where the SDK would leave it out.             *)
Creatable(spec) == ~s3[spec.bucket].exists /\ spec.region # LegacyRegion

CreateBucket ==
  /\ worker.pc = "createBucket"
  /\ \/ /\ Creatable(inst.spec)
        /\ s3' = [s3 EXCEPT ![inst.spec.bucket] = NewBucket(inst.spec, worker.key)]
        /\ made' = made \cup {<<worker.key, inst.spec.bucket>>}
        /\ \/ /\ worker' = [worker EXCEPT !.pc = "recordCreated",
                              !.inst.status = CreatedStatus(inst.spec)]
              /\ UNCHANGED spent
           \/ MayFault /\ Fault /\ AnswerLost
     \/ ~Creatable(inst.spec) /\ GoTo("nonRetryable") /\ UNCHANGED <<s3, made, spent>>
     \/ /\ MayFault /\ Fault /\ UNCHANGED <<s3, made>>
        /\ GoTo("nonRetryable") \/ GoTo("retryable") \* OperationAborted
  /\ UNCHANGED <<versions, wq, recorded, released>>

(* updateInstance in createBucket.                                         *)
RecordCreated ==
  /\ worker.pc = "recordCreated"
  /\ Update(inst, "configure", "nonRetryable")
  /\ UNCHANGED <<s3, wq, released, made>>

(* GetBucketLocation has no location for the buckets of us-east-1.         *)
Location(bucket) == IF bucket.region = LegacyRegion THEN NONE ELSE bucket.region

(* acquireBucketOwnership's check of the region.                           *)
Acquirable(v, bucket) == Location(bucket) \in {NONE, v.spec.region}

AcquiredStatus(v, bucket) ==
  [v.status EXCEPT !.arn = v.spec.bucket,
                   !.location = IF Location(bucket) = NONE THEN @
                                ELSE Location(bucket)]

GetBucketLocation ==
  /\ worker.pc = "getLocation"
  /\ \/ /\ Target.exists /\ Acquirable(inst, Target)
        /\ worker' = [worker EXCEPT !.pc = "recordAcquired",
                        !.inst.status = AcquiredStatus(inst, Target)]
        /\ UNCHANGED spent
     \/ /\ Target.exists /\ ~Acquirable(inst, Target)
        /\ GoTo("nonRetryable") /\ UNCHANGED spent
     \/ ~Target.exists /\ GoTo("retryable") /\ UNCHANGED spent \* NoSuchBucket
     \/ MayFault /\ Fault /\ GoTo("nonRetryable")
  /\ UNCHANGED <<versions, s3, wq, recorded, released, made>>

(* updateInstance in acquireBucketOwnership.                               *)
RecordAcquired ==
  /\ worker.pc = "recordAcquired"
  /\ Update(inst, "configure", "nonRetryable")
  /\ UNCHANGED <<s3, wq, released, made>>

(* One or more calls about features other than the ACL, which module       *)
(* BucketConfig models: they fail when the bucket is gone.                 *)
Configuring(next) ==
  /\ \/ Target.exists /\ GoTo(next) /\ UNCHANGED spent
     \/ ~Target.exists /\ GoTo("nonRetryable") /\ UNCHANGED spent
     \/ MayFault /\ Fault /\ (GoTo("nonRetryable") \/ GoTo("retryable"))
  /\ UNCHANGED <<versions, s3, wq, recorded, released, made>>

(* Tags and policy come before the ACL, the other features after it.       *)
ConfigureTagsAndPolicy ==
  worker.pc = "configure" /\ Configuring(AfterPolicy(inst))
ConfigureRest == worker.pc = "configureRest" /\ Configuring("done")

PutBucketAcl ==
  /\ worker.pc = "putAcl"
  /\ \/ /\ Target.exists
        /\ s3' = [s3 EXCEPT ![inst.spec.bucket].acl = inst.spec.acl]
        /\ \/ /\ worker' = [worker EXCEPT !.pc = "recordAcl",
                              !.inst.status.acl = inst.spec.acl]
              /\ UNCHANGED spent
           \/ MayFault /\ Fault /\ AnswerLost
     \/ ~Target.exists /\ GoTo("retryable") /\ UNCHANGED <<s3, spent>>
     \/ MayFault /\ Fault /\ GoTo("nonRetryable") /\ UNCHANGED s3
  /\ UNCHANGED <<versions, wq, recorded, released, made>>

(* updateInstance in reconcileBucketAcl.                                   *)
RecordAcl ==
  /\ worker.pc = "recordAcl"
  /\ Update(inst, "configureRest", "nonRetryable")
  /\ UNCHANGED <<s3, wq, released, made>>

(* A DeleteBucket call on an empty bucket, with or without its answer.     *)
BucketIsDeleted ==
  /\ Owned.exists /\ ~Owned.objects
  /\ s3' = [s3 EXCEPT ![inst.status.arn] = NoBucket]
  /\ released' = released \cup {worker.key}
  /\ \/ GoTo("removeFinalizer") /\ UNCHANGED spent
     \/ MayFault /\ Fault /\ AnswerLost

DeleteBucket ==
  /\ worker.pc = "deleteBucket"
  /\ \/ BucketIsDeleted
     \/ /\ ~Owned.exists \* NoSuchBucket
        /\ released' = released \cup {worker.key}
        /\ GoTo("removeFinalizer")
        /\ UNCHANGED <<s3, spent>>
     \/ /\ Owned.exists /\ Owned.objects \* BucketNotEmpty
        /\ GoTo(IF inst.spec.deleteStrategy = "Force" THEN "emptyBucket"
                ELSE "nonRetryable")
        /\ UNCHANGED <<s3, released, spent>>
     \/ MayFault /\ Fault /\ GoTo("nonRetryable") /\ UNCHANGED <<s3, released>>
  /\ UNCHANGED <<versions, wq, recorded, made>>

(* Something outsiders did while a call of the worker was under way.       *)
OutsiderMeanwhile ==
  spent.outsider < MaxOutsider /\ spent' = [spent EXCEPT !.outsider = @ + 1]

(* deleteBucketObjects, which module ForceDelete models in full: listing   *)
(* fails when the bucket is gone, a failure leaves some objects or none,   *)
(* and a success leaves those that were put meanwhile behind the listing.  *)
EmptyBucket ==
  /\ worker.pc = "emptyBucket"
  /\ \/ /\ Owned.exists
        /\ s3' = [s3 EXCEPT ![inst.status.arn].objects = FALSE]
        /\ \/ GoTo("deleteEmptied") /\ UNCHANGED spent
           \/ MayFault /\ Fault /\ GoTo("nonRetryable")
     \/ /\ Owned.exists /\ Owned.objects /\ OutsiderMeanwhile
        /\ GoTo("deleteEmptied") /\ UNCHANGED s3
     \/ ~Owned.exists /\ GoTo("nonRetryable") /\ UNCHANGED <<s3, spent>>
     \/ MayFault /\ Fault /\ GoTo("nonRetryable") /\ UNCHANGED s3
  /\ UNCHANGED <<versions, wq, recorded, released, made>>

(* The second DeleteBucket: any error ends the reconcile, also a bucket    *)
(* that is gone or that was filled again.                                  *)
DeleteEmptied ==
  /\ worker.pc = "deleteEmptied"
  /\ \/ BucketIsDeleted
     \/ /\ ~Owned.exists \/ Owned.objects
        /\ GoTo("nonRetryable")
        /\ UNCHANGED <<s3, released, spent>>
     \/ MayFault /\ Fault /\ GoTo("nonRetryable") /\ UNCHANGED <<s3, released>>
  /\ UNCHANGED <<versions, wq, recorded, made>>

RemoveFinalizer ==
  /\ worker.pc = "removeFinalizer"
  /\ Update([inst EXCEPT !.finalizer = FALSE], "done", "requeue")
  /\ UNCHANGED <<s3, wq, released, made>>

(* A controller that only requeues when the result asks for it.            *)
RequeuedIfRetryable(outcome) == outcome \in {"requeue", "retryable"}

(* processNextWorkItem: every error is retried, RetryError.Retryable has   *)
(* no say in it.                                                           *)
Requeued(outcome) == outcome # "done"

(* handleRetryError and the end of processNextWorkItem.                    *)
FinishItem ==
  /\ worker.pc \in Outcomes
  /\ wq' = Done(IF Requeued(worker.pc) THEN AddRateLimited(wq, worker.key)
                ELSE wq, worker.key)
  /\ worker' = Idle
  /\ UNCHANGED <<versions, s3, recorded, released, spent, made>>

WorkerStep ==
  /\ \/ TakeKey \/ AddFinalizer \/ HeadBucket \/ CreateBucket \/ RecordCreated
     \/ GetBucketLocation \/ RecordAcquired \/ ConfigureTagsAndPolicy
     \/ PutBucketAcl \/ RecordAcl \/ ConfigureRest \/ DeleteBucket \/ EmptyBucket
     \/ DeleteEmptied \/ RemoveFinalizer \/ FinishItem
  /\ UNCHANGED informer

-----------------------------------------------------------------------------
(* The informer and the queue.                                             *)

Remembered(S) ==
  IF Len(S) <= MaxLag THEN S ELSE SubSeq(S, Len(S) + 1 - MaxLag, Len(S))

(* What a list may say of an object: the n-th of versions[k], or, when it  *)
(* comes from an API server that lags (a reflector lists with resource     *)
(* version "0"), the m-th before them.                                     *)
Listable(k, n, m) ==
  n \in 1..Len(versions[k]) /\ m \in 0..Len(past[k]) /\ (n = 1 \/ m = 0)

From(k, n) == SubSeq(versions[k], n, Len(versions[k]))
Before(k, n) == Remembered(past[k] \o SubSeq(versions[k], 1, n - 1))

(* The cache takes what it is told; nothing compares it with what the      *)
(* cache held before (HandleDeltas).                                       *)
CacheTakes(k, n, m) ==
  /\ versions' = [versions EXCEPT ![k] = From(k, n)]
  /\ past' = [past EXCEPT ![k] = Before(k, n)]
  /\ behind' = [behind EXCEPT ![k] = m]

(* One watch event, or several at once when the watch broke and the        *)
(* informer listed again: the cache moves on and the key is queued.        *)
Deliver(k) ==
  /\ \/ \E n \in 2..Len(versions[k]) : CacheTakes(k, n, 0)
     \/ \E m \in 0..behind[k] - 1 : CacheTakes(k, 1, m)
  /\ wq' = Add(wq, k)
  /\ UNCHANGED <<s3, worker, recorded, released, spent, made>>

(* The watch breaks, and the list says what the cache held some time ago.  *)
Relist(k) ==
  /\ MayFault /\ Fault
  /\ \E m \in behind[k] + 1..Len(past[k]) : CacheTakes(k, 1, m)
  /\ wq' = Add(wq, k)
  /\ UNCHANGED <<s3, worker, recorded, released, made>>

(* The periodic resync of the cache (sync-period).                         *)
Resync(k) ==
  /\ Cached(k).phase # "absent" /\ k \notin wq.dirty
  /\ wq' = Add(wq, k)
  /\ UNCHANGED <<versions, informer, s3, worker, recorded, released, spent, made>>

(* A rate limited key, or one of the initial list, reaches the queue.      *)
Enqueue(k) ==
  /\ k \in wq.pending
  /\ wq' = AddPending(wq, k)
  /\ UNCHANGED <<versions, informer, s3, worker, recorded, released, spent, made>>

-----------------------------------------------------------------------------
(* The environment.                                                        *)

UserActs == spent.user < MaxUser /\ spent' = [spent EXCEPT !.user = @ + 1]

UserCreate(k, spec) ==
  /\ Stored(k).phase = "absent" /\ UserActs
  /\ Store(k, [rv |-> Stored(k).rv + 1, phase |-> "live", finalizer |-> FALSE,
               spec |-> spec, status |-> NoStatus])
  /\ UNCHANGED <<s3, wq, worker, released, made>>

UserEdit(k, spec) ==
  /\ Stored(k).phase # "absent" /\ spec # Stored(k).spec /\ UserActs
  /\ Store(k, [Stored(k) EXCEPT !.rv = @ + 1, !.spec = spec])
  /\ UNCHANGED <<s3, wq, worker, released, made>>

UserDelete(k) ==
  /\ Stored(k).phase = "live" /\ UserActs
  /\ Store(k, [Stored(k) EXCEPT !.rv = @ + 1,
                 !.phase = IF Stored(k).finalizer THEN "terminating" ELSE "absent"])
  /\ released' = released \ {k}
  /\ UNCHANGED <<s3, wq, worker, made>>

OutsiderActs ==
  /\ OutsiderMeanwhile
  /\ UNCHANGED <<versions, wq, worker, recorded, released, made>>

OutsiderCreatesBucket(b) ==
  /\ ~s3[b].exists /\ OutsiderActs
  /\ \E spec \in Specs : s3' = [s3 EXCEPT ![b] = NewBucket(spec, Outsider)]

(* Also a bucket that had objects: they are removed before it.             *)
OutsiderDeletesBucket(b) ==
  /\ s3[b].exists /\ OutsiderActs
  /\ s3' = [s3 EXCEPT ![b] = NoBucket]

OutsiderChangesObjects(b) ==
  /\ s3[b].exists /\ OutsiderActs
  /\ s3' = [s3 EXCEPT ![b].objects = ~@]

(* The process dies and another one starts: it lists the objects anew, and *)
(* may find them older than its predecessor left them.                     *)
Crash ==
  /\ spent.crashes < MaxCrashes
  /\ spent' = [spent EXCEPT !.crashes = @ + 1]
  /\ \E n \in [Keys -> UNION {1..Len(versions[k]) : k \in Keys}],
        m \in [Keys -> 0..MaxLag] :
       /\ \A k \in Keys : Listable(k, n[k], m[k])
       /\ versions' = [k \in Keys |-> From(k, n[k])]
       /\ past' = [k \in Keys |-> Before(k, n[k])]
       /\ behind' = m
  /\ wq' = EmptyQueue({k \in Keys : Cached(k)'.phase # "absent"})
  /\ worker' = Idle
  /\ UNCHANGED <<s3, recorded, released, made>>

Others ==
  /\ \/ \E k \in Keys : \/ UserDelete(k)
                        \/ \E spec \in Specs : UserCreate(k, spec) \/ UserEdit(k, spec)
     \/ \E b \in Buckets : \/ OutsiderCreatesBucket(b) \/ OutsiderDeletesBucket(b)
                           \/ OutsiderChangesObjects(b)
  /\ UNCHANGED informer

Environment == Others \/ Crash

-----------------------------------------------------------------------------
Init ==
  /\ versions = [k \in Keys |-> <<NeverCreated>>]
  /\ past = [k \in Keys |-> << >>] /\ behind = [k \in Keys |-> 0]
  /\ s3 = [b \in Buckets |-> NoBucket]
  /\ wq = EmptyQueue({})
  /\ worker = Idle
  /\ made = {} /\ recorded = {} /\ released = {}
  /\ spent = [user |-> 0, outsider |-> 0, faults |-> 0, crashes |-> 0]

Next ==
  \/ WorkerStep
  \/ \E k \in Keys : Deliver(k) \/ Relist(k) \/ Resync(k) \/ Enqueue(k)
  \/ Environment

Spec == Init /\ [][Next]_vars

(* The worker's goroutine and the informer's run, and a timer fires. The   *)
(* environment owes nothing, and resync is not needed.                     *)
Fairness ==
  /\ WF_vars(WorkerStep)
  /\ \A k \in Keys : WF_vars(Deliver(k)) /\ WF_vars(Enqueue(k))

FairSpec == Spec /\ Fairness

-----------------------------------------------------------------------------
(* Properties.                                                             *)

(* Every variable has its type: an object keeps its fields, the cache      *)
(* holds some version of it, the worker is at a call of Reconcile.         *)
TypeOK ==
  /\ versions \in [Keys -> Seq(Versions) \ {<< >>}]
  /\ past \in [Keys -> Seq(Versions)]
  /\ behind \in [Keys -> 0..MaxLag]
  /\ \A k \in Keys : behind[k] <= Len(past[k]) /\ Len(past[k]) <= MaxLag
  /\ s3 \in [Buckets -> BucketStates]
  /\ wq \in WorkQueues(Keys)
  /\ worker \in Workers
  /\ made \subseteq Keys \X Buckets
  /\ recorded \subseteq Keys \X Buckets
  /\ released \subseteq Keys
  /\ spent \in Spending

(* Reconcile persists the finalizer before it touches S3: however far the  *)
(* cache lags behind the API server, while the worker provisions for an    *)
(* object the API server still has that object, under our finalizer, and a *)
(* bucket is not created for an object whose deletion nobody would handle. *)
(* Except from a cache that a stale list has turned back to a version the  *)
(* operator had gone beyond: that one may show an object that is gone.     *)
FinalizerGuardsProvisioning ==
  (worker.pc \in Provisioning /\ ~worker.rewound) =>
    Stored(worker.key).phase # "absent" /\ Stored(worker.key).finalizer

(* The calls that change a bucket, by the field that names the bucket.     *)
WritesToTarget == {"configure", "putAcl", "configureRest"}
WritesToOwned == {"deleteBucket", "emptyBucket", "deleteEmptied"}

(* Ownership comes first (reconcileInstance's check of Status.ARN): the    *)
(* worker configures, empties or deletes a bucket only when its ARN has    *)
(* been stored in the status of the object it works for, not merely set in *)
(* memory, and only the bucket that ARN names: a renamed object does not   *)
(* reach another bucket.                                                   *)
OnlyRecordedBucketsTouched ==
  /\ worker.pc \in WritesToTarget => <<worker.key, inst.spec.bucket>> \in recorded
  /\ worker.pc \in WritesToOwned => <<worker.key, inst.status.arn>> \in recorded

(* An ARN is stored only for a bucket the operator created for that object *)
(* or while the object, as stored at that moment, asks for Acquire: a      *)
(* strategy that changes during the reconcile is honoured, and a bucket    *)
(* that appears between two calls is not taken over.                       *)
AdoptionOnlyOnRequest ==
  [][\A k \in Keys, b \in Buckets :
       (<<k, b>> \in recorded' /\ <<k, b>> \notin recorded) =>
         \/ <<k, b>> \in made
         \/ Stored(k).spec.ownershipStrategy = "Acquire"]_vars

(* The ARN and the location an object has been given stay as long as it    *)
(* exists, across stale reads, renamed and re-created buckets and lost     *)
(* answers (validateInstance's BucketNameChanged and BucketRegionChanged). *)
RecordedPlaceIsFinal ==
  [][\A k \in Keys :
       LET old == Stored(k)
           new == versions'[k][Len(versions'[k])]
       IN  (old.phase # "absent" /\ new.phase # "absent") =>
             /\ old.status.arn \in {NONE, new.status.arn}
             /\ old.status.location \in {NONE, new.status.location}]_vars

(* An object under deletion disappears only if the strategy stored at that *)
(* moment is Skip, if it has no ARN, or if its bucket was deleted or found *)
(* missing since the deletion was requested: a strategy the user changes   *)
(* while the deletion runs is honoured (Reconcile, deleteBucket).          *)
DeletionHonoursStrategy ==
  [][\A k \in Keys :
       (/\ Stored(k).phase = "terminating"
        /\ versions'[k][Len(versions'[k])].phase = "absent") =>
          \/ Stored(k).spec.deleteStrategy = "Skip"
          \/ Stored(k).status.arn = NONE
          \/ k \in released]_vars

(* A deletion that is run again from a cache that lags never deletes the   *)
(* bucket of an object that was created anew under the same name and owns  *)
(* it: events come in order, so the cache cannot lag behind the reconcile  *)
(* that gave that object its ARN. A stale list breaks that order, and the  *)
(* worker that reads from a cache turned back by one may delete the bucket *)
(* of a live object.                                                       *)
LiveBucketNotDeleted ==
  [][\A b \in Buckets :
       (/\ s3[b].exists /\ ~s3'[b].exists
        /\ spent'.outsider = spent.outsider /\ ~worker.rewound) =>
       ~(/\ Stored(worker.key).phase = "live"
         /\ Stored(worker.key).status.arn = b)]_vars

(* Nothing is under way: no event, no queued or delayed key, no reconcile. *)
Quiet ==
  /\ worker.pc = "idle" /\ wq.queue = << >> /\ wq.pending = {}
  /\ \A k \in Keys : Len(versions[k]) = 1 /\ behind[k] = 0

(* No wake-up is lost between the watch, the queue and the retries: when   *)
(* nothing is under way, every object is gone or carries the finalizer,    *)
(* the ARN of the bucket it asks for and the ACL it asks for.              *)
QuietMeansSettled ==
  Quiet => \A k \in Keys :
    \/ Stored(k).phase = "absent"
    \/ /\ Stored(k).phase = "live" /\ Stored(k).finalizer
       /\ Stored(k).status.arn = Stored(k).spec.bucket
       /\ Stored(k).status.acl = Stored(k).spec.acl

(* A key waits in the queue once, and not while a reconcile of its object  *)
(* runs, however events, resyncs and retries meet: the queue never grows   *)
(* beyond the objects, and no wake-up is processed twice (workqueue's      *)
(* "stingy").                                                              *)
QueuedOnce == Stingy(wq)

(* A deletion is finished, however many calls failed before, unless the    *)
(* bucket has objects and nobody asked to delete them.                     *)
DeletionCompletes ==
  \A k \in Keys :
    Stored(k).phase = "terminating" ~>
      \/ Stored(k).phase # "terminating"
      \/ /\ Stored(k).spec.deleteStrategy = "Delete"
         /\ Stored(k).status.arn # NONE /\ s3[Stored(k).status.arn].objects

(* An object with a valid name ends up with the ARN of its bucket, unless  *)
(* it is deleted or renamed, finds a bucket it may not acquire, or asks    *)
(* for one in us-east-1 that nobody else has made.                         *)
ProvisioningCompletes ==
  \A k \in Keys :
    (Stored(k).phase = "live" /\ Stored(k).spec.bucket \notin InvalidBuckets) ~>
      \/ Stored(k).phase # "live"
      \/ Stored(k).spec.bucket \in InvalidBuckets
      \/ Stored(k).status.arn # NONE
      \/ /\ s3[Stored(k).spec.bucket].exists
         /\ \/ Stored(k).spec.ownershipStrategy = "Created"
            \/ ~Acquirable(Stored(k), s3[Stored(k).spec.bucket])
      \/ ~s3[Stored(k).spec.bucket].exists /\ Stored(k).spec.region = LegacyRegion

(* An object without its version, for the abstract specification.          *)
Visible(v) == [phase |-> v.phase, finalizer |-> v.finalizer,
               spec |-> v.spec, status |-> v.status]

Lifecycle == INSTANCE S3BucketLifecycle WITH
  objects <- [k \in Keys |-> Visible(Stored(k))],
  buckets <- {b \in Buckets : s3[b].exists},
  mistaken <- {k \in Keys : worker.key = k /\ worker.rewound}

(* Optimistic concurrency is enough: although the worker acts on an old    *)
(* object, kept in memory over many calls, whole-object Updates that the   *)
(* API server refuses when the object has changed write only what an       *)
(* operator would write that sees the object as it is at that moment. One  *)
(* that reads from a cache turned back by a stale list writes no object;   *)
(* only to S3 it does what the object asked for once.                      *)
ImplementsLifecycle == Lifecycle!Spec

-----------------------------------------------------------------------------
(* What the documentation says, and the code does not keep.                *)

(* README: bucket deletion is skipped when deleteStrategy is Skip. Then a  *)
(* bucket the operator created does not outlive its object unless the      *)
(* object's last strategy is Skip.                                         *)
CreatedBucketDeletedUnlessSkip ==
  \A k \in Keys, b \in Buckets :
    (/\ s3[b].exists /\ s3[b].creator = k
     /\ Stored(k).phase = "absent" /\ worker.key # k)
    => Stored(k).spec.deleteStrategy = "Skip"

(* s3bucket_types.go: the status is the observed state of the bucket. Then *)
(* the canned ACL in it is the bucket's once nothing is under way.         *)
StatusIsObservedAcl ==
  Quiet => \A k \in Keys :
    (/\ Stored(k).phase = "live" /\ Stored(k).status.arn # NONE
     /\ s3[Stored(k).status.arn].exists)
    => s3[Stored(k).status.arn].acl = Stored(k).status.acl

(* awserr.go: NonRetryableError creates an error that is not retryable.    *)
NonRetryableIsFinal ==
  [][(FinishItem /\ worker.pc = "nonRetryable") => wq'.pending = wq.pending]_vars
=============================================================================
