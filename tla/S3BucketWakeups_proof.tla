----------------------- MODULE S3BucketWakeups_proof -----------------------
(***************************************************************************)
(* Proofs about what the cache and the queue of S3BucketController may     *)
(* miss: a deletion seen late never hits the bucket of a newer object, and *)
(* no change of an object is left without a reconcile.                     *)
(***************************************************************************)
EXTENDS S3BucketRefinement_proof

-----------------------------------------------------------------------------
(* What is stored, by whom.                                                *)

(* A write that changes the object is a watch event under way.             *)
LEMMA StoreSequence ==
  ASSUME TypeCore, NEW k \in Keys, NEW v, Store(k, v)
  PROVE  /\ Stored(k)' = v
         /\ v # Stored(k) => Len(versions'[k]) > 1
         /\ \A j \in Keys \ {k} : versions'[j] = versions[j]
         /\ \A i \in 1..Len(versions'[k]) :
              versions'[k][i] = v \/ \E j \in 1..Len(versions[k]) : versions'[k][i] = versions[k][j]
<1> DEFINE S == versions[k]
<1>1. /\ S \in Seq(Versions) /\ Len(S) \in Nat \ {0}
      /\ Stored(k) = S[Len(S)] /\ DOMAIN versions = Keys
  BY VersionsType DEF LastOf, TypeCore
<1>2. /\ LastOf(versions'[k]) = v /\ Stored(k)' = LastOf(versions'[k])
      /\ \A j \in Keys \ {k} : versions'[j] = versions[j]
  BY StoredAfter DEF Stored, LastOf
<1>3. CASE v = Stored(k)
  <2>1. versions' = versions
    BY <1>3 DEF Store
  <2> QED BY <1>2, <1>3, <2>1
<1>4. CASE v # Stored(k)
  <2>1. versions'[k] = Append(S, v)
    BY <1>1, <1>4 DEF Store
  <2> HIDE DEF S
  <2>2. /\ Len(Append(S, v)) = Len(S) + 1
        /\ \A i \in 1..Len(S) : Append(S, v)[i] = S[i]
        /\ Append(S, v)[Len(S) + 1] = v
    BY <1>1
  <2> QED BY <1>1, <1>2, <2>1, <2>2 DEF S
<1> QED BY <1>3, <1>4

(* Users neither set finalizers nor statuses.                              *)
LEMMA UserWrites ==
  ASSUME IInv, NEW k \in Keys,
         \/ UserDelete(k)
         \/ \E spec \in Specs : UserCreate(k, spec) \/ UserEdit(k, spec)
  PROVE  /\ UNCHANGED <<s3, wq, worker>>
         /\ \E v : /\ Store(k, v) /\ v # Stored(k)
                   /\ v.phase = "live" =>
                        \/ ~v.finalizer /\ v.status.arn = NONE
                        \/ /\ Stored(k).phase = "live"
                           /\ v.finalizer = Stored(k).finalizer
                           /\ v.status = Stored(k).status
                   /\ v.phase = "terminating" =>
                        \/ v.finalizer
                        \/ Stored(k).phase = "terminating" /\ ~Stored(k).finalizer
<1>1. Stored(k) \in Versions /\ Stored(k).rv \in Nat /\ Stored(k).finalizer \in BOOLEAN
  <2>1. Stored(k) \in Versions
    BY VersionsType DEF IInv
  <2> QED BY <2>1 DEF Versions
<1>2. UNCHANGED <<s3, wq, worker>>
  BY DEF UserDelete, UserCreate, UserEdit
<1>3. CASE UserDelete(k)
  <2> DEFINE ph == IF Stored(k).finalizer THEN "terminating" ELSE "absent"
             v == [Stored(k) EXCEPT !.rv = Stored(k).rv + 1, !.phase = ph]
  <2>1. Store(k, v)
    BY <1>3 DEF UserDelete
  <2>2. /\ v.rv = Stored(k).rv + 1 /\ v.phase = ph
        /\ v.finalizer = Stored(k).finalizer
    BY <1>1 DEF Versions
  <2> HIDE DEF v
  <2>3. v # Stored(k)
    BY <1>1, <2>2
  <2> QED BY <1>1, <1>2, <2>1, <2>2, <2>3
<1>4. ASSUME NEW spec \in Specs, UserCreate(k, spec)
      PROVE  \E v : /\ Store(k, v) /\ v # Stored(k)
                    /\ v.phase = "live" /\ ~v.finalizer /\ v.status.arn = NONE
  <2> DEFINE v == [rv |-> Stored(k).rv + 1, phase |-> "live", finalizer |-> FALSE,
                   spec |-> spec, status |-> NoStatus]
  <2>1. Store(k, v)
    BY <1>4 DEF UserCreate
  <2>2. /\ v.rv = Stored(k).rv + 1 /\ v.phase = "live"
        /\ ~v.finalizer /\ v.status.arn = NONE
    BY DEF NoStatus
  <2> HIDE DEF v
  <2> QED BY <1>1, <2>1, <2>2
<1>5. ASSUME NEW spec \in Specs, UserEdit(k, spec)
      PROVE  \E v : /\ Store(k, v) /\ v # Stored(k)
                    /\ v.phase = Stored(k).phase
                    /\ v.finalizer = Stored(k).finalizer
                    /\ v.status = Stored(k).status
  <2> DEFINE v == [Stored(k) EXCEPT !.rv = Stored(k).rv + 1, !.spec = spec]
  <2>1. Store(k, v)
    BY <1>5 DEF UserEdit
  <2>2. /\ v.rv = Stored(k).rv + 1 /\ v.phase = Stored(k).phase
        /\ v.finalizer = Stored(k).finalizer /\ v.status = Stored(k).status
    BY <1>1 DEF Versions
  <2> HIDE DEF v
  <2> QED BY <1>1, <2>1, <2>2
<1>6. CASE \E spec \in Specs : UserCreate(k, spec)
  BY <1>2, <1>4, <1>6
<1>7. CASE \E spec \in Specs : UserEdit(k, spec)
  BY <1>1, <1>2, <1>5, <1>7
<1> QED BY <1>3, <1>6, <1>7

(* The fields of an instance that an accepted Update has stored.           *)
LEMMA PersistedFields ==
  ASSUME NEW k \in Keys, NEW v \in Versions
  PROVE  /\ Persisted(k, v).spec = v.spec /\ Persisted(k, v).status = v.status
         /\ Persisted(k, v).finalizer = v.finalizer
         /\ Persisted(k, v).phase = "live" <=> v.phase = "live"
         /\ Persisted(k, v).phase = "terminating" /\ ~v.finalizer =>
              v = Stored(k)
         /\ v = Stored(k) \/ Persisted(k, v).rv = v.rv + 1
  BY DEF Persisted, Versions

-----------------------------------------------------------------------------
(* The bucket of a live object is not deleted.                             *)

(* When the API server holds a live object under our finalizer, the cache  *)
(* shows no version of the object from before its creation any more: the   *)
(* finalizer was set by a reconcile that had read the object itself.       *)
LiveKept(S) == LiveGuarded(LastOf(S)) => \A i \in 1..Len(S) : S[i].phase = "live"

OwnerGuarded(v) == v.phase = "live" /\ v.status.arn # NONE => v.finalizer

CacheCaughtUp ==
  \A k \in Keys : LiveKept(versions[k]) /\ OwnerGuarded(Stored(k))

DeletesTheDead ==
  (worker.pc \in Deleting /\ ~worker.rewound) => ~LiveGuarded(Stored(worker.key))

LEMMA StoreCaughtUp ==
  ASSUME IInv, CacheCaughtUp, NEW k \in Keys, NEW v, Store(k, v),
         LiveGuarded(v) => \/ LiveGuarded(Stored(k))
                           \/ \A i \in 1..Len(versions[k]) : versions[k][i].phase = "live",
         OwnerGuarded(v)
  PROVE  CacheCaughtUp'
<1>1. /\ Stored(k)' = v /\ LastOf(versions'[k]) = v
      /\ \A j \in Keys \ {k} : versions'[j] = versions[j]
      /\ \A i \in 1..Len(versions'[k]) :
           versions'[k][i] = v \/ \E j \in 1..Len(versions[k]) : versions'[k][i] = versions[k][j]
  BY StoreSequence DEF IInv, Stored, LastOf
<1>2. LiveGuarded(v) => \A i \in 1..Len(versions[k]) : versions[k][i].phase = "live"
  BY DEF CacheCaughtUp, LiveKept, Stored, LastOf
<1>3. LiveKept(versions'[k])
  BY <1>1, <1>2 DEF LiveKept, LiveGuarded
<1>4. \A j \in Keys \ {k} : LiveKept(versions'[j]) /\ OwnerGuarded(Stored(j)')
  BY <1>1 DEF CacheCaughtUp, Stored
<1> QED BY <1>1, <1>3, <1>4 DEF CacheCaughtUp

(* When the stored version is the newest one the cache has held, none is   *)
(* under way.                                                              *)
LEMMA NothingUnderWay ==
  ASSUME IInv, NEW k \in Keys, Stored(k).rv <= versions[k][1].rv
  PROVE  Len(versions[k]) = 1 /\ versions[k][1] = Stored(k)
<1> DEFINE n == Len(versions[k])
<1>1. /\ n \in Nat \ {0} /\ Stored(k) = versions[k][n]
      /\ Stored(k).rv \in Nat /\ Increasing(versions[k])
      /\ versions[k][1].rv \in Nat
  BY VersionsType DEF IInv, VersionsInv, LastOf
<1>2. 1 < n => versions[k][1].rv < Stored(k).rv
  BY <1>1 DEF Increasing
<1> HIDE DEF n
<1>3. n = 1
  BY <1>1, <1>2
<1> QED BY <1>1, <1>3 DEF n

(* An Update of the worker's keeps the cache caught up.                    *)
LEMMA UpdateCaughtUp ==
  ASSUME IInv, CacheCaughtUp, worker.pc # "idle",
         NEW v \in Versions, v.rv = inst.rv, NEW next, NEW failed,
         Update(v, next, failed),
         v.phase = inst.phase,
         inst.phase = "live" => v.finalizer,
         \/ v.finalizer = inst.finalizer
         \/ v.phase # "live"
         \/ BehindCache(inst, versions[worker.key])
  PROVE  CacheCaughtUp'
<1> DEFINE k == worker.key
           p == Persisted(k, v)
<1>1. UNCHANGED <<versions, recorded>> \/ Written(k, v)
  BY UpdateWrites
<1>2. CASE UNCHANGED <<versions, recorded>>
  BY <1>2 DEF CacheCaughtUp, Stored
<1>3. CASE Written(k, v)
  <2>1. /\ k \in Keys /\ Store(k, p) /\ inst.rv = Stored(k).rv
        /\ Stored(k).phase = inst.phase /\ Stored(k).finalizer = inst.finalizer
    BY <1>3 DEF Written
  <2>2. p.finalizer = v.finalizer /\ (p.phase = "live" <=> v.phase = "live")
    BY <2>1, PersistedFields
  <2>3. OwnerGuarded(p)
    BY <2>2 DEF OwnerGuarded
  <2>4. ASSUME LiveGuarded(p)
        PROVE  \/ LiveGuarded(Stored(k))
               \/ \A i \in 1..Len(versions[k]) : versions[k][i].phase = "live"
    <3>1. CASE v.finalizer = inst.finalizer
      BY <2>1, <2>2, <2>4, <3>1 DEF LiveGuarded
    <3>2. CASE v.phase # "live"
      BY <2>2, <2>4, <3>2 DEF LiveGuarded
    <3>3. CASE BehindCache(inst, versions[k])
      <4>1. Stored(k).rv <= versions[k][1].rv
        BY <2>1, <3>3 DEF BehindCache
      <4>2. Len(versions[k]) = 1 /\ versions[k][1] = Stored(k)
        BY <2>1, <4>1, NothingUnderWay
      <4> QED BY <2>1, <2>2, <2>4, <4>2 DEF LiveGuarded
    <3> QED BY <3>1, <3>2, <3>3
  <2> HIDE DEF k, p
  <2> QED BY <2>1, <2>3, <2>4, StoreCaughtUp
<1> QED BY <1>1, <1>2, <1>3

LEMMA WorkerCaughtUp == IInv /\ CacheCaughtUp /\ WorkerStep => CacheCaughtUp'
<1> SUFFICES ASSUME IInv, CacheCaughtUp, WorkerStep PROVE CacheCaughtUp'
  OBVIOUS
<1>1. inst \in Versions
  BY AtCall
<1>2. CASE UNCHANGED versions
  BY <1>2 DEF CacheCaughtUp, Stored
<1>3. CASE AddFinalizer
  <2> DEFINE v == [inst EXCEPT !.finalizer = TRUE]
  <2>1. /\ worker.pc # "idle" /\ inst.phase = "live"
        /\ BehindCache(inst, versions[worker.key])
        /\ Update(v, AfterFinalizer(inst), "requeue")
    BY <1>3 DEF AddFinalizer, IInv, InstanceInv
  <2>2. v \in Versions /\ v.rv = inst.rv /\ v.phase = inst.phase /\ v.finalizer
    BY <1>1 DEF Versions
  <2> HIDE DEF v
  <2> QED BY <2>1, <2>2, UpdateCaughtUp
<1>4. CASE RecordCreated \/ RecordAcquired \/ RecordAcl
  <2>1. worker.pc # "idle" /\ worker.pc \in Provisioning
    BY <1>4 DEF RecordCreated, RecordAcquired, RecordAcl, Provisioning
  <2>2. inst.finalizer
    BY <2>1 DEF IInv, InstanceInv, LiveGuarded
  <2>3. PICK next, failed : Update(inst, next, failed)
    BY <1>4 DEF RecordCreated, RecordAcquired, RecordAcl
  <2> QED BY <1>1, <2>1, <2>2, <2>3, UpdateCaughtUp
<1>5. CASE RemoveFinalizer
  <2> DEFINE v == [inst EXCEPT !.finalizer = FALSE]
  <2>1. /\ worker.pc # "idle" /\ inst.phase = "terminating"
        /\ Update(v, "done", "requeue")
    BY <1>5 DEF RemoveFinalizer, Deleting, IInv, InstanceInv
  <2>2. v \in Versions /\ v.rv = inst.rv /\ v.phase = inst.phase
    BY <1>1 DEF Versions
  <2> HIDE DEF v
  <2> QED BY <2>1, <2>2, UpdateCaughtUp
<1> QED BY <1>2, <1>3, <1>4, <1>5
        DEF WorkerStep, TakeKey, HeadBucket, CreateBucket, GetBucketLocation,
            ConfigureTagsAndPolicy, PutBucketAcl, ConfigureRest, Configuring,
            DeleteBucket, EmptyBucket, DeleteEmptied, FinishItem

(* A cache that takes what it is told is told no more versions than there  *)
(* were, and the last of them still.                                       *)
LEMMA MovesCaughtUp ==
  ASSUME IInv, PastInv, CacheCaughtUp, CacheMoves
  PROVE  CacheCaughtUp'
<1>1. \A j \in Keys : OwnerGuarded(Stored(j)')
  BY MovesStored DEF CacheCaughtUp
<1>2. \A j \in Keys : LiveKept(versions'[j])
  <2> SUFFICES ASSUME NEW j \in Keys PROVE LiveKept(versions'[j])
    OBVIOUS
  <2>1. /\ LastOf(versions'[j]) = LastOf(versions[j])
        /\ \A i \in 1..Len(versions'[j]) :
             \E n \in 1..Len(versions[j]) : versions'[j][i] = versions[j][n]
    BY MovedVersions DEF IInv, CacheMoves
  <2> QED BY <2>1 DEF CacheCaughtUp, LiveKept
<1> QED BY <1>1, <1>2 DEF CacheCaughtUp

LEMMA NextCaughtUp ==
  IInv /\ PastInv /\ CacheCaughtUp /\ [Next]_vars => CacheCaughtUp'
<1> SUFFICES ASSUME IInv, PastInv, CacheCaughtUp, [Next]_vars PROVE CacheCaughtUp'
  OBVIOUS
<1>1. CASE WorkerStep
  BY <1>1, WorkerCaughtUp
<1>2. CASE UNCHANGED versions
  BY <1>2 DEF CacheCaughtUp, Stored
<1>3. CASE \E k \in Keys : Deliver(k) \/ Relist(k)
  BY <1>3, InformerMoves, MovesCaughtUp DEF IInv
<1>4. CASE \E k \in Keys : \/ UserDelete(k)
                           \/ \E spec \in Specs : UserCreate(k, spec) \/ UserEdit(k, spec)
  <2>0. PICK k \in Keys : \/ UserDelete(k)
                           \/ \E spec \in Specs : UserCreate(k, spec) \/ UserEdit(k, spec)
    BY <1>4
  <2>1. PICK v :
          /\ Store(k, v)
          /\ v.phase = "live" =>
               \/ ~v.finalizer /\ v.status.arn = NONE
               \/ /\ Stored(k).phase = "live"
                  /\ v.finalizer = Stored(k).finalizer
                  /\ v.status = Stored(k).status
    BY <2>0, UserWrites
  <2>2. LiveGuarded(v) => LiveGuarded(Stored(k))
    BY <2>1 DEF LiveGuarded
  <2>3. OwnerGuarded(v)
    BY <2>1 DEF OwnerGuarded, CacheCaughtUp
  <2> QED BY <2>1, <2>2, <2>3, StoreCaughtUp
<1>5. CASE Crash
  BY <1>5, CrashMoves, MovesCaughtUp
<1> QED BY <1>1, <1>2, <1>3, <1>4, <1>5
        DEF Next, Environment, Others, Resync, Enqueue, OutsiderCreatesBucket,
            OutsiderDeletesBucket, OutsiderChangesObjects, OutsiderActs, vars

LEMMA TakeKeyDead == IInv /\ PastInv /\ CacheCaughtUp /\ TakeKey => DeletesTheDead'
<1> SUFFICES ASSUME IInv, PastInv, CacheCaughtUp, TakeKey,
                    worker'.pc \in Deleting, ~worker'.rewound
             PROVE  ~LiveGuarded(LastOf(versions'[worker'.key]))
  BY DEF DeletesTheDead, Stored, LastOf
<1> DEFINE k == Head(wq.queue)
<1>1. k \in Keys
  <2>1. wq.queue \in Seq(Keys) /\ wq.queue # << >>
    BY DEF IInv, TypeCore, WorkQueues, TakeKey
  <2> QED BY <2>1
<1>2. /\ worker'.key = k /\ worker'.pc = StartReconcile(Cached(k))
      /\ versions' = versions /\ ~(behind[k] > 0)
  BY DEF TakeKey
<1> HIDE DEF k
<1>3. Cached(k) \in Versions /\ Cached(k) = versions[k][1] /\ Len(versions[k]) \in Nat \ {0}
  <2>1. behind[k] \in Nat
    BY <1>1 DEF PastInv, PastType
  <2>2. behind[k] = 0
    BY <1>2, <2>1
  <2> QED BY <1>1, <2>2, CachedVersion, VersionsType DEF IInv
<1>4. Cached(k).phase = "terminating"
  BY <1>2, <1>3, StartReconcileFits
<1>5. ~LiveGuarded(LastOf(versions[k]))
  BY <1>1, <1>3, <1>4 DEF CacheCaughtUp, LiveKept
<1> QED BY <1>2, <1>5

(* A deletion begins with TakeKey only.                                    *)
LEMMA DeletingFrom ==
  ASSUME IInv, WorkerStep, ~TakeKey, worker'.pc \in Deleting
  PROVE  /\ worker.pc \in Deleting /\ worker'.key = worker.key
         /\ worker'.rewound = worker.rewound
         /\ UNCHANGED versions
<1>1. worker \in Workers
  BY DEF IInv, TypeCore
<1>2. ASSUME NEW p, GoTo(p)
      PROVE  /\ worker'.pc = p /\ worker'.key = worker.key
             /\ worker'.rewound = worker.rewound
  BY <1>1, <1>2 DEF GoTo, Workers
<1>3. ASSUME NEW p, NEW s, worker' = [worker EXCEPT !.pc = p, !.inst.status = s]
      PROVE  worker'.pc = p
  BY <1>1, <1>3 DEF Workers
<1>4. CASE DeleteBucket \/ EmptyBucket \/ DeleteEmptied
  <2>1. \E p : GoTo(p)
    BY <1>4 DEF DeleteBucket, EmptyBucket, DeleteEmptied, BucketIsDeleted, AnswerLost
  <2> QED BY <1>2, <1>4, <2>1 DEF DeleteBucket, EmptyBucket, DeleteEmptied, Deleting
<1>5. ASSUME NEW v, NEW next, NEW failed, Update(v, next, failed)
      PROVE  worker'.pc \in {next, failed}
  BY <1>1, <1>2, <1>5 DEF Update, Workers
<1>6. ~(AddFinalizer \/ RecordCreated \/ RecordAcquired \/ RecordAcl \/ RemoveFinalizer)
  <2>1. AfterFinalizer(inst) \notin Deleting
    BY DEF AfterFinalizer, Deleting
  <2> QED BY <1>5, <2>1 DEF AddFinalizer, RecordCreated, RecordAcquired, RecordAcl,
                            RemoveFinalizer, Deleting
<1>7. ~(HeadBucket \/ ConfigureTagsAndPolicy \/ ConfigureRest)
  BY <1>2 DEF HeadBucket, ConfigureTagsAndPolicy, ConfigureRest, Configuring,
              AfterExists, AfterPolicy, Deleting
<1>8. ~(CreateBucket \/ GetBucketLocation \/ PutBucketAcl)
  <2>1. ~CreateBucket
    <3> SUFFICES ASSUME CreateBucket PROVE FALSE
      OBVIOUS
    <3>1. \/ worker' = [worker EXCEPT !.pc = "recordCreated",
                          !.inst.status = CreatedStatus(inst.spec)]
          \/ GoTo("createBucket") \/ GoTo("nonRetryable") \/ GoTo("retryable")
      BY DEF CreateBucket, AnswerLost
    <3>2. CASE worker' = [worker EXCEPT !.pc = "recordCreated",
                            !.inst.status = CreatedStatus(inst.spec)]
      BY <1>3, <3>2 DEF Deleting
    <3>3. CASE \E p \in {"createBucket", "nonRetryable", "retryable"} : GoTo(p)
      BY <1>2, <3>3 DEF Deleting
    <3> QED BY <3>1, <3>2, <3>3
  <2>2. ~GetBucketLocation
    <3> SUFFICES ASSUME GetBucketLocation PROVE FALSE
      OBVIOUS
    <3>1. \/ worker' = [worker EXCEPT !.pc = "recordAcquired",
                          !.inst.status = AcquiredStatus(inst, Target)]
          \/ GoTo("nonRetryable") \/ GoTo("retryable")
      BY DEF GetBucketLocation
    <3>2. CASE worker' = [worker EXCEPT !.pc = "recordAcquired",
                            !.inst.status = AcquiredStatus(inst, Target)]
      BY <1>3, <3>2 DEF Deleting
    <3>3. CASE \E p \in {"nonRetryable", "retryable"} : GoTo(p)
      BY <1>2, <3>3 DEF Deleting
    <3> QED BY <3>1, <3>2, <3>3
  <2>3. ASSUME worker' = [worker EXCEPT !.pc = "recordAcl", !.inst.status.acl = inst.spec.acl]
        PROVE  worker'.pc = "recordAcl"
    BY <1>1, <2>3 DEF Workers
  <2>4. ~PutBucketAcl
    BY <1>2, <2>3 DEF PutBucketAcl, AnswerLost, Deleting
  <2> QED BY <2>1, <2>2, <2>4
<1>9. ~FinishItem
  BY DEF FinishItem, Idle, Deleting
<1> QED BY <1>4, <1>6, <1>7, <1>8, <1>9 DEF WorkerStep

LEMMA NextDead ==
  IInv /\ PastInv /\ CacheCaughtUp /\ DeletesTheDead /\ [Next]_vars => DeletesTheDead'
<1> SUFFICES ASSUME IInv, PastInv, CacheCaughtUp, DeletesTheDead, [Next]_vars
             PROVE  DeletesTheDead'
  OBVIOUS
<1>1. CASE WorkerStep
  BY <1>1, TakeKeyDead, DeletingFrom DEF DeletesTheDead, Stored
<1>2. worker.pc \in Deleting => worker.key \in Keys
  BY AtCall
<1>3. ASSUME worker' = worker, \A k \in Keys : LiveGuarded(Stored(k)') => LiveGuarded(Stored(k))
      PROVE  DeletesTheDead'
  <2> SUFFICES ASSUME worker.pc \in Deleting, ~worker.rewound
               PROVE  ~LiveGuarded(LastOf(versions'[worker.key]))
    BY <1>3 DEF DeletesTheDead, Stored, LastOf
  <2>1. LiveGuarded(LastOf(versions'[worker.key])) => LiveGuarded(Stored(worker.key))
    BY <1>2, <1>3 DEF Stored, LastOf
  <2> QED BY <2>1 DEF DeletesTheDead
<1>4. CASE UNCHANGED <<worker, versions>>
  BY <1>3, <1>4 DEF Stored
<1>5. CASE \E k \in Keys : Deliver(k) \/ Relist(k)
  <2>1. CacheMoves
    BY <1>5, InformerMoves DEF IInv
  <2> QED BY <1>3, <1>5, <2>1, MovesStored DEF Deliver, Relist
<1>6. CASE \E k \in Keys : \/ UserDelete(k)
                           \/ \E spec \in Specs : UserCreate(k, spec) \/ UserEdit(k, spec)
  <2>0. PICK k \in Keys : \/ UserDelete(k)
                           \/ \E spec \in Specs : UserCreate(k, spec) \/ UserEdit(k, spec)
    BY <1>6
  <2>1. PICK v :
          /\ Store(k, v) /\ worker' = worker
          /\ v.phase = "live" =>
               \/ ~v.finalizer /\ v.status.arn = NONE
               \/ /\ Stored(k).phase = "live"
                  /\ v.finalizer = Stored(k).finalizer
                  /\ v.status = Stored(k).status
    BY <2>0, UserWrites
  <2>2. Stored(k)' = v /\ \A j \in Keys \ {k} : versions'[j] = versions[j]
    BY <2>1, StoreSequence DEF IInv
  <2>3. LiveGuarded(v) => LiveGuarded(Stored(k))
    BY <2>1 DEF LiveGuarded
  <2>4. \A j \in Keys : LiveGuarded(Stored(j)') => LiveGuarded(Stored(j))
    BY <2>2, <2>3 DEF Stored
  <2> QED BY <1>3, <2>1, <2>4
<1>7. CASE Crash
  BY <1>7 DEF Crash, Idle, DeletesTheDead, Deleting
<1> QED BY <1>1, <1>4, <1>5, <1>6, <1>7
        DEF Next, Environment, Others, Resync, Enqueue, OutsiderCreatesBucket,
            OutsiderDeletesBucket, OutsiderChangesObjects, OutsiderActs, vars

(* Without outsiders a bucket goes in the worker's deletions only, which   *)
(* delete the bucket of the instance's ARN.                                *)
LEMMA BucketGoes ==
  ASSUME IInv, [Next]_vars, NEW b \in Buckets, s3[b].exists, ~s3'[b].exists,
         spent'.outsider = spent.outsider
  PROVE  worker.pc \in Deleting
<1>1. s3 \in [Buckets -> BucketStates] /\ spent \in Spending /\ spent.outsider \in 0..MaxOutsider
  BY DEF IInv, TypeCore, Spending
<1>2. ~OutsiderActs
  BY <1>1, ConstantsAssumption
  DEF OutsiderActs, OutsiderMeanwhile, Spending, ConstantsAssumption
<1>3. ASSUME CreateBucket PROVE FALSE
  <2>1. PICK n : s3' = [s3 EXCEPT ![n] = NewBucket(inst.spec, worker.key)]
                 \/ s3' = s3
    BY <1>3 DEF CreateBucket
  <2> QED BY <1>1, <2>1 DEF NewBucket
<1>4. ASSUME PutBucketAcl PROVE FALSE
  <2>1. PICK n, x : s3' = [s3 EXCEPT ![n].acl = x] \/ s3' = s3
    BY <1>4 DEF PutBucketAcl
  <2> QED BY <1>1, <2>1 DEF BucketStates
<1>5. s3' # s3
  OBVIOUS
<1> QED
  BY <1>2, <1>3, <1>4, <1>5
  DEF Next, WorkerStep, TakeKey, AddFinalizer, HeadBucket, RecordCreated,
      GetBucketLocation, RecordAcquired, ConfigureTagsAndPolicy, ConfigureRest,
      Configuring, RecordAcl, DeleteBucket, EmptyBucket, DeleteEmptied,
      RemoveFinalizer, FinishItem, Deleting, Deliver, Relist, Resync, Enqueue,
      Environment, Others, UserDelete, UserCreate, UserEdit, OutsiderCreatesBucket,
      OutsiderDeletesBucket, OutsiderChangesObjects, Crash, vars

(* The cache has held the creation of every object the operator works for, *)
(* and no deletion is under way for one, unless it was read from a cache   *)
(* that had gone back.                                                     *)
THEOREM CaughtUpInvariance == Spec => [](CacheCaughtUp /\ DeletesTheDead)
<1>1. Init => CacheCaughtUp /\ DeletesTheDead
  <2> SUFFICES ASSUME Init PROVE CacheCaughtUp /\ DeletesTheDead
    OBVIOUS
  <2>1. ASSUME NEW k \in Keys
        PROVE  LiveKept(versions[k]) /\ OwnerGuarded(Stored(k))
    <3>1. versions[k] = <<NeverCreated>>
      BY DEF Init
    <3>2. NeverCreated.phase = "absent"
      BY DEF NeverCreated
    <3>3. Stored(k) = NeverCreated
      BY <3>1 DEF Stored
    <3> QED BY <3>1, <3>2, <3>3 DEF LiveKept, OwnerGuarded, LiveGuarded, LastOf, Stored
  <2> QED BY <2>1 DEF CacheCaughtUp, DeletesTheDead, Init, Idle, Deleting
<1>2. IInv /\ PastInv /\ CacheCaughtUp /\ DeletesTheDead /\ [Next]_vars
        => (CacheCaughtUp /\ DeletesTheDead)'
  BY NextCaughtUp, NextDead
<1> QED BY <1>1, <1>2, Invariance, PTL DEF Spec

(* However far the cache lags behind, the worker deletes no bucket of an   *)
(* object that is live and owns it, for every number of objects, versions  *)
(* under way, crashes, lost answers and lists of any age: as long as the   *)
(* cache had not gone back when the worker read the object from it.        *)
THEOREM LiveOwnersKeep == Spec => LiveBucketNotDeleted
<1> DEFINE A == \A b \in Buckets :
                  (/\ s3[b].exists /\ ~s3'[b].exists
                   /\ spent'.outsider = spent.outsider /\ ~worker.rewound) =>
                  ~(/\ Stored(worker.key).phase = "live"
                    /\ Stored(worker.key).status.arn = b)
<1>1. IInv /\ CacheCaughtUp /\ DeletesTheDead /\ [Next]_vars => A
  <2> SUFFICES ASSUME IInv, CacheCaughtUp, DeletesTheDead, [Next]_vars,
                      NEW b \in Buckets, s3[b].exists, ~s3'[b].exists,
                      spent'.outsider = spent.outsider, ~worker.rewound
               PROVE  ~(/\ Stored(worker.key).phase = "live"
                        /\ Stored(worker.key).status.arn = b)
    OBVIOUS
  <2>1. worker.pc \in Deleting /\ worker.key \in Keys
    BY BucketGoes, AtCall
  <2>2. b # NONE
    BY ConstantsAssumption DEF ConstantsAssumption
  <2> QED BY <2>1, <2>2 DEF CacheCaughtUp, OwnerGuarded, DeletesTheDead, LiveGuarded
<1>2. IInv /\ CacheCaughtUp /\ DeletesTheDead /\ [Next]_vars => [A]_vars
  BY <1>1
<1> QED BY <1>2, Invariance, CaughtUpInvariance, PTL DEF Spec, LiveBucketNotDeleted

-----------------------------------------------------------------------------
(* No wake-up is lost.                                                     *)

(* The object needs no reconcile.                                          *)
Settled(v) ==
  \/ v.phase = "absent"
  \/ /\ v.phase = "live" /\ v.finalizer
     /\ v.status.arn = v.spec.bucket /\ v.status.acl = v.spec.acl

(* An event about the object is under way, or has marked its key dirty.    *)
Noticed(k) == Len(versions[k]) > 1 \/ behind[k] > 0 \/ k \in wq.dirty

Held == IF worker.pc = "idle" THEN {} ELSE {worker.key}

(* A dirty key that no worker holds is in the queue.                       *)
QueueComplete(q) ==
  \A k \in q.dirty \ q.processing : \E i \in 1..Len(q.queue) : q.queue[i] = k

WakeupKept ==
  \A k \in Keys : Settled(Stored(k)) \/ Noticed(k) \/ k \in wq.pending \/ k \in Held

(* An instance that is not the stored object any more has been noticed, so *)
(* that a reconcile that ends well ends with a settled object, or is run   *)
(* again.                                                                  *)
StaleNoticed == \A k \in Held : inst.rv = Stored(k).rv \/ Noticed(k)
DoneSettled ==
  worker.pc = "done" => Settled(Stored(worker.key)) \/ Noticed(worker.key)
AclRecorded ==
  worker.pc \in {"recordAcl", "configureRest"} => inst.spec.acl = inst.status.acl

(* The finalizer holds an object that is being deleted.                    *)
FinalizerHolds ==
  \A k \in Keys : Stored(k).phase = "terminating" => Stored(k).finalizer

Wakeful ==
  /\ QueueComplete(wq) /\ wq.processing = Held
  /\ WakeupKept /\ StaleNoticed /\ DoneSettled /\ AclRecorded /\ FinalizerHolds

(* A step of someone else: what it changes of an object is noticed.        *)
LEMMA OthersWakeful ==
  ASSUME IInv, Wakeful, worker' = worker,
         \A k \in Keys :
           \/ Noticed(k)'
           \/ /\ Stored(k)' = Stored(k) /\ (Noticed(k) => Noticed(k)')
              /\ k \in wq.pending => k \in wq'.pending,
         QueueComplete(wq'), wq'.processing = wq.processing, FinalizerHolds'
  PROVE  Wakeful'
<1>1. Held' = Held /\ Held \subseteq Keys /\ inst' = inst
  BY AtCall DEF Held, inst
<1>2. WakeupKept'
  BY <1>1 DEF Wakeful, WakeupKept
<1>3. StaleNoticed'
  BY <1>1 DEF Wakeful, StaleNoticed
<1>4. DoneSettled'
  <2> SUFFICES ASSUME worker.pc = "done"
               PROVE  Settled(LastOf(versions'[worker.key])) \/ Noticed(worker.key)'
    BY DEF DoneSettled, Stored, LastOf, Noticed
  <2> DEFINE k == worker.key
  <2>1. k \in Keys
    BY AtCall
  <2>2. /\ Noticed(worker.key)' <=>
             (Len(versions'[k]) > 1 \/ behind'[k] > 0 \/ k \in wq'.dirty)
        /\ Settled(Stored(k)) \/ Noticed(k)
    BY DEF Noticed, Wakeful, DoneSettled
  <2>3. \A j \in Keys :
          \/ Len(versions'[j]) > 1 \/ behind'[j] > 0 \/ j \in wq'.dirty
          \/ /\ LastOf(versions'[j]) = Stored(j)
             /\ Noticed(j) => \/ Len(versions'[j]) > 1 \/ behind'[j] > 0
                              \/ j \in wq'.dirty
    BY DEF Noticed, Stored, LastOf
  <2> HIDE DEF k
  <2> QED BY <2>1, <2>2, <2>3 DEF k
<1>5. AclRecorded'
  BY <1>1 DEF Wakeful, AclRecorded
<1> QED BY <1>1, <1>2, <1>3, <1>4, <1>5 DEF Wakeful

(* A call that stores nothing.                                             *)
LEMMA CallWakeful ==
  ASSUME IInv, Wakeful, UNCHANGED <<versions, behind, wq>>,
         worker.pc # "idle", worker'.pc # "idle", worker'.key = worker.key,
         worker'.inst.rv = inst.rv,
         worker'.pc = "done" => Settled(Stored(worker.key)) \/ Noticed(worker.key),
         worker'.pc \in {"recordAcl", "configureRest"} =>
           worker'.inst.spec.acl = worker'.inst.status.acl
  PROVE  Wakeful'
<1>1. /\ Held' = Held
      /\ \A k \in Keys : Stored(k)' = Stored(k) /\ (Noticed(k)' <=> Noticed(k))
  BY DEF Held, Stored, Noticed
<1>2. Held \subseteq Keys
  BY AtCall DEF Held
<1>3. WakeupKept' /\ FinalizerHolds'
  BY <1>1 DEF Wakeful, WakeupKept, FinalizerHolds
<1>4. StaleNoticed'
  BY <1>1, <1>2 DEF Wakeful, StaleNoticed, inst
<1>5. DoneSettled'
  BY DEF DoneSettled, Stored, Noticed
<1>6. AclRecorded'
  BY DEF AclRecorded, inst
<1> QED BY <1>1, <1>3, <1>4, <1>5, <1>6 DEF Wakeful

(* A call that stores the instance or, for all the worker knows, does not. *)
LEMMA UpdateWakeful ==
  ASSUME IInv, Wakeful, worker.pc # "idle", UNCHANGED <<behind, wq>>,
         NEW v \in Versions, v.rv = inst.rv, NEW next, NEW failed,
         Update(v, next, failed), next # "idle",
         failed \in {"requeue", "nonRetryable"},
         next = "done" => v.finalizer # inst.finalizer,
         next \in {"recordAcl", "configureRest"} => v.spec.acl = v.status.acl
  PROVE  Wakeful'
<1>1. PICK k \in Keys : k = worker.key
  BY AtCall
<1> DEFINE p == Persisted(k, v)
<1>2. worker \in Workers /\ NotAhead(inst, versions[k])
  BY <1>1, AtCall DEF IInv, InstanceInv
<1>3. ASSUME GoTo(failed)
      PROVE  /\ worker'.pc = failed /\ worker'.key = k /\ worker'.inst = worker.inst
             /\ failed \notin {"idle", "done", "recordAcl", "configureRest"}
  BY <1>1, <1>3, WorkerFields
<1>4. CASE GoTo(failed) /\ UNCHANGED versions
  BY <1>1, <1>3, <1>4, CallWakeful DEF inst
<1>5. CASE /\ Accepts(k, v) /\ Store(k, p)
           /\ \/ GoTo(failed)
              \/ worker' = [worker EXCEPT !.pc = next, !.inst = p]
  <2>1. /\ Store(k, p) /\ inst.rv = Stored(k).rv
        /\ Stored(k).finalizer = inst.finalizer
    BY <1>2, <1>5 DEF Accepts, NotAhead, Stored, LastOf
  <2>2. /\ p.spec = v.spec /\ p.status = v.status
        /\ p.phase = "terminating" /\ ~p.finalizer => v = Stored(k)
        /\ p = Stored(k) => v = Stored(k)
        /\ v = Stored(k) => p = v
    <3>1. /\ p.spec = v.spec /\ p.status = v.status /\ p.finalizer = v.finalizer
          /\ p.phase = "terminating" /\ ~v.finalizer => v = Stored(k)
          /\ v = Stored(k) \/ p.rv = v.rv + 1
      BY PersistedFields
    <3>2. v.rv \in Nat /\ v.rv = Stored(k).rv
      BY <2>1 DEF Versions
    <3>3. v = Stored(k) => p = v
      BY DEF Persisted
    <3> HIDE DEF p
    <3> QED BY <3>1, <3>2, <3>3
  <2>3. /\ Stored(k)' = LastOf(versions'[k]) /\ LastOf(versions'[k]) = p
        /\ p # Stored(k) => Len(versions'[k]) > 1
        /\ \A j \in Keys \ {k} : versions'[j] = versions[j]
    <3> HIDE DEF p
    <3> QED BY <2>1, StoreSequence, StoredAfter DEF IInv, Stored, LastOf
  <2>4. /\ worker'.key = k /\ worker'.pc \in {next, failed} /\ worker'.pc # "idle"
        /\ \/ worker'.inst.rv = inst.rv /\ worker'.pc = failed
           \/ worker'.inst = p /\ worker'.pc = next
    BY <1>1, <1>2, <1>3, <1>5 DEF Workers, inst
  <2> HIDE DEF p
  <2>5. Held' = {k} /\ Held = {k}
    BY <1>1, <2>4 DEF Held
  <2>6. p = Stored(k) => UNCHANGED versions
    BY <2>1 DEF Store
  <2>7. FinalizerHolds'
    <3>1. p.phase = "terminating" => p.finalizer
      BY <2>2, <2>3 DEF Wakeful, FinalizerHolds
    <3>2. \A j \in Keys : Stored(j)' = IF j = k THEN p ELSE Stored(j)
      BY <2>3 DEF Stored, LastOf
    <3> QED BY <3>1, <3>2 DEF Wakeful, FinalizerHolds
  <2>8. WakeupKept'
    <3>1. \A j \in Keys \ {k} : Stored(j)' = Stored(j) /\ (Noticed(j)' <=> Noticed(j))
      BY <2>3 DEF Stored, Noticed
    <3> QED BY <2>5, <3>1 DEF Wakeful, WakeupKept
  <2>9. Noticed(k)' <=> Len(versions'[k]) > 1 \/ behind[k] > 0 \/ k \in wq.dirty
    BY DEF Noticed
  <2>10. StaleNoticed'
    <3>1. worker'.inst.rv = LastOf(versions'[k]).rv \/ Noticed(k)'
      BY <2>1, <2>3, <2>4, <2>9
    <3>2. inst'.rv = Stored(k)'.rv \/ Noticed(k)'
      BY <2>3, <3>1 DEF inst
    <3> QED BY <2>5, <3>2 DEF StaleNoticed
  <2>11. DoneSettled'
    <3>1. ASSUME worker'.pc = "done" PROVE Noticed(k)'
      <4>1. v # Stored(k)
        BY <2>1, <2>4, <3>1
      <4> QED BY <2>2, <2>3, <2>9, <4>1
    <3> QED BY <2>4, <2>9, <3>1 DEF DoneSettled, Noticed
  <2>12. AclRecorded'
    BY <2>2, <2>4 DEF AclRecorded, inst
  <2> QED BY <2>5, <2>7, <2>8, <2>10, <2>11, <2>12 DEF Wakeful
<1> QED BY <1>1, <1>4, <1>5 DEF Update

-----------------------------------------------------------------------------
(* The queue loses no dirty key.                                           *)

LEMMA AppendKeeps ==
  ASSUME NEW K, NEW S \in Seq(K), NEW k \in K
  PROVE  \A j : (j = k \/ \E i \in 1..Len(S) : S[i] = j) =>
                  \E i \in 1..Len(Append(S, k)) : Append(S, k)[i] = j
<1>1. /\ Len(S) \in Nat /\ Len(Append(S, k)) = Len(S) + 1
      /\ \A i \in 1..Len(S) : Append(S, k)[i] = S[i]
      /\ Append(S, k)[Len(S) + 1] = k
  OBVIOUS
<1>2. 1..Len(S) \subseteq 1..Len(S) + 1 /\ Len(S) + 1 \in 1..Len(S) + 1
  BY <1>1
<1> QED BY <1>1, <1>2

LEMMA AddComplete ==
  ASSUME NEW K, NEW q \in WorkQueues(K), NEW k \in K, QueueComplete(q)
  PROVE  /\ QueueComplete(Add(q, k))
         /\ Add(q, k).processing = q.processing /\ Add(q, k).pending = q.pending
         /\ k \in Add(q, k).dirty /\ q.dirty \subseteq Add(q, k).dirty
<1>1. CASE k \in q.dirty
  BY <1>1 DEF Add
<1>2. CASE k \notin q.dirty
  <2> DEFINE Q == IF k \in q.processing THEN q.queue ELSE Append(q.queue, k)
             r == Add(q, k)
  <2>1. /\ r.dirty = q.dirty \cup {k} /\ r.processing = q.processing
        /\ r.pending = q.pending /\ r.queue = Q
    BY <1>2 DEF Add, WorkQueues
  <2>2. q.queue \in Seq(K)
    BY DEF WorkQueues
  <2>3. \A j : (\E i \in 1..Len(q.queue) : q.queue[i] = j)
                 => \E i \in 1..Len(Q) : Q[i] = j
    BY <2>2, AppendKeeps
  <2>4. k \notin q.processing => \E i \in 1..Len(Q) : Q[i] = k
    <3>1. ASSUME k \notin q.processing PROVE Q = Append(q.queue, k)
      BY <3>1
    <3>2. \E i \in 1..Len(Append(q.queue, k)) : Append(q.queue, k)[i] = k
      BY <2>2, AppendKeeps
    <3> QED BY <3>1, <3>2
  <2> HIDE DEF Q, r
  <2>5. QueueComplete(r)
    BY <2>1, <2>3, <2>4 DEF QueueComplete
  <2> QED BY <2>1, <2>5 DEF r
<1> QED BY <1>1, <1>2

LEMMA GetComplete ==
  ASSUME NEW K, NEW q \in WorkQueues(K), QueueComplete(q), q.queue # << >>
  PROVE  /\ QueueComplete(Get(q))
         /\ Get(q).processing = q.processing \cup {Head(q.queue)}
         /\ Get(q).pending = q.pending
         /\ Get(q).dirty = q.dirty \ {Head(q.queue)}
<1> DEFINE S == q.queue
           k == Head(S)
           r == Get(q)
<1>1. /\ r.queue = Tail(S) /\ r.dirty = q.dirty \ {k}
      /\ r.processing = q.processing \cup {k} /\ r.pending = q.pending
  BY DEF Get, WorkQueues
<1>2. S \in Seq(K) /\ S # << >>
  BY DEF WorkQueues
<1> HIDE DEF S, r
<1>3. /\ Len(S) \in Nat /\ Len(Tail(S)) = Len(S) - 1 /\ k = S[1]
      /\ \A i \in 1..Len(Tail(S)) : Tail(S)[i] = S[i + 1]
  BY <1>2
<1>4. ASSUME NEW j \in r.dirty \ r.processing
      PROVE  \E i \in 1..Len(r.queue) : r.queue[i] = j
  <2>1. j \in q.dirty \ q.processing /\ j # k
    BY <1>1, <1>4
  <2>2. PICK i \in 1..Len(S) : S[i] = j
    BY <2>1 DEF QueueComplete, S
  <2>3. i # 1 /\ i - 1 \in 1..Len(Tail(S)) /\ (i - 1) + 1 = i
    BY <1>3, <2>1, <2>2
  <2>4. Tail(S)[i - 1] = S[i]
    BY <1>3, <2>3
  <2> QED BY <1>1, <2>2, <2>3, <2>4
<1> QED BY <1>1, <1>4 DEF QueueComplete, S, r

LEMMA DoneComplete ==
  ASSUME NEW K, NEW q \in WorkQueues(K), NEW k \in K, QueueComplete(q)
  PROVE  /\ QueueComplete(Done(q, k))
         /\ Done(q, k).processing = q.processing \ {k}
         /\ Done(q, k).pending = q.pending /\ Done(q, k).dirty = q.dirty
<1> DEFINE Q == IF k \in q.dirty THEN Append(q.queue, k) ELSE q.queue
           r == Done(q, k)
<1>1. /\ r.queue = Q /\ r.dirty = q.dirty
      /\ r.processing = q.processing \ {k} /\ r.pending = q.pending
  BY DEF Done, WorkQueues
<1>2. q.queue \in Seq(K)
  BY DEF WorkQueues
<1>3. \A j : (\E i \in 1..Len(q.queue) : q.queue[i] = j)
               => \E i \in 1..Len(Q) : Q[i] = j
  BY <1>2, AppendKeeps
<1>4. k \in q.dirty => \E i \in 1..Len(Q) : Q[i] = k
  <2>1. \E i \in 1..Len(Append(q.queue, k)) : Append(q.queue, k)[i] = k
    BY <1>2, AppendKeeps
  <2> QED BY <2>1
<1> HIDE DEF Q, r
<1>5. QueueComplete(r)
  BY <1>1, <1>3, <1>4 DEF QueueComplete
<1> QED BY <1>1, <1>5 DEF r

-----------------------------------------------------------------------------
(* The worker's steps.                                                     *)

(* A reconcile ends without a call for an object that is gone only, or on  *)
(* its way out.                                                            *)
LEMMA EndsAtOnce ==
  ASSUME NEW v \in Versions
  PROVE  /\ StartReconcile(v) \notin {"idle", "recordAcl", "configureRest"}
         /\ StartReconcile(v) = "done" =>
              /\ v.phase # "live"
              /\ v.phase = "terminating" => ~v.finalizer
<1>1. /\ v.phase \in {"absent", "live", "terminating"}
      /\ v.finalizer \in BOOLEAN
  BY DEF Versions
<1>2. /\ AfterFinalizer(v) \in {"headBucket", "nonRetryable"}
      /\ StartDeletion(v) \in {"removeFinalizer", "deleteBucket"}
  BY DEF AfterFinalizer, StartDeletion
<1>3. CASE v.phase = "live"
  <2>1. StartReconcile(v) \in {"addFinalizer", AfterFinalizer(v)}
    BY <1>1, <1>3 DEF StartReconcile
  <2> QED BY <2>1, <1>2
<1>4. CASE v.phase = "terminating" /\ v.finalizer
  <2>1. StartReconcile(v) = StartDeletion(v)
    BY <1>4 DEF StartReconcile
  <2> QED BY <2>1, <1>2
<1>5. CASE v.phase = "absent" \/ (v.phase = "terminating" /\ ~v.finalizer)
  <2>1. StartReconcile(v) = "done"
    BY <1>5 DEF StartReconcile
  <2> QED BY <2>1, <1>5
<1> QED BY <1>1, <1>3, <1>4, <1>5

LEMMA TakeKeyWakeful ==
  IInv /\ PastInv /\ Wakeful /\ TakeKey /\ UNCHANGED behind => Wakeful'
<1> SUFFICES ASSUME IInv, PastInv, Wakeful, TakeKey, UNCHANGED behind PROVE Wakeful'
  OBVIOUS
<1>1. wq \in WorkQueues(Keys) /\ wq.queue # << >> /\ Head(wq.queue) \in Keys
  <2>1. wq \in WorkQueues(Keys) /\ wq.queue # << >>
    BY DEF IInv, TypeCore, TakeKey
  <2>2. wq.queue \in Seq(Keys)
    BY <2>1 DEF WorkQueues
  <2> QED BY <2>1, <2>2
<1>2. PICK k \in Keys : k = Head(wq.queue)
  BY <1>1
<1>3. /\ worker' = [pc |-> StartReconcile(Cached(k)), key |-> k,
                    inst |-> Cached(k), rewound |-> behind[k] > 0]
      /\ wq' = Get(wq) /\ UNCHANGED versions /\ worker.pc = "idle"
  BY <1>2 DEF TakeKey
<1>4. /\ QueueComplete(wq') /\ wq'.processing = wq.processing \cup {k}
      /\ wq'.pending = wq.pending /\ wq'.dirty = wq.dirty \ {k}
  BY <1>1, <1>2, <1>3, GetComplete DEF Wakeful
<1>5. Cached(k) \in Versions /\ (\/ Len(versions[k]) > 1 \/ behind[k] > 0
                                   \/ Cached(k) = Stored(k))
  <2> DEFINE n == Len(versions[k])
  <2>1. /\ Cached(k) \in Versions /\ n \in Nat \ {0} /\ behind[k] \in Nat
        /\ behind[k] = 0 => Cached(k) = versions[k][1]
        /\ Stored(k) = versions[k][n]
    BY CachedVersion, VersionsType DEF IInv, PastInv, PastType, LastOf
  <2> HIDE DEF n
  <2>2. n > 1 \/ n = 1
    BY <2>1
  <2>3. behind[k] > 0 \/ behind[k] = 0
    BY <2>1
  <2> QED BY <2>1, <2>2, <2>3 DEF n
<1> DEFINE p == StartReconcile(Cached(k))
<1>6. /\ p \notin {"idle", "recordAcl", "configureRest"}
      /\ p = "done" => /\ Cached(k).phase # "live"
                       /\ Cached(k).phase = "terminating" => ~Cached(k).finalizer
  BY <1>5, EndsAtOnce
<1> HIDE DEF p
<1>7. worker'.pc = p /\ worker'.key = k /\ worker'.inst = Cached(k)
  BY <1>3 DEF p
<1>8. Held = {} /\ Held' = {k} /\ wq'.processing = Held'
  BY <1>3, <1>4, <1>6, <1>7 DEF Held, Wakeful
<1>9. \A j \in Keys : Stored(j)' = Stored(j) /\ (j # k /\ Noticed(j) => Noticed(j)')
  BY <1>3, <1>4 DEF Stored, Noticed
<1>10. WakeupKept' /\ FinalizerHolds'
  BY <1>4, <1>8, <1>9 DEF Wakeful, WakeupKept, FinalizerHolds
<1>11. Noticed(k)' <=> Len(versions[k]) > 1 \/ behind[k] > 0 \/ k \in wq'.dirty
  BY <1>3 DEF Noticed
<1>12. StaleNoticed'
  <2>1. inst' = Cached(k)
    BY <1>7 DEF inst
  <2>2. inst'.rv = Stored(k)'.rv \/ Noticed(k)'
    BY <1>5, <1>9, <1>11, <2>1
  <2> QED BY <1>8, <2>2 DEF StaleNoticed
<1>13. DoneSettled'
  <2> SUFFICES ASSUME p = "done", ~(Len(versions[k]) > 1), ~(behind[k] > 0)
               PROVE  Settled(LastOf(versions[k]))
    BY <1>3, <1>7 DEF DoneSettled, Noticed, Stored, LastOf
  <2>1. Cached(k) = Stored(k) /\ Stored(k) = LastOf(versions[k])
    BY <1>5 DEF Stored, LastOf
  <2>2. Stored(k).phase # "live" /\ Stored(k).phase # "terminating"
    BY <1>6, <2>1 DEF Wakeful, FinalizerHolds
  <2> QED BY <1>5, <2>1, <2>2 DEF Settled, Versions
<1>14. AclRecorded'
  BY <1>6, <1>7 DEF AclRecorded
<1> QED BY <1>4, <1>8, <1>10, <1>12, <1>13, <1>14 DEF Wakeful

LEMMA FinishItemWakeful ==
  IInv /\ Wakeful /\ FinishItem /\ UNCHANGED behind => Wakeful'
<1> SUFFICES ASSUME IInv, Wakeful, FinishItem, UNCHANGED behind PROVE Wakeful'
  OBVIOUS
<1>1. worker.pc # "idle" /\ worker.pc \in Outcomes /\ UNCHANGED versions
      /\ worker' = Idle
  BY DEF FinishItem, Outcomes
<1>2. PICK k \in Keys : k = worker.key
  BY <1>1, AtCall
<1> DEFINE q == IF Requeued(worker.pc) THEN AddRateLimited(wq, k) ELSE wq
<1>3. wq' = Done(q, k)
  BY <1>2 DEF FinishItem
<1>4. /\ q \in WorkQueues(Keys) /\ QueueComplete(q)
      /\ q.processing = wq.processing /\ q.dirty = wq.dirty
      /\ wq.pending \subseteq q.pending
      /\ worker.pc # "done" => k \in q.pending
  <2>1. wq \in WorkQueues(Keys)
    BY DEF IInv, TypeCore
  <2>2. AddRateLimited(wq, k) \in WorkQueues(Keys)
    BY <2>1, QueueTypes
  <2>3. LET r == AddRateLimited(wq, k)
        IN  /\ r.processing = wq.processing /\ r.dirty = wq.dirty
            /\ r.queue = wq.queue /\ r.pending = wq.pending \cup {k}
    BY <2>1 DEF AddRateLimited, WorkQueues
  <2> QED BY <2>1, <2>2, <2>3 DEF Requeued, QueueComplete, Wakeful
<1> HIDE DEF q
<1>5. /\ QueueComplete(wq') /\ wq'.processing = wq.processing \ {k}
      /\ wq'.dirty = wq.dirty /\ wq.pending \subseteq wq'.pending
      /\ worker.pc # "done" => k \in wq'.pending
  BY <1>3, <1>4, DoneComplete
<1>6. Held = {k} /\ Held' = {} /\ wq'.processing = {} /\ worker'.pc = "idle"
  BY <1>1, <1>2, <1>5 DEF Held, Wakeful, Idle
<1>7. \A j \in Keys : Stored(j)' = Stored(j) /\ (Noticed(j)' <=> Noticed(j))
  BY <1>1, <1>5 DEF Stored, Noticed
<1>8. WakeupKept'
  <2>1. worker.pc = "done" => Settled(Stored(k)) \/ Noticed(k)
    BY <1>2 DEF Wakeful, DoneSettled
  <2> QED BY <1>5, <1>6, <1>7, <2>1 DEF Wakeful, WakeupKept
<1>9. StaleNoticed' /\ DoneSettled' /\ AclRecorded' /\ FinalizerHolds'
  BY <1>6, <1>7 DEF StaleNoticed, DoneSettled, AclRecorded, Wakeful, FinalizerHolds
<1> QED BY <1>5, <1>6, <1>8, <1>9 DEF Wakeful

LEMMA GoToWakeful ==
  ASSUME IInv, Wakeful, UNCHANGED <<versions, behind, wq>>, worker.pc # "idle",
         NEW p, GoTo(p), p \notin {"idle", "recordAcl"},
         p = "done" => Settled(Stored(worker.key)) \/ Noticed(worker.key),
         p = "configureRest" => inst.spec.acl = inst.status.acl
  PROVE  Wakeful'
<1>1. worker'.pc = p /\ worker'.key = worker.key /\ worker'.inst = worker.inst
  BY WorkerFields
<1> QED BY <1>1, CallWakeful DEF inst

LEMMA StatusWakeful ==
  ASSUME IInv, Wakeful, UNCHANGED <<versions, behind, wq>>, worker.pc # "idle",
         NEW p, p \notin {"idle", "done", "configureRest"}, NEW s,
         worker' = [worker EXCEPT !.pc = p, !.inst.status = s],
         p = "recordAcl" => inst.spec.acl = s.acl
  PROVE  Wakeful'
<1>1. /\ worker'.pc = p /\ worker'.key = worker.key
      /\ worker'.inst.rv = inst.rv /\ worker'.inst.spec = inst.spec
      /\ worker'.inst.status = s
  BY StatusFields
<1> QED BY <1>1, CallWakeful DEF inst

LEMMA ProvisioningWakeful ==
  IInv /\ Wakeful /\ (HeadBucket \/ CreateBucket \/ GetBucketLocation)
    /\ UNCHANGED behind => Wakeful'
<1> SUFFICES ASSUME IInv, Wakeful, UNCHANGED behind, HeadBucket \/ CreateBucket \/ GetBucketLocation
             PROVE  Wakeful'
  OBVIOUS
<1>1. worker.pc # "idle" /\ UNCHANGED <<versions, behind, wq>>
  BY DEF HeadBucket, CreateBucket, GetBucketLocation
<1>2. AfterExists(inst) \in {"configure", "getLocation", "nonRetryable"}
  BY DEF AfterExists
<1>3. \/ \E p \in {"configure", "getLocation", "createBucket", "nonRetryable",
                   "retryable"} : GoTo(p)
      \/ \E p \in {"recordCreated", "recordAcquired"} : \E s :
           worker' = [worker EXCEPT !.pc = p, !.inst.status = s]
  <2>1. CASE HeadBucket
    BY <1>2, <2>1 DEF HeadBucket
  <2>2. CASE CreateBucket
    BY <2>2 DEF CreateBucket, AnswerLost
  <2>3. CASE GetBucketLocation
    BY <2>3 DEF GetBucketLocation
  <2> QED BY <2>1, <2>2, <2>3
<1>4. CASE \E p \in {"configure", "getLocation", "createBucket", "nonRetryable",
                     "retryable"} : GoTo(p)
  BY <1>1, <1>4, GoToWakeful
<1>5. CASE \E p \in {"recordCreated", "recordAcquired"} : \E s :
             worker' = [worker EXCEPT !.pc = p, !.inst.status = s]
  BY <1>1, <1>5, StatusWakeful
<1> QED BY <1>3, <1>4, <1>5

LEMMA PutBucketAclWakeful ==
  IInv /\ Wakeful /\ PutBucketAcl /\ UNCHANGED behind => Wakeful'
<1> SUFFICES ASSUME IInv, Wakeful, PutBucketAcl, UNCHANGED behind PROVE Wakeful'
  OBVIOUS
<1>1. worker.pc # "idle" /\ worker.pc = "putAcl" /\ UNCHANGED <<versions, behind, wq>>
  BY DEF PutBucketAcl
<1>2. CASE worker' = [worker EXCEPT !.pc = "recordAcl", !.inst.status.acl = inst.spec.acl]
  <2> DEFINE s == [inst.status EXCEPT !.acl = inst.spec.acl]
  <2>1. worker' = [worker EXCEPT !.pc = "recordAcl", !.inst.status = s]
    BY <1>2 DEF inst
  <2>2. s.acl = inst.spec.acl
    BY AtCall DEF Statuses
  <2> HIDE DEF s
  <2> QED BY <1>1, <2>1, <2>2, StatusWakeful
<1>3. CASE \E p \in {"putAcl", "nonRetryable", "retryable"} : GoTo(p)
  BY <1>1, <1>3, GoToWakeful
<1> QED BY <1>1, <1>2, <1>3 DEF PutBucketAcl, AnswerLost

LEMMA DeletingWakeful ==
  IInv /\ Wakeful /\ (DeleteBucket \/ EmptyBucket \/ DeleteEmptied)
    /\ UNCHANGED behind => Wakeful'
<1> SUFFICES ASSUME IInv, Wakeful, UNCHANGED behind, DeleteBucket \/ EmptyBucket \/ DeleteEmptied
             PROVE  Wakeful'
  OBVIOUS
<1>1. worker.pc # "idle" /\ UNCHANGED <<versions, behind, wq>>
  BY DEF DeleteBucket, EmptyBucket, DeleteEmptied
<1>2. \E p \in {"deleteBucket", "emptyBucket", "deleteEmptied", "removeFinalizer",
                "nonRetryable"} : GoTo(p)
  BY DEF DeleteBucket, EmptyBucket, DeleteEmptied, BucketIsDeleted, AnswerLost
<1> QED BY <1>1, <1>2, GoToWakeful

LEMMA ConfigureWakeful ==
  IInv /\ Ownership /\ Sync /\ Wakeful
    /\ (ConfigureTagsAndPolicy \/ ConfigureRest) /\ UNCHANGED behind => Wakeful'
<1> SUFFICES ASSUME IInv, Ownership, Sync, Wakeful, UNCHANGED behind,
                    ConfigureTagsAndPolicy \/ ConfigureRest
             PROVE  Wakeful'
  OBVIOUS
<1>1. worker.pc # "idle" /\ UNCHANGED <<versions, behind, wq>>
  BY DEF ConfigureTagsAndPolicy, ConfigureRest, Configuring
<1>2. CASE \E p \in {"nonRetryable", "retryable"} : GoTo(p)
  BY <1>1, <1>2, GoToWakeful
<1>3. CASE GoTo(AfterPolicy(inst))
  <2>1. /\ AfterPolicy(inst) \in {"putAcl", "configureRest"}
        /\ AfterPolicy(inst) = "configureRest" => inst.spec.acl = inst.status.acl
    BY DEF AfterPolicy
  <2> QED BY <1>1, <1>3, <2>1, GoToWakeful
<1>4. CASE worker.pc = "configureRest" /\ GoTo("done")
  <2>1. PICK k \in Keys : k = worker.key
    BY <1>1, AtCall
  <2>2. inst.rv = Stored(k).rv \/ Noticed(k)
    BY <1>1, <2>1 DEF Wakeful, StaleNoticed, Held
  <2>3. ASSUME inst.rv = Stored(k).rv
        PROVE  Settled(Stored(k))
    <3>1. inst.spec = Stored(k).spec /\ inst.status = Stored(k).status
      BY <1>4, <2>1, <2>3 DEF Sync, Agrees, Reading, Recording, Provisioning, inst
    <3>2. NotAhead(inst, versions[k]) /\ LiveGuarded(inst)
      BY <1>4, <2>1 DEF IInv, InstanceInv, Provisioning
    <3>3. Stored(k).phase = "live" /\ Stored(k).finalizer
      BY <2>3, <3>2 DEF NotAhead, LiveGuarded, Stored, LastOf
    <3>4. inst.status.arn = inst.spec.bucket
      BY <1>4 DEF Ownership, CallInv, Placed, WritesToTarget, inst
    <3>5. inst.spec.acl = inst.status.acl
      BY <1>4 DEF Wakeful, AclRecorded
    <3> QED BY <3>1, <3>3, <3>4, <3>5 DEF Settled
  <2> QED BY <1>1, <1>4, <2>1, <2>2, <2>3, GoToWakeful
<1> QED BY <1>2, <1>3, <1>4 DEF ConfigureTagsAndPolicy, ConfigureRest, Configuring

LEMMA UpdatesWakeful ==
  IInv /\ Wakeful /\ (AddFinalizer \/ RecordCreated \/ RecordAcquired \/ RecordAcl
                        \/ RemoveFinalizer) /\ UNCHANGED behind => Wakeful'
<1> SUFFICES ASSUME IInv, Wakeful, UNCHANGED behind,
                    AddFinalizer \/ RecordCreated \/ RecordAcquired
                                     \/ RecordAcl \/ RemoveFinalizer
             PROVE  Wakeful'
  OBVIOUS
<1>1. worker.pc # "idle" /\ UNCHANGED <<behind, wq>> /\ inst \in Versions
  BY AtCall DEF AddFinalizer, RecordCreated, RecordAcquired, RecordAcl, RemoveFinalizer
<1>2. CASE AddFinalizer
  <2> DEFINE v == [inst EXCEPT !.finalizer = TRUE]
  <2>1. Update(v, AfterFinalizer(inst), "requeue")
    BY <1>2 DEF AddFinalizer
  <2>2. v \in Versions /\ v.rv = inst.rv
    BY <1>1 DEF Versions
  <2> HIDE DEF v
  <2>3. AfterFinalizer(inst) \in {"headBucket", "nonRetryable"}
    BY DEF AfterFinalizer
  <2> QED BY <1>1, <2>1, <2>2, <2>3, UpdateWakeful
<1>3. CASE RecordCreated \/ RecordAcquired
  <2>1. Update(inst, "configure", "nonRetryable")
    BY <1>3 DEF RecordCreated, RecordAcquired
  <2> QED BY <1>1, <2>1, UpdateWakeful
<1>4. CASE RecordAcl
  <2>1. Update(inst, "configureRest", "nonRetryable") /\ inst.spec.acl = inst.status.acl
    BY <1>4 DEF RecordAcl, Wakeful, AclRecorded
  <2> QED BY <1>1, <2>1, UpdateWakeful
<1>5. CASE RemoveFinalizer
  <2> DEFINE v == [inst EXCEPT !.finalizer = FALSE]
  <2>1. Update(v, "done", "requeue") /\ inst.finalizer
    BY <1>5 DEF RemoveFinalizer, IInv, InstanceInv, Deleting
  <2>2. v \in Versions /\ v.rv = inst.rv /\ ~v.finalizer
    BY <1>1 DEF Versions
  <2> HIDE DEF v
  <2>3. v.finalizer # inst.finalizer
    BY <2>1, <2>2
  <2> QED BY <1>1, <2>1, <2>2, <2>3, UpdateWakeful
<1> QED BY <1>2, <1>3, <1>4, <1>5

LEMMA WorkerStepWakeful ==
  IInv /\ PastInv /\ Ownership /\ Sync /\ Wakeful /\ WorkerStep => Wakeful'
  BY TakeKeyWakeful, FinishItemWakeful, UpdatesWakeful, ProvisioningWakeful,
     ConfigureWakeful, PutBucketAclWakeful, DeletingWakeful
  DEF WorkerStep, informer

-----------------------------------------------------------------------------
(* The informer and the environment.                                       *)

LEMMA InformerWakeful ==
  ASSUME IInv, PastInv, Wakeful, NEW k \in Keys,
         Deliver(k) \/ Relist(k) \/ Resync(k) \/ Enqueue(k)
  PROVE  Wakeful'
<1>1. /\ worker' = worker /\ \A j \in Keys : Stored(j)' = Stored(j)
      /\ \A j \in Keys \ {k} :
           versions'[j] = versions[j] /\ behind'[j] = behind[j]
  <2>1. CASE Deliver(k) \/ Relist(k)
    <3>1. CacheMoves
      BY <2>1, InformerMoves DEF IInv
    <3>2. worker' = worker /\ \E n, m : CacheTakes(k, n, m)
      BY <2>1 DEF Deliver, Relist
    <3>3. \A j \in Keys \ {k} : versions'[j] = versions[j] /\ behind'[j] = behind[j]
      BY <3>2 DEF CacheTakes, IInv, TypeCore, PastInv, PastType
    <3> QED BY <3>1, <3>2, <3>3, MovesStored
  <2>2. CASE UNCHANGED <<versions, behind, worker>>
    BY <2>2 DEF Stored
  <2> QED BY <2>1, <2>2 DEF Resync, Enqueue, informer
<1>2. PICK q \in WorkQueues(Keys) :
        /\ wq' = Add(q, k) /\ QueueComplete(q)
        /\ q.dirty = wq.dirty /\ q.processing = wq.processing
        /\ wq.pending \ {k} \subseteq q.pending
  <2>1. wq \in WorkQueues(Keys) /\ QueueComplete(wq)
    BY DEF IInv, TypeCore, Wakeful
  <2>2. CASE wq' = Add(wq, k)
    BY <2>1, <2>2
  <2>3. CASE wq' = AddPending(wq, k)
    <3> DEFINE q == [wq EXCEPT !.pending = wq.pending \ {k}]
    <3>1. wq' = Add(q, k)
      BY <2>3 DEF AddPending
    <3>2. /\ q \in WorkQueues(Keys) /\ q.dirty = wq.dirty /\ q.queue = wq.queue
          /\ q.processing = wq.processing /\ q.pending = wq.pending \ {k}
      BY <2>1 DEF WorkQueues
    <3> HIDE DEF q
    <3>3. QueueComplete(q)
      BY <2>1, <3>2 DEF QueueComplete
    <3> QED BY <3>1, <3>2, <3>3
  <2> QED BY <2>2, <2>3 DEF Deliver, Relist, Resync, Enqueue
<1>3. /\ QueueComplete(wq') /\ wq'.processing = wq.processing
      /\ k \in wq'.dirty /\ wq.dirty \subseteq wq'.dirty
      /\ wq.pending \ {k} \subseteq wq'.pending
  BY <1>2, AddComplete
<1>4. FinalizerHolds'
  BY <1>1 DEF Wakeful, FinalizerHolds
<1>5. \A j \in Keys :
        \/ Noticed(j)'
        \/ /\ Stored(j)' = Stored(j) /\ (Noticed(j) => Noticed(j)')
           /\ j \in wq.pending => j \in wq'.pending
  BY <1>1, <1>3 DEF Noticed
<1> QED BY <1>1, <1>3, <1>4, <1>5, OthersWakeful

LEMMA UserWakeful ==
  ASSUME IInv, Wakeful, NEW k \in Keys,
         \/ UserDelete(k)
         \/ \E spec \in Specs : UserCreate(k, spec) \/ UserEdit(k, spec),
         UNCHANGED behind
  PROVE  Wakeful'
<1>1. PICK v : /\ Store(k, v) /\ v # Stored(k) /\ UNCHANGED <<wq, worker>>
               /\ v.phase = "terminating" =>
                    \/ v.finalizer
                    \/ Stored(k).phase = "terminating" /\ ~Stored(k).finalizer
  BY UserWrites
<1>2. /\ Stored(k)' = v /\ Len(versions'[k]) > 1
      /\ \A j \in Keys \ {k} : versions'[j] = versions[j]
  BY <1>1, StoreSequence DEF IInv
<1>3. FinalizerHolds'
  <2>1. v.phase = "terminating" => v.finalizer
    BY <1>1 DEF Wakeful, FinalizerHolds
  <2>2. \A j \in Keys : Stored(j)' = IF j = k THEN v ELSE Stored(j)
    BY <1>2 DEF Stored
  <2> QED BY <2>1, <2>2 DEF Wakeful, FinalizerHolds
<1>4. \A j \in Keys :
        \/ Noticed(j)'
        \/ /\ Stored(j)' = Stored(j) /\ (Noticed(j) => Noticed(j)')
           /\ j \in wq.pending => j \in wq'.pending
  BY <1>1, <1>2 DEF Noticed, Stored
<1> QED BY <1>1, <1>3, <1>4, OthersWakeful DEF Wakeful

LEMMA CrashWakeful == IInv /\ PastInv /\ Wakeful /\ Crash => Wakeful'
<1> SUFFICES ASSUME IInv, PastInv, Wakeful, Crash PROVE Wakeful'
  OBVIOUS
<1>1. \A j \in Keys : Stored(j)' = Stored(j)
  BY CrashMoves, MovesStored
<1>2. /\ worker'.pc = "idle" /\ wq'.dirty = {} /\ wq'.processing = {}
      /\ wq'.pending = {j \in Keys : Cached(j)'.phase # "absent"}
  BY DEF Crash, Idle, EmptyQueue
<1>3. Held' = {} /\ QueueComplete(wq')
  BY <1>2 DEF Held, QueueComplete
<1>4. ASSUME NEW j \in Keys
      PROVE  Noticed(j)' \/ Cached(j)' = Stored(j)'
  <2>1. /\ TypeCore' /\ VersionsInv' /\ PastInv'
    BY CrashInv DEF IInv
  <2>2. /\ Len(versions'[j]) \in Nat \ {0} /\ behind'[j] \in Nat
        /\ Stored(j)' = versions'[j][Len(versions'[j])]
        /\ behind'[j] = 0 => Cached(j)' = versions'[j][1]
    <3>1. versions'[j] \in Seq(Versions) \ {<< >>}
      BY <2>1 DEF TypeCore
    <3>2. behind'[j] \in Nat
      BY <2>1 DEF PastInv, PastType
    <3>3. behind'[j] = 0 => Cached(j)' = versions'[j][1]
      BY <3>1 DEF Cached
    <3> QED BY <3>1, <3>2, <3>3 DEF Stored
  <2>3. \/ Len(versions'[j]) > 1 \/ behind'[j] > 0
        \/ Len(versions'[j]) = 1 /\ behind'[j] = 0
    <3> DEFINE n == Len(versions'[j])
               m == behind'[j]
    <3>1. n \in Nat \ {0} /\ m \in Nat
      BY <2>2
    <3> HIDE DEF n, m
    <3>2. n > 1 \/ m > 0 \/ (n = 1 /\ m = 0)
      BY <3>1
    <3> QED BY <3>2 DEF n, m
  <2>4. CASE Len(versions'[j]) > 1 \/ behind'[j] > 0
    BY <2>4 DEF Noticed
  <2>5. CASE Len(versions'[j]) = 1 /\ behind'[j] = 0
    <3>1. Stored(j)' = versions'[j][1]
      BY <2>2, <2>5
    <3> QED BY <2>2, <2>5, <3>1
  <2> QED BY <2>3, <2>4, <2>5
<1>5. WakeupKept' /\ FinalizerHolds'
  <2>1. \A j \in Keys :
          Stored(j)'.phase = "absent" \/ Noticed(j)' \/ j \in wq'.pending
    BY <1>2, <1>4
  <2>2. WakeupKept'
    BY <2>1 DEF WakeupKept, Settled
  <2> QED BY <1>1, <2>2 DEF Wakeful, FinalizerHolds
<1>6. StaleNoticed' /\ DoneSettled' /\ AclRecorded'
  BY <1>2, <1>3 DEF StaleNoticed, DoneSettled, AclRecorded
<1> QED BY <1>2, <1>3, <1>5, <1>6 DEF Wakeful

LEMMA NextWakeful ==
  IInv /\ PastInv /\ Ownership /\ Sync /\ Wakeful /\ [Next]_vars => Wakeful'
<1> SUFFICES ASSUME IInv, PastInv, Ownership, Sync, Wakeful, [Next]_vars PROVE Wakeful'
  OBVIOUS
<1>1. ASSUME UNCHANGED <<versions, behind, wq, worker>>
      PROVE  Wakeful'
  <2>1. \A j \in Keys :
          Stored(j)' = Stored(j) /\ (Noticed(j) => Noticed(j)')
    BY <1>1 DEF Stored, Noticed
  <2>2. QueueComplete(wq') /\ FinalizerHolds'
    BY <1>1, <2>1 DEF Wakeful, FinalizerHolds
  <2> QED BY <1>1, <2>1, <2>2, OthersWakeful
<1> QED BY <1>1, WorkerStepWakeful, InformerWakeful, UserWakeful, CrashWakeful
        DEF Next, Environment, Others, OutsiderCreatesBucket, OutsiderDeletesBucket,
            OutsiderChangesObjects, OutsiderActs, vars, informer

(* Every object that needs a reconcile has one coming.                     *)
THEOREM WakefulInvariance == Spec => []Wakeful
<1>1. Init => Wakeful
  <2> SUFFICES ASSUME Init PROVE Wakeful
    OBVIOUS
  <2>1. \A k \in Keys : Stored(k).phase = "absent"
    BY DEF Init, Stored, NeverCreated
  <2>2. Held = {} /\ worker.pc = "idle" /\ wq.dirty = {} /\ wq.processing = {}
    BY DEF Init, Held, Idle, EmptyQueue
  <2> QED BY <2>1, <2>2 DEF Wakeful, QueueComplete, WakeupKept, Settled, StaleNoticed,
                            DoneSettled, AclRecorded, FinalizerHolds
<1> QED BY <1>1, Invariance, OwnershipInvariance, SyncInvariance, NextWakeful, PTL
        DEF Spec

(* When no event, queued key, delayed key or reconcile is under way, every *)
(* object is gone or is as it was asked for, for every number of objects   *)
(* and however often events were merged, Updates refused, answers lost and *)
(* the process restarted.                                                  *)
THEOREM QuietSettled == Spec => []QuietMeansSettled
<1>1. IInv /\ Wakeful => QuietMeansSettled
  <2> SUFFICES ASSUME IInv, Wakeful, Quiet, NEW k \in Keys
               PROVE  Settled(Stored(k))
    BY DEF QuietMeansSettled, Settled
  <2>1. /\ Held = {} /\ wq.processing = {} /\ wq.pending = {}
        /\ Len(versions[k]) = 1 /\ behind[k] = 0
    BY DEF Quiet, Held, Wakeful
  <2>2. k \notin wq.dirty
    <3>1. ~ \E i \in 1..Len(wq.queue) : wq.queue[i] = k
      BY DEF Quiet
    <3> QED BY <2>1, <3>1 DEF Wakeful, QueueComplete
  <2>3. ~Noticed(k) /\ k \notin wq.pending /\ k \notin Held
    BY <2>1, <2>2 DEF Noticed
  <2> QED BY <2>3 DEF Wakeful, WakeupKept
<1> QED BY <1>1, Invariance, WakefulInvariance, PTL

-----------------------------------------------------------------------------
(* A key waits once.                                                       *)

(* The keys stay dirty, and no worker takes one without the queue.         *)
LEMMA SameQueueStingy ==
  ASSUME NEW q, NEW r, Stingy(q), r.queue = q.queue, q.dirty \subseteq r.dirty,
         r.processing \subseteq q.processing
  PROVE  Stingy(r)
BY DEF Stingy

(* A key that does not wait is appended.                                   *)
LEMMA AppendOnce ==
  ASSUME NEW K, NEW q \in WorkQueues(K), NEW r \in WorkQueues(K), NEW k \in K,
         Stingy(q), \A i \in 1..Len(q.queue) : q.queue[i] # k,
         r.queue = Append(q.queue, k), k \in r.dirty \ r.processing,
         q.dirty \subseteq r.dirty, r.processing \subseteq q.processing
  PROVE  Stingy(r)
<1> DEFINE S == q.queue
           n == Len(S)
<1>1. /\ n \in Nat /\ Len(r.queue) = n + 1 /\ r.queue[n + 1] = k
      /\ \A i \in 1..n : r.queue[i] = S[i]
  BY DEF WorkQueues
<1>2. \A i \in 1..n : S[i] \in q.dirty \ q.processing /\ S[i] # k
  BY DEF Stingy
<1>3. \A i, j \in 1..n : S[j] = S[i] => j = i
  BY DEF Stingy
<1> HIDE DEF n, S
<1>4. \A i \in 1..n + 1 : i \in 1..n \/ i = n + 1
  BY <1>1
<1>5. \A i \in 1..n + 1 : r.queue[i] \in r.dirty \ r.processing
  BY <1>1, <1>2, <1>4
<1>6. \A i, j \in 1..n + 1 : r.queue[j] = r.queue[i] => j = i
  BY <1>1, <1>2, <1>3, <1>4
<1> QED BY <1>1, <1>5, <1>6 DEF Stingy

LEMMA AddStingy ==
  ASSUME NEW K, NEW q \in WorkQueues(K), NEW k \in K, Stingy(q)
  PROVE  Stingy(Add(q, k))
<1> DEFINE r == Add(q, k)
<1>1. CASE k \in q.dirty
  BY <1>1 DEF Add
<1>2. CASE k \notin q.dirty
  <2>1. /\ r.dirty = q.dirty \cup {k} /\ r.processing = q.processing
        /\ r.queue = IF k \in q.processing THEN q.queue ELSE Append(q.queue, k)
    BY <1>2 DEF Add, WorkQueues
  <2>2. r \in WorkQueues(K)
    BY QueueTypes
  <2>3. \A i \in 1..Len(q.queue) : q.queue[i] # k
    BY <1>2 DEF Stingy
  <2> HIDE DEF r
  <2>4. ASSUME k \in q.processing PROVE Stingy(r)
    <3>1. r.queue = q.queue /\ q.dirty \subseteq r.dirty /\ r.processing = q.processing
      BY <2>1, <2>4
    <3> QED BY <3>1, SameQueueStingy
  <2>5. ASSUME k \notin q.processing PROVE Stingy(r)
    <3>1. /\ r.queue = Append(q.queue, k) /\ k \in r.dirty \ r.processing
          /\ q.dirty \subseteq r.dirty /\ r.processing \subseteq q.processing
      BY <2>1, <2>5
    <3> QED BY <2>2, <2>3, <3>1, AppendOnce
  <2> QED BY <2>4, <2>5 DEF r
<1> QED BY <1>1, <1>2

LEMMA GetStingy ==
  ASSUME NEW K, NEW q \in WorkQueues(K), Stingy(q), q.queue # << >>
  PROVE  Stingy(Get(q))
<1> DEFINE S == q.queue
           r == Get(q)
<1>1. /\ r.queue = Tail(S) /\ r.dirty = q.dirty \ {S[1]}
      /\ r.processing = q.processing \cup {S[1]}
  BY DEF Get, WorkQueues
<1>2. S \in Seq(K) /\ S # << >>
  BY DEF WorkQueues
<1>3. \A i \in 1..Len(S) : S[i] \in q.dirty \ q.processing
  BY DEF Stingy
<1>4. \A i, j \in 1..Len(S) : S[j] = S[i] => j = i
  BY DEF Stingy
<1> HIDE DEF S, r
<1>5. /\ Len(S) \in Nat \ {0} /\ Len(r.queue) = Len(S) - 1
      /\ \A i \in 1..Len(r.queue) : r.queue[i] = S[i + 1]
  BY <1>1, <1>2
<1>6. /\ 1 \in 1..Len(S)
      /\ \A i \in 1..Len(r.queue) : i + 1 \in 1..Len(S) /\ i + 1 # 1
  BY <1>5
<1>7. \A i \in 1..Len(r.queue) : S[i + 1] # S[1]
  BY <1>4, <1>6
<1>8. \A i \in 1..Len(r.queue) : r.queue[i] \in r.dirty \ r.processing
  BY <1>1, <1>3, <1>5, <1>6, <1>7
<1>9. ASSUME NEW i \in 1..Len(r.queue), NEW j \in 1..Len(r.queue),
             r.queue[j] = r.queue[i]
      PROVE  j = i
  <2>1. j + 1 = i + 1
    BY <1>4, <1>5, <1>6, <1>9
  <2> QED BY <1>5, <2>1
<1> QED BY <1>8, <1>9 DEF Stingy, r

(* Done is for a key that was taken from the queue.                        *)
LEMMA DoneStingy ==
  ASSUME NEW K, NEW q \in WorkQueues(K), NEW k \in K, Stingy(q), k \in q.processing
  PROVE  Stingy(Done(q, k))
<1> DEFINE r == Done(q, k)
<1>1. /\ r.dirty = q.dirty /\ r.processing = q.processing \ {k}
      /\ r.queue = IF k \in q.dirty THEN Append(q.queue, k) ELSE q.queue
  BY DEF Done, WorkQueues
<1>2. r \in WorkQueues(K)
  BY QueueTypes
<1>3. \A i \in 1..Len(q.queue) : q.queue[i] # k
  BY DEF Stingy
<1> HIDE DEF r
<1>4. ASSUME k \in q.dirty PROVE Stingy(r)
  <2>1. /\ r.queue = Append(q.queue, k) /\ k \in r.dirty \ r.processing
        /\ q.dirty \subseteq r.dirty /\ r.processing \subseteq q.processing
    BY <1>1, <1>4
  <2> QED BY <1>2, <1>3, <2>1, AppendOnce
<1>5. ASSUME k \notin q.dirty PROVE Stingy(r)
  <2>1. /\ r.queue = q.queue /\ q.dirty \subseteq r.dirty
        /\ r.processing \subseteq q.processing
    BY <1>1, <1>5
  <2> QED BY <2>1, SameQueueStingy
<1> QED BY <1>4, <1>5 DEF r

LEMMA NextStingy == IInv /\ Wakeful /\ QueuedOnce /\ [Next]_vars => QueuedOnce'
<1> SUFFICES ASSUME IInv, Wakeful, Stingy(wq), [Next]_vars PROVE Stingy(wq')
  BY DEF QueuedOnce
<1>1. wq \in WorkQueues(Keys)
  BY DEF IInv, TypeCore
<1>2. CASE UNCHANGED wq
  BY <1>2
<1>3. CASE TakeKey
  BY <1>1, <1>3, GetStingy DEF TakeKey
<1>4. CASE FinishItem
  <2>1. worker.pc # "idle" /\ worker.key \in Keys /\ worker.key \in wq.processing
    BY <1>4, AtCall DEF FinishItem, Outcomes, Wakeful, Held
  <2> DEFINE q == AddRateLimited(wq, worker.key)
  <2>2. q \in WorkQueues(Keys)
    BY <1>1, <2>1, QueueTypes
  <2>3. q.queue = wq.queue /\ q.dirty = wq.dirty /\ q.processing = wq.processing
    BY <1>1 DEF AddRateLimited, WorkQueues
  <2> HIDE DEF q
  <2>4. Stingy(q)
    BY <2>3 DEF Stingy
  <2>5. wq' \in {Done(q, worker.key), Done(wq, worker.key)}
    BY <1>4 DEF FinishItem, q
  <2> QED BY <1>1, <2>1, <2>2, <2>3, <2>4, <2>5, DoneStingy
<1>5. ASSUME NEW k \in Keys, Deliver(k) \/ Relist(k) \/ Resync(k) \/ Enqueue(k)
      PROVE  Stingy(wq')
  <2> DEFINE q == [wq EXCEPT !.pending = wq.pending \ {k}]
  <2>1. q \in WorkQueues(Keys) /\ q.queue = wq.queue
        /\ q.dirty = wq.dirty /\ q.processing = wq.processing
    BY <1>1 DEF WorkQueues
  <2>2. wq' \in {Add(wq, k), Add(q, k)}
    BY <1>5 DEF Deliver, Relist, Resync, Enqueue, AddPending
  <2> HIDE DEF q
  <2>3. Stingy(q)
    BY <2>1 DEF Stingy
  <2> QED BY <1>1, <2>1, <2>2, <2>3, AddStingy
<1>6. CASE Crash
  BY <1>6 DEF Crash, EmptyQueue, Stingy
<1>7. WorkerStep => UNCHANGED wq \/ TakeKey \/ FinishItem
  BY DEF WorkerStep, AddFinalizer, HeadBucket, CreateBucket, RecordCreated,
     GetBucketLocation, RecordAcquired, ConfigureTagsAndPolicy, Configuring, PutBucketAcl,
     RecordAcl, ConfigureRest, DeleteBucket, EmptyBucket, DeleteEmptied, RemoveFinalizer
<1>8. Environment => UNCHANGED wq \/ Crash
  BY DEF Environment, Others, UserCreate, UserEdit, UserDelete, OutsiderCreatesBucket,
     OutsiderDeletesBucket, OutsiderChangesObjects, OutsiderActs
<1>9. UNCHANGED vars => UNCHANGED wq
  BY DEF vars
<1> QED BY <1>2, <1>3, <1>4, <1>5, <1>6, <1>7, <1>8, <1>9 DEF Next

(* A key waits at most once and never beside a reconcile of its object, so *)
(* that no burst of events, resyncs and retries makes the queue longer     *)
(* than there are objects, for every number of them.                       *)
THEOREM KeysQueuedOnce == Spec => []QueuedOnce
<1>1. Init => QueuedOnce
  BY DEF Init, EmptyQueue, QueuedOnce, Stingy
<1> QED BY <1>1, Invariance, WakefulInvariance, NextStingy, PTL DEF Spec
=============================================================================
