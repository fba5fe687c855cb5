--------------------- MODULE S3BucketRefinement_proof ---------------------
(***************************************************************************)
(* Proof that S3BucketController implements S3BucketLifecycle: conflicts,  *)
(* crashes, stale reads and lost answers do not show in what is written to *)
(* the objects of the API.                                                 *)
(***************************************************************************)
EXTENDS S3BucketController_proof

-----------------------------------------------------------------------------
(* The inductive invariant.                                                *)

(* The calls of a reconcile, and those that store what an earlier call     *)
(* left in the instance.                                                   *)
Recording == {"recordCreated", "recordAcquired", "recordAcl"}
Reading == ({"addFinalizer"} \cup Provisioning \cup Deleting) \ Recording

(* validateInstance's tests of the place.                                  *)
Fits(v) == /\ v.status.arn \in {NONE, v.spec.bucket}
           /\ v.status.location \in {NONE, v.spec.region}

(* A reconcile that may end the deletion of object k, stored as o.         *)
MayRelease(k, o, R) ==
  o.spec.deleteStrategy = "Skip" \/ o.status.arn = NONE \/ k \in R

(* The instance of worker w against the stored object o it was read from,  *)
(* or has stored: they differ in what the last call found out.             *)
Agrees(w, o, R) ==
  /\ w.pc \in Reading => w.inst.spec = o.spec /\ w.inst.status = o.status
  /\ w.pc \in Recording => w.inst.spec = o.spec
  /\ w.pc = "recordCreated" => Fits(o) /\ w.inst.status = CreatedStatus(o.spec)
  /\ w.pc = "recordAcquired" =>
       /\ Fits(o) /\ o.status.arn = NONE
       /\ \E l \in {o.status.location, o.spec.region} :
            w.inst.status = [o.status EXCEPT !.arn = o.spec.bucket, !.location = l]
  /\ w.pc = "recordAcl" =>
       /\ o.status.arn = o.spec.bucket
       /\ w.inst.status = [o.status EXCEPT !.acl = o.spec.acl]
  /\ w.pc = "removeFinalizer" => MayRelease(w.key, o, R)

(* What the calls so far have established of the instance.                 *)
Established(w, M) ==
  /\ w.pc \in {"headBucket", "createBucket", "getLocation"} => Fits(w.inst)
  /\ w.pc \in {"getLocation", "recordAcquired"} =>
       w.inst.spec.ownershipStrategy = "Acquire"
  /\ w.pc = "getLocation" => w.inst.status.arn = NONE
  /\ w.pc = "recordCreated" => <<w.key, w.inst.spec.bucket>> \in M

Sync ==
  worker.pc # "idle" =>
    /\ Established(worker, made)
    /\ inst.rv = Stored(worker.key).rv => Agrees(worker, Stored(worker.key), released)

-----------------------------------------------------------------------------
(* The worker and its key.                                                 *)

LEMMA WorkerFields ==
  ASSUME IInv, NEW p, GoTo(p)
  PROVE  worker'.pc = p /\ worker'.key = worker.key /\ worker'.inst = worker.inst
  BY DEF IInv, TypeCore, Workers, GoTo

(* A step that is not the worker's: the object is as it was, and as        *)
(* released, or it is newer than the instance.                             *)
LEMMA OthersSync ==
  ASSUME IInv, Sync, worker' = worker, made \subseteq made',
         worker.pc # "idle" =>
           \/ /\ Stored(worker.key)' = Stored(worker.key)
              /\ worker.key \in released => worker.key \in released'
           \/ /\ Stored(worker.key)'.rv \in Nat
              /\ Stored(worker.key).rv < Stored(worker.key)'.rv
  PROVE  Sync'
<1> SUFFICES ASSUME worker.pc # "idle"
             PROVE  /\ Established(worker, made')
                    /\ inst.rv = Stored(worker.key)'.rv =>
                         Agrees(worker, Stored(worker.key)', released')
  BY DEF Sync, inst
<1>1. Established(worker, made')
  BY DEF Sync, Established
<1>2. /\ worker.key \in Keys /\ inst.rv \in Nat
      /\ inst.rv <= Stored(worker.key).rv /\ Stored(worker.key).rv \in Nat
  BY AtCall, VersionsType DEF IInv, InstanceInv, NotAhead, Versions
<1>3. CASE /\ Stored(worker.key)' = Stored(worker.key)
           /\ worker.key \in released => worker.key \in released'
  BY <1>1, <1>3 DEF Sync, Agrees, MayRelease
<1>4. CASE /\ Stored(worker.key)'.rv \in Nat
           /\ Stored(worker.key).rv < Stored(worker.key)'.rv
  BY <1>1, <1>2, <1>4
<1> QED BY <1>3, <1>4

LEMMA SyncAfter ==
  ASSUME Established(worker', made'),
         worker'.inst.rv = LastOf(versions'[worker'.key]).rv =>
           Agrees(worker', LastOf(versions'[worker'.key]), released')
  PROVE  Sync'
  BY DEF Sync, inst, Stored, LastOf

(* A reconcile that has ended.                                             *)
LEMMA EndedSync == worker'.pc \in Outcomes \cup {"idle"} => Sync'
  BY DEF Sync, Agrees, Established, Outcomes, Reading, Recording,
         Provisioning, Deleting

(* A call that goes on to the next one with the same instance.             *)
LEMMA GoToSync ==
  ASSUME IInv, Sync, NEW p, GoTo(p), versions' = versions,
         released \subseteq released',
         \/ p \in Outcomes
         \/ p \in Reading /\ worker.pc \in Reading,
         p \in {"headBucket", "createBucket", "getLocation"} => Fits(inst),
         p = "getLocation" => /\ inst.spec.ownershipStrategy = "Acquire"
                              /\ inst.status.arn = NONE,
         p = "removeFinalizer" => MayRelease(worker.key, inst, released')
  PROVE  Sync'
<1>1. worker'.pc = p /\ worker'.key = worker.key /\ worker'.inst = worker.inst
  BY WorkerFields
<1>2. CASE p \in Outcomes
  BY <1>1, <1>2, EndedSync
<1>3. CASE p \in Reading /\ worker.pc \in Reading
  <2>1. p \notin Recording /\ worker.pc # "idle"
    BY <1>3 DEF Reading, Recording, Provisioning, Deleting
  <2>2. Established(worker', made')
    BY <1>1, <2>1 DEF Established, Recording, inst
  <2>3. Stored(worker.key)' = Stored(worker.key)
    BY <1>1 DEF Stored
  <2>4. inst.rv = Stored(worker.key).rv => Agrees(worker', Stored(worker.key), released')
    <3> SUFFICES ASSUME inst.rv = Stored(worker.key).rv
                 PROVE  Agrees(worker', Stored(worker.key), released')
      OBVIOUS
    <3>1. inst.spec = Stored(worker.key).spec /\ inst.status = Stored(worker.key).status
      BY <1>3, <2>1 DEF Sync, Agrees, inst
    <3> QED BY <1>1, <2>1, <3>1 DEF Agrees, MayRelease, Recording, inst
  <2> QED BY <1>1, <2>2, <2>3, <2>4 DEF Sync, inst
<1> QED BY <1>2, <1>3

-----------------------------------------------------------------------------
(* What the API server stores.                                             *)

LEMMA StoredAfter ==
  ASSUME TypeCore, NEW k \in Keys, NEW v, Store(k, v)
  PROVE  /\ LastOf(versions'[k]) = v
         /\ \A j \in Keys \ {k} : versions'[j] = versions[j]
<1> DEFINE S == versions[k]
<1>1. /\ S \in Seq(Versions) /\ Len(S) \in Nat \ {0}
      /\ Stored(k) = S[Len(S)] /\ DOMAIN versions = Keys
  BY VersionsType DEF LastOf, TypeCore
<1>2. CASE v = Stored(k)
  BY <1>2 DEF Store, Stored, LastOf
<1>3. CASE v # Stored(k)
  <2>1. versions' = [versions EXCEPT ![k] = Append(S, v)]
    BY <1>3 DEF Store
  <2>2. versions'[k] = Append(S, v) /\ \A j \in Keys \ {k} : versions'[j] = versions[j]
    BY <1>1, <2>1
  <2> HIDE DEF S
  <2>3. Append(S, v)[Len(Append(S, v))] = v
    BY <1>1
  <2> QED BY <2>2, <2>3 DEF LastOf
<1> QED BY <1>2, <1>3

(* No version but the last has the resource version of the stored object.  *)
LEMMA FreshIsStored ==
  ASSUME IInv, PastInv, NEW k \in Keys, Cached(k).rv = Stored(k).rv
  PROVE  Cached(k) = Stored(k)
<1> DEFINE S == versions[k]
<1>1. /\ Len(S) \in Nat \ {0} /\ Stored(k) = S[Len(S)]
      /\ Stored(k).rv \in Nat /\ S[1].rv \in Nat /\ Increasing(S)
      /\ S[1].rv <= Stored(k).rv
  BY VersionsType, FirstToLast DEF IInv, VersionsInv, LastOf
<1>2. Cached(k) = S[1]
  <2>1. behind[k] \in Nat
    BY DEF PastInv, PastType
  <2>2. /\ behind[k] = 0 => Cached(k) = S[1]
        /\ behind[k] > 0 => Cached(k).rv < S[1].rv
    BY CachedVersion DEF IInv
  <2> HIDE DEF S
  <2> QED BY <1>1, <2>1, <2>2
<1> HIDE DEF S
<1>3. ~(1 < Len(S))
  BY <1>1, <1>2 DEF Increasing
<1> QED BY <1>1, <1>2, <1>3

(* An accepted Update leaves the worker with the object that is stored.    *)
LEMMA UpdateSync ==
  ASSUME IInv, NEW v \in Versions, NEW next, NEW failed \in Outcomes,
         Update(v, next, failed), worker.pc # "idle", made' = made,
         next \in Outcomes \cup {"headBucket", "configure", "configureRest"},
         next = "headBucket" => Fits(v)
  PROVE  Sync'
<1> DEFINE k == worker.key
           p == Persisted(k, v)
<1>1. worker \in [pc : PCs, key : Keys \cup {NONE}, inst : Versions,
                 rewound : BOOLEAN]
      /\ k \in Keys /\ TypeCore
  BY AtCall DEF IInv, TypeCore, Workers
<1>2. CASE GoTo(failed)
  BY <1>2, WorkerFields, EndedSync
<1>3. CASE /\ Accepts(k, v) /\ Store(k, p)
           /\ worker' = [worker EXCEPT !.pc = next, !.inst = p]
  <2>1. worker'.pc = next /\ worker'.key = k /\ worker'.inst = p
    BY <1>1, <1>3
  <2>2. p.spec = v.spec /\ p.status = v.status
    BY DEF Persisted, Versions
  <2> HIDE DEF k, p
  <2>3. LastOf(versions'[k]) = p
    BY <1>1, <1>3, StoredAfter
  <2>4. next = "headBucket" => Fits(p)
    BY <2>2 DEF Fits
  <2>5. CASE next \in Outcomes
    BY <2>1, <2>5, EndedSync
  <2>6. CASE next \in {"headBucket", "configure", "configureRest"}
    <3>1. Established(worker', made')
      BY <2>1, <2>4, <2>6 DEF Established
    <3>2. Agrees(worker', p, released')
      BY <2>1, <2>6 DEF Agrees, Recording
    <3> QED BY <2>1, <2>3, <3>1, <3>2, SyncAfter
  <2> QED BY <2>5, <2>6
<1> QED BY <1>2, <1>3 DEF Update

-----------------------------------------------------------------------------
(* The worker's steps.                                                     *)

LEMMA TakeKeySync == IInv /\ PastInv /\ TakeKey => Sync'
<1> SUFFICES ASSUME IInv, PastInv, TakeKey PROVE Sync'
  OBVIOUS
<1> DEFINE k == Head(wq.queue)
           v == Cached(k)
<1>1. k \in Keys
  <2>1. wq \in WorkQueues(Keys) /\ wq.queue # << >>
    BY DEF IInv, TypeCore, TakeKey
  <2>2. wq.queue \in Seq(Keys)
    BY <2>1 DEF WorkQueues
  <2> QED BY <2>1, <2>2
<1>2. /\ worker' = [pc |-> StartReconcile(v), key |-> k, inst |-> v,
                    rewound |-> behind[k] > 0]
      /\ versions' = versions
  BY DEF TakeKey
<1> HIDE DEF k
<1>3. v \in Versions /\ (v.rv = Stored(k).rv => v = Stored(k))
  BY <1>1, FreshIsStored, CachedVersion DEF IInv
<1> HIDE DEF v
<1>4. /\ StartReconcile(v) \in {"done", "addFinalizer", "nonRetryable", "headBucket",
                                "removeFinalizer", "deleteBucket"}
      /\ StartReconcile(v) = "headBucket" => Fits(v)
      /\ StartReconcile(v) = "removeFinalizer" =>
           v.spec.deleteStrategy = "Skip" \/ v.status.arn = NONE
  <2>1. /\ AfterFinalizer(v) \in {"headBucket", "nonRetryable"}
        /\ AfterFinalizer(v) = "headBucket" => Fits(v)
    BY DEF AfterFinalizer, Validate, Fits
  <2>2. /\ StartDeletion(v) \in {"removeFinalizer", "deleteBucket"}
        /\ StartDeletion(v) = "removeFinalizer" =>
             v.spec.deleteStrategy = "Skip" \/ v.status.arn = NONE
    BY DEF StartDeletion
  <2>3. StartReconcile(v) \in {"done", "addFinalizer", AfterFinalizer(v), StartDeletion(v)}
    <3>1. v.phase \in {"absent", "live", "terminating"} /\ v.finalizer \in BOOLEAN
      BY <1>3 DEF Versions
    <3> QED BY <3>1 DEF StartReconcile
  <2> QED BY <2>1, <2>2, <2>3
<1>5. /\ worker'.pc = StartReconcile(v) /\ worker'.key = k /\ worker'.inst = v
      /\ LastOf(versions'[k]) = Stored(k)
  BY <1>2 DEF Stored, LastOf
<1>6. Established(worker', made')
  BY <1>4, <1>5 DEF Established
<1>7. v.rv = Stored(k).rv => Agrees(worker', Stored(k), released')
  BY <1>3, <1>4, <1>5 DEF Agrees, MayRelease, Recording
<1> QED BY <1>5, <1>6, <1>7, SyncAfter

LEMMA UpdatesSync ==
  IInv /\ (AddFinalizer \/ RecordCreated \/ RecordAcquired \/ RecordAcl
           \/ RemoveFinalizer) => Sync'
<1> SUFFICES ASSUME IInv, AddFinalizer \/ RecordCreated \/ RecordAcquired
                          \/ RecordAcl \/ RemoveFinalizer
             PROVE  Sync'
  OBVIOUS
<1>1. worker.pc # "idle" /\ made' = made
  BY DEF AddFinalizer, RecordCreated, RecordAcquired, RecordAcl, RemoveFinalizer
<1>2. inst \in Versions /\ {"requeue", "nonRetryable", "done"} \subseteq Outcomes
  BY AtCall DEF Outcomes
<1>3. CASE AddFinalizer
  <2> DEFINE v == [inst EXCEPT !.finalizer = TRUE]
  <2>1. Update(v, AfterFinalizer(inst), "requeue")
    BY <1>3 DEF AddFinalizer
  <2>2. v \in Versions /\ v.spec = inst.spec /\ v.status = inst.status
    BY <1>2 DEF Versions
  <2> HIDE DEF v
  <2>3. /\ AfterFinalizer(inst) \in {"nonRetryable", "headBucket"}
        /\ AfterFinalizer(inst) = "headBucket" => Fits(v)
    BY <2>2 DEF AfterFinalizer, Validate, Fits
  <2> QED BY <1>1, <1>2, <2>1, <2>2, <2>3, UpdateSync
<1>4. CASE RecordCreated \/ RecordAcquired \/ RecordAcl
  <2>1. PICK next \in {"configure", "configureRest"} : Update(inst, next, "nonRetryable")
    BY <1>4 DEF RecordCreated, RecordAcquired, RecordAcl
  <2> QED BY <1>1, <1>2, <2>1, UpdateSync
<1>5. CASE RemoveFinalizer
  <2> DEFINE v == [inst EXCEPT !.finalizer = FALSE]
  <2>1. Update(v, "done", "requeue") /\ v \in Versions
    BY <1>2, <1>5 DEF RemoveFinalizer, Versions
  <2> HIDE DEF v
  <2> QED BY <1>1, <1>2, <2>1, UpdateSync
<1> QED BY <1>3, <1>4, <1>5

LEMMA HeadBucketSync == IInv /\ Sync /\ HeadBucket => Sync'
<1> SUFFICES ASSUME IInv, Sync, HeadBucket PROVE Sync'
  OBVIOUS
<1>1. /\ worker.pc = "headBucket" /\ worker.pc \in Reading
      /\ UNCHANGED <<versions, released>>
  BY DEF HeadBucket, Reading, Provisioning, Recording
<1>2. Fits(inst)
  BY <1>1 DEF Sync, Established, inst
<1>3. PICK p \in {AfterExists(inst), "createBucket", "nonRetryable", "retryable"} : GoTo(p)
  BY DEF HeadBucket
<1>4. \/ /\ AfterExists(inst) = "getLocation"
         /\ inst.status.arn = NONE /\ inst.spec.ownershipStrategy = "Acquire"
      \/ AfterExists(inst) \in {"nonRetryable", "configure"}
  BY DEF AfterExists
<1>5. /\ p \in Outcomes \/ p \in Reading
      /\ p # "removeFinalizer"
      /\ p = "getLocation" => /\ inst.spec.ownershipStrategy = "Acquire"
                              /\ inst.status.arn = NONE
  BY <1>3, <1>4 DEF Outcomes, Reading, Provisioning, Recording
<1> QED BY <1>1, <1>2, <1>3, <1>5, GoToSync

(* What a call leaves in the instance, to be stored next.                  *)
LEMMA StatusFields ==
  ASSUME IInv, NEW p, NEW s,
         worker' = [worker EXCEPT !.pc = p, !.inst.status = s]
  PROVE  /\ worker'.pc = p /\ worker'.key = worker.key
         /\ worker'.inst.rv = inst.rv /\ worker'.inst.spec = inst.spec
         /\ worker'.inst.status = s
<1>1. worker \in Workers /\ inst \in Versions
  BY AtCall
<1>2. /\ worker'.pc = p /\ worker'.key = worker.key
      /\ worker'.inst = [inst EXCEPT !.status = s]
  BY <1>1 DEF Workers, inst
<1> QED BY <1>1, <1>2 DEF Versions

LEMMA CreateBucketSync == IInv /\ Sync /\ CreateBucket => Sync'
<1> SUFFICES ASSUME IInv, Sync, CreateBucket PROVE Sync'
  OBVIOUS
<1>1. /\ worker.pc = "createBucket" /\ worker.pc \in Reading /\ worker.pc # "idle"
      /\ UNCHANGED <<versions, released>>
  BY DEF CreateBucket, Reading, Provisioning, Recording
<1>2. Fits(inst)
  BY <1>1 DEF Sync, Established, inst
<1>3. CASE /\ worker' = [worker EXCEPT !.pc = "recordCreated",
                           !.inst.status = CreatedStatus(inst.spec)]
           /\ made' = made \cup {<<worker.key, inst.spec.bucket>>}
  <2>1. /\ worker'.pc = "recordCreated" /\ worker'.key = worker.key
        /\ worker'.inst.rv = inst.rv /\ worker'.inst.spec = inst.spec
        /\ worker'.inst.status = CreatedStatus(inst.spec)
    BY <1>3, StatusFields
  <2>2. Established(worker', made')
    BY <1>3, <2>1 DEF Established
  <2>3. inst.rv = Stored(worker.key).rv =>
          inst.spec = Stored(worker.key).spec /\ inst.status = Stored(worker.key).status
    BY <1>1 DEF Sync, Agrees, inst
  <2>4. inst.rv = Stored(worker.key).rv => Agrees(worker', Stored(worker.key), released')
    BY <1>2, <2>1, <2>3 DEF Agrees, Fits, Reading, Recording
  <2> QED BY <1>1, <2>1, <2>2, <2>4, SyncAfter DEF Stored, LastOf
<1>4. CASE GoTo(worker.pc) \/ GoTo("nonRetryable") \/ GoTo("retryable")
  <2>1. {"nonRetryable", "retryable"} \subseteq Outcomes
    BY DEF Outcomes
  <2>2. PICK p \in {worker.pc, "nonRetryable", "retryable"} : GoTo(p)
    BY <1>4
  <2> QED BY <1>1, <1>2, <2>1, <2>2, GoToSync
<1> QED BY <1>3, <1>4 DEF AnswerLost, CreateBucket

LEMMA GetBucketLocationSync == IInv /\ Sync /\ GetBucketLocation => Sync'
<1> SUFFICES ASSUME IInv, Sync, GetBucketLocation PROVE Sync'
  OBVIOUS
<1>1. /\ worker.pc = "getLocation" /\ worker.pc \in Reading /\ worker.pc # "idle"
      /\ UNCHANGED <<versions, released>>
  BY DEF GetBucketLocation, Reading, Provisioning, Recording
<1>2. /\ Fits(inst) /\ inst.status.arn = NONE
      /\ inst.spec.ownershipStrategy = "Acquire"
  BY <1>1 DEF Sync, Established, inst
<1>3. CASE /\ worker' = [worker EXCEPT !.pc = "recordAcquired",
                           !.inst.status = AcquiredStatus(inst, Target)]
           /\ Acquirable(inst, Target)
  <2>1. /\ worker'.pc = "recordAcquired" /\ worker'.key = worker.key
        /\ worker'.inst.rv = inst.rv /\ worker'.inst.spec = inst.spec
        /\ worker'.inst.status = AcquiredStatus(inst, Target)
    BY <1>3, StatusFields
  <2>2. Established(worker', made')
    BY <1>2, <2>1 DEF Established
  <2>3. PICK l \in {inst.status.location, inst.spec.region} :
          AcquiredStatus(inst, Target)
            = [inst.status EXCEPT !.arn = inst.spec.bucket, !.location = l]
    BY <1>3 DEF AcquiredStatus, Acquirable
  <2>4. ASSUME inst.rv = Stored(worker.key).rv
        PROVE  Agrees(worker', Stored(worker.key), released')
    <3>1. inst.spec = Stored(worker.key).spec /\ inst.status = Stored(worker.key).status
      BY <1>1, <2>4 DEF Sync, Agrees, inst
    <3>2. Fits(Stored(worker.key))
      BY <1>2, <3>1 DEF Fits
    <3> QED BY <1>2, <2>1, <2>3, <3>1, <3>2 DEF Agrees, Reading, Recording
  <2> QED BY <1>1, <2>1, <2>2, <2>4, SyncAfter DEF Stored, LastOf
<1>4. CASE GoTo("nonRetryable") \/ GoTo("retryable")
  <2>1. {"nonRetryable", "retryable"} \subseteq Outcomes
    BY DEF Outcomes
  <2>2. PICK p \in {"nonRetryable", "retryable"} : GoTo(p)
    BY <1>4
  <2> QED BY <1>1, <1>2, <2>1, <2>2, GoToSync
<1> QED BY <1>3, <1>4 DEF GetBucketLocation

LEMMA ConfigureSync ==
  IInv /\ Sync /\ (ConfigureTagsAndPolicy \/ ConfigureRest) => Sync'
<1> SUFFICES ASSUME IInv, Sync, ConfigureTagsAndPolicy \/ ConfigureRest PROVE Sync'
  OBVIOUS
<1>1. /\ worker.pc \in Reading /\ UNCHANGED <<versions, released>>
  BY DEF ConfigureTagsAndPolicy, ConfigureRest, Configuring, Reading, Provisioning, Recording
<1>2. PICK p \in {AfterPolicy(inst), "done", "nonRetryable", "retryable"} : GoTo(p)
  BY DEF ConfigureTagsAndPolicy, ConfigureRest, Configuring
<1>3. p \in Outcomes \/ p \in {"putAcl", "configureRest"}
  BY <1>2 DEF AfterPolicy, Outcomes
<1>4. p \in Outcomes \/ p \in Reading
  BY <1>3 DEF Reading, Provisioning, Recording
<1>5. p \notin {"headBucket", "createBucket", "getLocation", "removeFinalizer"}
  BY <1>3 DEF Outcomes
<1> QED BY <1>1, <1>2, <1>4, <1>5, GoToSync

LEMMA PutBucketAclSync == IInv /\ Ownership /\ Sync /\ PutBucketAcl => Sync'
<1> SUFFICES ASSUME IInv, Ownership, Sync, PutBucketAcl PROVE Sync'
  OBVIOUS
<1>1. /\ worker.pc = "putAcl" /\ worker.pc \in Reading /\ worker.pc # "idle"
      /\ UNCHANGED <<versions, released>>
  BY DEF PutBucketAcl, Reading, Provisioning, Recording
<1>2. inst.status.arn = inst.spec.bucket
  BY <1>1 DEF Ownership, CallInv, Placed, WritesToTarget, inst
<1>3. CASE worker' = [worker EXCEPT !.pc = "recordAcl", !.inst.status.acl = inst.spec.acl]
  <2> DEFINE s == [inst.status EXCEPT !.acl = inst.spec.acl]
  <2>1. worker' = [worker EXCEPT !.pc = "recordAcl", !.inst.status = s]
    BY <1>3 DEF inst
  <2>2. /\ worker'.pc = "recordAcl" /\ worker'.key = worker.key
        /\ worker'.inst.rv = inst.rv /\ worker'.inst.spec = inst.spec
        /\ worker'.inst.status = s
    BY <2>1, StatusFields
  <2>3. Established(worker', made')
    BY <2>2 DEF Established
  <2>4. inst.rv = Stored(worker.key).rv =>
          inst.spec = Stored(worker.key).spec /\ inst.status = Stored(worker.key).status
    BY <1>1 DEF Sync, Agrees, inst
  <2>5. inst.rv = Stored(worker.key).rv => Agrees(worker', Stored(worker.key), released')
    BY <1>2, <2>2, <2>4 DEF Agrees, Reading, Recording
  <2> QED BY <1>1, <2>2, <2>3, <2>5, SyncAfter DEF Stored, LastOf
<1>4. CASE GoTo(worker.pc) \/ GoTo("nonRetryable") \/ GoTo("retryable")
  <2>1. {"nonRetryable", "retryable"} \subseteq Outcomes
    BY DEF Outcomes
  <2>2. PICK p \in {worker.pc, "nonRetryable", "retryable"} : GoTo(p)
    BY <1>4
  <2> QED BY <1>1, <2>1, <2>2, GoToSync DEF Outcomes
<1> QED BY <1>3, <1>4 DEF AnswerLost, PutBucketAcl

LEMMA DeleteSync ==
  IInv /\ Sync /\ (DeleteBucket \/ EmptyBucket \/ DeleteEmptied) => Sync'
<1> SUFFICES ASSUME IInv, Sync, DeleteBucket \/ EmptyBucket \/ DeleteEmptied
             PROVE  Sync'
  OBVIOUS
<1>1. /\ worker.pc \in Reading
      /\ worker.pc \in {"deleteBucket", "emptyBucket", "deleteEmptied"}
      /\ UNCHANGED versions
  BY DEF DeleteBucket, EmptyBucket, DeleteEmptied, Reading, Deleting, Recording
<1>2. released \subseteq released'
  BY DEF DeleteBucket, EmptyBucket, DeleteEmptied, BucketIsDeleted
<1>3. PICK p \in {worker.pc, "removeFinalizer", "nonRetryable", "emptyBucket",
                   "deleteEmptied"} :
        GoTo(p) /\ (p = "removeFinalizer" => worker.key \in released')
  <2>1. CASE BucketIsDeleted
    BY <2>1 DEF BucketIsDeleted, AnswerLost
  <2>2. CASE ~BucketIsDeleted
    BY <2>2 DEF DeleteBucket, EmptyBucket, DeleteEmptied
  <2> QED BY <2>1, <2>2
<1>4. p \in Outcomes \/ p \in Reading
  BY <1>1, <1>3 DEF Outcomes, Reading, Deleting, Recording
<1>5. p \notin {"headBucket", "createBucket", "getLocation"}
  BY <1>1, <1>3
<1>6. p = "removeFinalizer" => MayRelease(worker.key, inst, released')
  BY <1>3 DEF MayRelease
<1> QED BY <1>1, <1>2, <1>3, <1>4, <1>5, <1>6, GoToSync

LEMMA WorkerStepSync ==
  IInv /\ PastInv /\ Ownership /\ Sync /\ WorkerStep => Sync'
<1>1. FinishItem => Sync'
  BY EndedSync DEF FinishItem, Idle
<1> QED BY <1>1, TakeKeySync, UpdatesSync, HeadBucketSync, CreateBucketSync,
           GetBucketLocationSync, ConfigureSync, PutBucketAclSync, DeleteSync
        DEF WorkerStep

-----------------------------------------------------------------------------
(* The informer and the environment.                                       *)

(* Whatever the informer tells the cache, the API server's objects are as  *)
(* they were.                                                              *)
LEMMA MovesStored ==
  ASSUME IInv, PastInv, CacheMoves
  PROVE  \A j \in Keys : Stored(j)' = Stored(j)
<1> SUFFICES ASSUME NEW j \in Keys PROVE Stored(j)' = Stored(j)
  OBVIOUS
<1>1. LastOf(versions'[j]) = LastOf(versions[j])
  BY MovedVersions DEF IInv, CacheMoves
<1> QED BY <1>1 DEF Stored, LastOf

LEMMA UserSync ==
  ASSUME IInv, Sync, NEW k \in Keys,
         \/ UserDelete(k)
         \/ \E spec \in Specs : UserCreate(k, spec) \/ UserEdit(k, spec)
  PROVE  Sync'
<1>1. PICK v : Store(k, v) /\ v.rv = Stored(k).rv + 1
  BY UserStores DEF IInv
<1>2. LastOf(versions'[k]) = v /\ \A j \in Keys \ {k} : versions'[j] = versions[j]
  BY <1>1, StoredAfter DEF IInv
<1>3. worker' = worker /\ made' = made /\ released \ {k} \subseteq released'
  BY DEF UserDelete, UserCreate, UserEdit
<1>4. CASE worker.key = k
  <2>1. Stored(worker.key)' = v
    BY <1>2, <1>3, <1>4 DEF Stored, LastOf
  <2>2. Stored(k).rv \in Nat
    BY VersionsType DEF IInv
  <2> QED BY <1>1, <1>3, <1>4, <2>1, <2>2, OthersSync
<1>5. CASE worker.key # k
  <2>1. worker.pc # "idle" => worker.key \in Keys \ {k}
    BY <1>5, AtCall
  <2>2. worker.pc # "idle" => Stored(worker.key)' = Stored(worker.key)
    BY <1>2, <1>3, <2>1 DEF Stored
  <2> QED BY <1>3, <1>5, <2>2, OthersSync
<1> QED BY <1>4, <1>5

LEMMA NextSync == IInv /\ PastInv /\ Ownership /\ Sync /\ [Next]_vars => Sync'
<1> SUFFICES ASSUME IInv, PastInv, Ownership, Sync, [Next]_vars PROVE Sync'
  OBVIOUS
<1>1. CASE WorkerStep
  BY <1>1, WorkerStepSync
<1>2. ASSUME UNCHANGED <<worker, made, released>>,
             \A j \in Keys : Stored(j)' = Stored(j)
      PROVE  Sync'
  <2>1. worker.pc # "idle" => Stored(worker.key)' = Stored(worker.key)
    <3>1. worker.pc # "idle" => worker.key \in Keys
      BY AtCall
    <3> QED BY <1>2, <3>1 DEF Stored
  <2> QED BY <1>2, <2>1, OthersSync
<1>3. CASE \E k \in Keys : Deliver(k) \/ Relist(k)
  <2>1. CacheMoves
    BY <1>3, InformerMoves DEF IInv
  <2> QED BY <1>2, <1>3, <2>1, MovesStored DEF Deliver, Relist
<1>4. CASE \E k \in Keys : Resync(k) \/ Enqueue(k)
  BY <1>2, <1>4 DEF Resync, Enqueue, Stored
<1>5. CASE \E k \in Keys : \/ UserDelete(k)
                           \/ \E spec \in Specs : UserCreate(k, spec) \/ UserEdit(k, spec)
  BY <1>5, UserSync
<1>6. CASE \E b \in Buckets : \/ OutsiderCreatesBucket(b) \/ OutsiderDeletesBucket(b)
                              \/ OutsiderChangesObjects(b)
  BY <1>2, <1>6
  DEF OutsiderCreatesBucket, OutsiderDeletesBucket, OutsiderChangesObjects, OutsiderActs, Stored
<1>7. CASE Crash
  BY <1>7, EndedSync DEF Crash, Idle
<1>8. CASE UNCHANGED vars
  BY <1>2, <1>8 DEF vars, Stored
<1> QED BY <1>1, <1>3, <1>4, <1>5, <1>6, <1>7, <1>8 DEF Next, Environment, Others

(* An instance that is as new as the stored object agrees with it.         *)
THEOREM SyncInvariance == Spec => []Sync
<1>1. Init => Sync
  BY DEF Init, Idle, Sync
<1> QED BY <1>1, Invariance, OwnershipInvariance, NextSync, PTL DEF Spec

-----------------------------------------------------------------------------
(* The steps of the abstract specification.                                *)

Objects == [k \in Keys |-> Visible(Stored(k))]
Open == {b \in Buckets : s3[b].exists}
Mistaken == {k \in Keys : worker.key = k /\ worker.rewound}

Simulated == Lifecycle!Next \/ UNCHANGED Lifecycle!vars

(* A step that writes no object and no bucket; the worker may take another *)
(* key.                                                                    *)
LEMMA Stutter ==
  ASSUME UNCHANGED <<Objects, Open, made, recorded, released>>
  PROVE  Simulated
<1>1. Mistaken' \in SUBSET Keys
  BY DEF Mistaken
<1>2. Lifecycle!Mislead
  BY <1>1 DEF Lifecycle!Mislead, Objects, Open, Mistaken
<1> QED BY <1>2 DEF Simulated, Lifecycle!Next

LEMMA ObjectsAfter ==
  ASSUME TypeCore, NEW k \in Keys, NEW v, Store(k, v)
  PROVE  Objects' = [Objects EXCEPT ![k] = Visible(v)]
<1>1. LastOf(versions'[k]) = v /\ \A j \in Keys \ {k} : versions'[j] = versions[j]
  BY StoredAfter
<1>2. \A j \in Keys : Stored(j)' = IF j = k THEN v ELSE Stored(j)
  BY <1>1 DEF Stored, LastOf
<1>3. \A j \in Keys : Visible(Stored(j))' = IF j = k THEN Visible(v) ELSE Visible(Stored(j))
  BY <1>2 DEF Visible
<1> QED BY <1>3 DEF Objects

LEMMA ObjectFields ==
  ASSUME IInv, NEW k \in Keys
  PROVE  /\ Objects[k] = Visible(Stored(k)) /\ Stored(k) \in Versions
         /\ Objects[k].phase = Stored(k).phase
         /\ Objects[k].finalizer = Stored(k).finalizer
         /\ Objects[k].spec = Stored(k).spec
         /\ Objects[k].status = Stored(k).status
  BY VersionsType DEF IInv, Objects, Visible

(* An Update that is accepted replaces the object with the instance.       *)
Written(k, v) ==
  /\ k \in Keys /\ k \notin Mistaken /\ Mistaken' = Mistaken /\ Accepts(k, v) /\ Store(k, Persisted(k, v))
  /\ inst.rv = Stored(k).rv
  /\ Stored(k).phase = inst.phase /\ Stored(k).finalizer = inst.finalizer
  /\ Persisted(k, v).status = v.status
  /\ Objects' = [Objects EXCEPT ![k] = Visible(Persisted(k, v))]

LEMMA UpdateWrites ==
  ASSUME IInv, worker.pc # "idle", NEW v \in Versions, v.rv = inst.rv,
         NEW next, NEW failed, Update(v, next, failed)
  PROVE  UNCHANGED <<versions, recorded>> \/ Written(worker.key, v)
<1> DEFINE k == worker.key
           p == Persisted(k, v)
<1>1. /\ k \in Keys
      /\ inst.rv = Stored(k).rv =>
           Stored(k).phase = inst.phase /\ Stored(k).finalizer = inst.finalizer
  <2>1. k \in Keys /\ NotAhead(inst, versions[k])
    BY DEF IInv, InstanceInv
  <2>2. Stored(k) = LastOf(versions[k])
    BY DEF Stored, LastOf
  <2> QED BY <2>1, <2>2 DEF NotAhead
<1>2. p.status = v.status
  BY DEF Persisted, Versions
<1>3. CASE Accepts(k, v) /\ Store(k, p)
  <2>1. inst.rv = Stored(k).rv
    BY <1>3 DEF Accepts
  <2>2. k \notin Mistaken
    <3>1. /\ versions[k][1].rv \in Nat /\ Stored(k).rv \in Nat
          /\ versions[k][1].rv <= Stored(k).rv
      BY <1>1, VersionsType, FirstToLast DEF IInv
    <3>2. worker.rewound => inst.rv < versions[k][1].rv
      BY DEF IInv, InstanceInv, Read
    <3>3. ~worker.rewound
      BY <2>1, <3>1, <3>2
    <3> QED BY <3>3 DEF Mistaken
  <2>3. Mistaken' = Mistaken
    <3>1. worker \in Workers
      BY DEF IInv, TypeCore
    <3>2. worker'.key = worker.key /\ worker'.rewound = worker.rewound
      BY <3>1 DEF Update, GoTo, Workers
    <3> QED BY <3>2 DEF Mistaken
  <2> HIDE DEF p
  <2>4. Objects' = [Objects EXCEPT ![k] = Visible(p)]
    BY <1>1, <1>3, ObjectsAfter DEF IInv
  <2> QED BY <1>1, <1>2, <1>3, <2>1, <2>2, <2>3, <2>4 DEF p, Written
<1> QED BY <1>3 DEF Update

LEMMA PersistedLive ==
  ASSUME NEW k, NEW v \in Versions, v.phase = "live"
  PROVE  Visible(Persisted(k, v)) = Visible(v)
  BY DEF Persisted, Visible, Versions

ObjectType == [phase : {"absent", "live", "terminating"}, finalizer : BOOLEAN,
               spec : Specs, status : Statuses]

LEMMA SameObject ==
  ASSUME NEW o \in ObjectType, NEW p \in ObjectType,
         o.phase = p.phase, o.finalizer = p.finalizer,
         o.spec = p.spec, o.status = p.status
  PROVE  o = p
  BY DEF ObjectType

LEMMA VisibleType ==
  ASSUME NEW v \in Versions
  PROVE  /\ Visible(v) \in ObjectType
         /\ Visible(v).phase = v.phase /\ Visible(v).finalizer = v.finalizer
         /\ Visible(v).spec = v.spec /\ Visible(v).status = v.status
  BY DEF Visible, Versions, ObjectType

LEMMA Claimed ==
  ASSUME NEW o \in ObjectType
  PROVE  LET w == [o EXCEPT !.finalizer = TRUE]
         IN  /\ w \in ObjectType /\ w.phase = o.phase /\ w.finalizer = TRUE
             /\ w.spec = o.spec /\ w.status = o.status
  BY DEF ObjectType

LEMMA Freed ==
  ASSUME NEW o \in ObjectType
  PROVE  LET w == [o EXCEPT !.phase = "absent", !.finalizer = FALSE]
         IN  /\ w \in ObjectType /\ w.phase = "absent" /\ w.finalizer = FALSE
             /\ w.spec = o.spec /\ w.status = o.status
  BY DEF ObjectType

LEMMA AddFinalizerSimulated == IInv /\ Ownership /\ Sync /\ AddFinalizer => Simulated
<1> SUFFICES ASSUME IInv, Ownership, Sync, AddFinalizer PROVE Simulated
  OBVIOUS
<1> DEFINE k == worker.key
           v == [inst EXCEPT !.finalizer = TRUE]
<1>1. /\ worker.pc = "addFinalizer" /\ worker.pc \in Reading /\ worker.pc # "idle"
      /\ UNCHANGED <<s3, released, made>>
      /\ Update(v, AfterFinalizer(inst), "requeue")
  BY DEF AddFinalizer, Reading, Recording
<1>2. /\ inst \in Versions /\ inst.phase = "live" /\ ~inst.finalizer
      /\ Known(k, inst, recorded)
  BY <1>1, AtCall DEF IInv, InstanceInv, Ownership, CallInv, Holding, inst
<1>3. /\ v \in Versions /\ v.rv = inst.rv /\ v.phase = "live" /\ v.finalizer = TRUE
      /\ v.spec = inst.spec /\ v.status = inst.status
  BY <1>2 DEF Versions
<1>4. Open' = Open
  BY <1>1 DEF Open
<1> HIDE DEF v
<1>5. CASE UNCHANGED <<versions, recorded>>
  BY <1>1, <1>4, <1>5, Stutter DEF Objects, Stored
<1>6. CASE Written(k, v)
  <2>1. inst.spec = Stored(k).spec /\ inst.status = Stored(k).status
    BY <1>1, <1>6 DEF Sync, Agrees, Written, inst
  <2>2. recorded' = recorded
    BY <1>2, <1>3, <1>6 DEF Store, Known, Written
  <2>3. Visible(Persisted(k, v)) = [Visible(Stored(k)) EXCEPT !.finalizer = TRUE]
    <3>1. Visible(Persisted(k, v)) = Visible(v) /\ Stored(k) \in Versions
      BY <1>3, <1>6, PersistedLive, VersionsType DEF Written, IInv
    <3>2. Stored(k).phase = v.phase /\ Stored(k).spec = v.spec
          /\ Stored(k).status = v.status /\ v.finalizer = TRUE
      BY <1>2, <1>3, <1>6, <2>1 DEF Written
    <3> DEFINE o == Visible(Stored(k))
               w == [o EXCEPT !.finalizer = TRUE]
    <3>3. /\ o \in ObjectType /\ o.phase = v.phase
          /\ o.spec = v.spec /\ o.status = v.status
      BY <3>1, <3>2, VisibleType
    <3> HIDE DEF o
    <3>4. /\ w \in ObjectType /\ w.phase = v.phase /\ w.finalizer = TRUE
          /\ w.spec = v.spec /\ w.status = v.status
      BY <3>3, Claimed
    <3> HIDE DEF w
    <3>5. Visible(v) = w
      <4>1. /\ Visible(v) \in ObjectType /\ Visible(v).phase = v.phase
            /\ Visible(v).finalizer = v.finalizer
            /\ Visible(v).spec = v.spec /\ Visible(v).status = v.status
        BY <1>3, VisibleType
      <4>2. Visible(v).finalizer = w.finalizer
        BY <3>2, <3>4, <4>1, Zenon
      <4> QED BY <3>4, <4>1, <4>2, SameObject, Zenon
    <3> QED BY <3>1, <3>5 DEF o, w
  <2>4. /\ Objects' = [Objects EXCEPT ![k].finalizer = TRUE]
        /\ Objects[k].phase = "live" /\ ~Objects[k].finalizer
    BY <1>2, <1>6, <2>3, ObjectFields DEF Written
  <2>5. Lifecycle!Claim(k)
    BY <1>1, <1>4, <1>6, <2>2, <2>4
    DEF Lifecycle!Claim, Written, Objects, Open, Mistaken
  <2> QED BY <1>6, <2>5 DEF Simulated, Lifecycle!Next, Written
<1> QED BY <1>1, <1>3, <1>5, <1>6, UpdateWrites

(* The three Updates of a status: the object is live and held, and they    *)
(* replace nothing but its status.                                         *)
StatusWritten(k) ==
  /\ k \in Keys /\ k \notin Mistaken /\ inst.rv = Stored(k).rv
  /\ inst.spec = Stored(k).spec
  /\ Lifecycle!LiveAndHeld(k)
  /\ Objects' = [Objects EXCEPT ![k].status = inst.status]
  /\ recorded' = recorded \cup {<<k, inst.spec.bucket>>}
  /\ UNCHANGED <<Open, made, released, Mistaken>>

LEMMA StatusUpdate ==
  ASSUME IInv, Ownership, Sync, worker.pc \in Recording,
         NEW next, Update(inst, next, "nonRetryable"),
         UNCHANGED <<s3, released, made>>
  PROVE  UNCHANGED <<Objects, Open, made, recorded, released>> \/ StatusWritten(worker.key)
<1> DEFINE k == worker.key
<1>1. worker.pc # "idle" /\ worker.pc \in Provisioning /\ worker.pc \in Placed
  BY DEF Recording, Provisioning, Placed
<1>2. /\ inst \in Versions /\ inst.phase = "live" /\ inst.finalizer
      /\ inst.status.arn = inst.spec.bucket /\ inst.spec.bucket # NONE
  <2>1. inst.status.arn = inst.spec.bucket
    BY <1>1 DEF Ownership, CallInv, inst
  <2>2. inst.phase = "live" /\ inst.finalizer
    BY <1>1 DEF IInv, InstanceInv, LiveGuarded
  <2> QED BY <2>1, <2>2, AtCall, ConstantsAssumption DEF ConstantsAssumption
<1>3. Open' = Open
  BY DEF Open
<1>4. CASE UNCHANGED <<versions, recorded>>
  BY <1>3, <1>4 DEF Objects, Stored
<1>5. CASE Written(k, inst)
  <2>1. inst.spec = Stored(k).spec
    BY <1>1, <1>5 DEF Sync, Agrees, Written, inst
  <2>2. recorded' = recorded \cup {<<k, inst.spec.bucket>>}
    BY <1>2, <1>5 DEF Store, Written
  <2>3. Visible(Persisted(k, inst)) = [Visible(Stored(k)) EXCEPT !.status = inst.status]
    <3>1. Visible(Persisted(k, inst)) = Visible(inst)
      BY <1>2, PersistedLive
    <3>2. /\ Stored(k).phase = inst.phase /\ Stored(k).finalizer = inst.finalizer
          /\ Stored(k).spec = inst.spec
      BY <1>5, <2>1 DEF Written
    <3>3. Visible(inst) = [Visible(Stored(k)) EXCEPT !.status = inst.status]
      BY <3>2 DEF Visible
    <3> QED BY <3>1, <3>3
  <2>4. /\ Objects' = [Objects EXCEPT ![k].status = inst.status]
        /\ Objects[k].phase = "live" /\ Objects[k].finalizer
    BY <1>2, <1>5, <2>3, ObjectFields DEF Written
  <2>5. Lifecycle!LiveAndHeld(k)
    BY <2>4 DEF Lifecycle!LiveAndHeld, Objects
  <2> QED BY <1>3, <1>5, <2>1, <2>2, <2>4, <2>5 DEF StatusWritten, Written
<1> QED BY <1>1, <1>2, <1>4, <1>5, UpdateWrites

LEMMA RecordCreatedSimulated == IInv /\ Ownership /\ Sync /\ RecordCreated => Simulated
<1> SUFFICES ASSUME IInv, Ownership, Sync, RecordCreated PROVE Simulated
  OBVIOUS
<1> DEFINE k == worker.key
           o == Stored(k)
<1>1. /\ worker.pc = "recordCreated" /\ worker.pc \in Recording
      /\ UNCHANGED <<s3, released, made>> /\ Update(inst, "configure", "nonRetryable")
  BY DEF RecordCreated, Recording
<1>2. CASE UNCHANGED <<Objects, Open, made, recorded, released>>
  BY <1>2, Stutter
<1>3. CASE StatusWritten(k)
  <2>1. /\ Fits(o) /\ inst.status = CreatedStatus(o.spec)
        /\ <<k, inst.spec.bucket>> \in made
    BY <1>1, <1>3 DEF Sync, Agrees, Established, StatusWritten, inst
  <2>2. k \in Keys /\ Objects[k].spec = o.spec /\ Objects[k].status = o.status
    BY <1>3, ObjectFields DEF StatusWritten
  <2>3. /\ Lifecycle!LiveAndHeld(k)
        /\ <<k, Objects[k].spec.bucket>> \in made
        /\ Objects[k].status.arn \in {NONE, Objects[k].spec.bucket}
        /\ Objects[k].status.location \in {NONE, Objects[k].spec.region}
        /\ recorded' = recorded \cup {<<k, Objects[k].spec.bucket>>}
        /\ Objects' = [Objects EXCEPT ![k].status =
                        [arn |-> Objects[k].spec.bucket,
                         location |-> Objects[k].spec.region,
                         acl |-> Objects[k].spec.acl]]
        /\ UNCHANGED <<Open, made, released>>
    BY <1>3, <2>1, <2>2 DEF StatusWritten, Fits, CreatedStatus
  <2>4. Lifecycle!Own(k)
    BY <1>3, <2>3
    DEF Lifecycle!Own, Lifecycle!Places, StatusWritten, Objects, Open, Mistaken
  <2> QED BY <2>2, <2>4 DEF Simulated, Lifecycle!Next
<1> QED BY <1>1, <1>2, <1>3, StatusUpdate

LEMMA RecordAcquiredSimulated == IInv /\ Ownership /\ Sync /\ RecordAcquired => Simulated
<1> SUFFICES ASSUME IInv, Ownership, Sync, RecordAcquired PROVE Simulated
  OBVIOUS
<1> DEFINE k == worker.key
           o == Stored(k)
<1>1. /\ worker.pc = "recordAcquired" /\ worker.pc \in Recording
      /\ UNCHANGED <<s3, released, made>> /\ Update(inst, "configure", "nonRetryable")
  BY DEF RecordAcquired, Recording
<1>2. CASE UNCHANGED <<Objects, Open, made, recorded, released>>
  BY <1>2, Stutter
<1>3. CASE StatusWritten(k)
  <2>1. /\ Fits(o) /\ o.status.arn = NONE
        /\ inst.spec.ownershipStrategy = "Acquire"
        /\ \E l \in {o.status.location, o.spec.region} :
             inst.status = [o.status EXCEPT !.arn = o.spec.bucket, !.location = l]
    BY <1>1, <1>3 DEF Sync, Agrees, Established, StatusWritten, inst
  <2>2. PICK l \in {o.status.location, o.spec.region} :
          inst.status = [o.status EXCEPT !.arn = o.spec.bucket, !.location = l]
    BY <2>1
  <2>3. k \in Keys /\ Objects[k].spec = o.spec /\ Objects[k].status = o.status
    BY <1>3, ObjectFields DEF StatusWritten
  <2>4. Objects' = [Objects EXCEPT ![k].status.arn = Objects[k].spec.bucket,
                                   ![k].status.location = l]
    <3>1. Objects' = [Objects EXCEPT ![k].status =
                        [Objects[k].status EXCEPT !.arn = Objects[k].spec.bucket,
                                                  !.location = l]]
      BY <1>3, <2>2, <2>3 DEF StatusWritten
    <3>2. /\ k \in Keys /\ DOMAIN Objects = Keys
          /\ Objects[k] \in [phase : {"absent", "live", "terminating"},
                             finalizer : BOOLEAN, spec : Specs, status : Statuses]
      BY <1>3, ObjectFields DEF StatusWritten, Objects, Visible, Versions
    <3> QED BY <3>1, <3>2
  <2>5. /\ Lifecycle!LiveAndHeld(k)
        /\ Objects[k].status.arn = NONE
        /\ Objects[k].spec.ownershipStrategy = "Acquire"
        /\ l \in {Objects[k].status.location, Objects[k].spec.region}
        /\ Objects[k].status.location \in {NONE, l}
        /\ recorded' = recorded \cup {<<k, Objects[k].spec.bucket>>}
        /\ UNCHANGED <<Open, made, released>>
    BY <1>3, <2>1, <2>2, <2>3 DEF StatusWritten, Fits
  <2>6. Lifecycle!Adopt(k)
    BY <1>3, <2>4, <2>5
    DEF Lifecycle!Adopt, Lifecycle!Places, StatusWritten, Objects, Open, Mistaken
  <2> QED BY <2>3, <2>6 DEF Simulated, Lifecycle!Next
<1> QED BY <1>1, <1>2, <1>3, StatusUpdate

LEMMA RecordAclSimulated == IInv /\ Ownership /\ Sync /\ RecordAcl => Simulated
<1> SUFFICES ASSUME IInv, Ownership, Sync, RecordAcl PROVE Simulated
  OBVIOUS
<1> DEFINE k == worker.key
           o == Stored(k)
<1>1. /\ worker.pc = "recordAcl" /\ worker.pc \in Recording /\ worker.pc \in Holding
      /\ UNCHANGED <<s3, released, made>> /\ Update(inst, "configureRest", "nonRetryable")
  BY DEF RecordAcl, Recording, Holding
<1>2. CASE UNCHANGED <<Objects, Open, made, recorded, released>>
  BY <1>2, Stutter
<1>3. CASE StatusWritten(k)
  <2>1. /\ o.status.arn = o.spec.bucket
        /\ inst.status = [o.status EXCEPT !.acl = o.spec.acl]
    BY <1>1, <1>3 DEF Sync, Agrees, StatusWritten, inst
  <2>2. k \in Keys /\ Objects[k].spec = o.spec /\ Objects[k].status = o.status
    BY <1>3, ObjectFields DEF StatusWritten
  <2>3. recorded' = recorded
    <3>1. <<k, inst.spec.bucket>> \in recorded
      <4>1. Known(k, inst, recorded) /\ inst.status.arn = inst.spec.bucket
        BY <1>1 DEF Ownership, CallInv, Placed, inst
      <4>2. inst.spec.bucket # NONE
        BY AtCall, ConstantsAssumption DEF ConstantsAssumption
      <4> QED BY <4>1, <4>2 DEF Known
    <3> QED BY <1>3, <3>1 DEF StatusWritten
  <2>4. Objects' = [Objects EXCEPT ![k].status.acl = Objects[k].spec.acl]
    <3>1. Objects' = [Objects EXCEPT ![k].status =
                        [Objects[k].status EXCEPT !.acl = Objects[k].spec.acl]]
      BY <1>3, <2>1, <2>2 DEF StatusWritten
    <3>2. /\ k \in Keys /\ DOMAIN Objects = Keys
          /\ Objects[k] \in [phase : {"absent", "live", "terminating"},
                             finalizer : BOOLEAN, spec : Specs, status : Statuses]
      BY <1>3, ObjectFields DEF StatusWritten, Objects, Visible, Versions
    <3> QED BY <3>1, <3>2
  <2>5. /\ Lifecycle!LiveAndHeld(k)
        /\ Objects[k].status.arn = Objects[k].spec.bucket
        /\ UNCHANGED <<Open, made, released>>
    BY <1>3, <2>1, <2>2 DEF StatusWritten
  <2>6. Lifecycle!ObserveAcl(k)
    BY <1>3, <2>3, <2>4, <2>5
    DEF Lifecycle!ObserveAcl, StatusWritten, Objects, Open, Mistaken
  <2> QED BY <2>2, <2>6 DEF Simulated, Lifecycle!Next
<1> QED BY <1>1, <1>2, <1>3, StatusUpdate

LEMMA RemoveFinalizerSimulated ==
  IInv /\ Ownership /\ Sync /\ RemoveFinalizer => Simulated
<1> SUFFICES ASSUME IInv, Ownership, Sync, RemoveFinalizer PROVE Simulated
  OBVIOUS
<1> DEFINE k == worker.key
           v == [inst EXCEPT !.finalizer = FALSE]
           p == Persisted(k, v)
<1>1. /\ worker.pc = "removeFinalizer" /\ worker.pc \in Reading /\ worker.pc # "idle"
      /\ UNCHANGED <<s3, released, made>>
      /\ Update(v, "done", "requeue")
  BY DEF RemoveFinalizer, Reading, Deleting, Recording
<1>2. /\ inst \in Versions /\ inst.phase = "terminating" /\ inst.finalizer
      /\ Known(k, inst, recorded)
  BY <1>1, AtCall DEF IInv, InstanceInv, Ownership, CallInv, Holding, Deleting, inst
<1>3. /\ v \in Versions /\ v.rv = inst.rv /\ v.phase = "terminating"
      /\ v.finalizer = FALSE /\ v.spec = inst.spec /\ v.status = inst.status
  BY <1>2 DEF Versions
<1>4. Open' = Open
  BY <1>1 DEF Open
<1> HIDE DEF v
<1>5. CASE UNCHANGED <<versions, recorded>>
  BY <1>1, <1>4, <1>5, Stutter DEF Objects, Stored
<1>6. CASE Written(k, v)
  <2>1. /\ inst.spec = Stored(k).spec /\ inst.status = Stored(k).status
        /\ MayRelease(k, Stored(k), released)
    BY <1>1, <1>6 DEF Sync, Agrees, Written, inst
  <2>2. recorded' = recorded
    BY <1>2, <1>3, <1>6 DEF Store, Known, Written
  <2>3. v # Stored(k)
    BY <1>2, <1>3, <1>6 DEF Written
  <2>4. /\ p \in Versions /\ p.phase = "absent" /\ p.finalizer = FALSE
        /\ p.spec = v.spec /\ p.status = v.status
    <3>1. p \in Versions
      BY <1>3, <1>6, PersistedVersion DEF Written, IInv
    <3>2. p = [v EXCEPT !.rv = v.rv + 1, !.phase = "absent"]
      BY <1>3, <2>3 DEF Persisted
    <3> HIDE DEF p
    <3> QED BY <1>3, <3>1, <3>2 DEF Versions
  <2>5. Visible(p) = [Visible(Stored(k)) EXCEPT !.phase = "absent", !.finalizer = FALSE]
    <3> HIDE DEF p
    <3> DEFINE o == Visible(Stored(k))
               w == [o EXCEPT !.phase = "absent", !.finalizer = FALSE]
    <3>1. o \in ObjectType /\ o.spec = v.spec /\ o.status = v.status
      BY <1>3, <1>6, <2>1, VisibleType, VersionsType DEF Written, IInv
    <3> HIDE DEF o
    <3>2. /\ w \in ObjectType /\ w.phase = "absent" /\ w.finalizer = FALSE
          /\ w.spec = v.spec /\ w.status = v.status
      BY <3>1, Freed
    <3> HIDE DEF w
    <3>3. /\ Visible(p) \in ObjectType /\ Visible(p).phase = p.phase
          /\ Visible(p).finalizer = p.finalizer
          /\ Visible(p).spec = p.spec /\ Visible(p).status = p.status
      BY <2>4, VisibleType
    <3>4. Visible(p).finalizer = w.finalizer
      BY <2>4, <3>2, <3>3, Zenon
    <3>5. Visible(p) = w
      BY <2>4, <3>2, <3>3, <3>4, SameObject, Zenon
    <3> QED BY <3>5 DEF o, w
  <2>6. /\ Objects' = [Objects EXCEPT ![k].phase = "absent", ![k].finalizer = FALSE]
        /\ Objects[k].phase = "terminating" /\ Objects[k].finalizer
        /\ \/ Objects[k].spec.deleteStrategy = "Skip"
           \/ Objects[k].status.arn = NONE
           \/ k \in released
    <3>1. /\ Objects[k] = Visible(Stored(k)) /\ DOMAIN Objects = Keys /\ k \in Keys
          /\ Objects[k].phase = Stored(k).phase
          /\ Objects[k].finalizer = Stored(k).finalizer
          /\ Objects[k].spec = Stored(k).spec /\ Objects[k].status = Stored(k).status
      BY <1>6, ObjectFields DEF Written, Objects
    <3>2. Objects' = [Objects EXCEPT ![k] = [Objects[k] EXCEPT !.phase = "absent",
                                                               !.finalizer = FALSE]]
      BY <1>6, <2>5, <3>1 DEF Written
    <3>3. Objects[k] \in ObjectType
      BY <1>6, <3>1, ObjectFields, VisibleType DEF Written
    <3>4. Objects' = [Objects EXCEPT ![k].phase = "absent", ![k].finalizer = FALSE]
      BY <3>1, <3>2, <3>3 DEF ObjectType
    <3> QED BY <1>2, <1>6, <2>1, <3>1, <3>4 DEF Written, MayRelease
  <2>7. Lifecycle!Release(k)
    BY <1>1, <1>4, <1>6, <2>2, <2>6
    DEF Lifecycle!Release, Written, Objects, Open, Mistaken
  <2> QED BY <1>6, <2>7 DEF Simulated, Lifecycle!Next, Written
<1> QED BY <1>1, <1>3, <1>5, <1>6, UpdateWrites

(* The buckets.                                                            *)
LEMMA OpenAfter ==
  ASSUME TypeCore, NEW b, NEW x
  PROVE  /\ s3' = [s3 EXCEPT ![b].acl = x] => Open' = Open
         /\ s3' = [s3 EXCEPT ![b].objects = x] => Open' = Open
         /\ s3' = [s3 EXCEPT ![b] = NoBucket] => Open' = Open \ {b}
         /\ b \in Buckets =>
              \A spec : s3' = [s3 EXCEPT ![b] = NewBucket(spec, x)] =>
                Open' = Open \cup {b}
<1>1. s3 \in [Buckets -> BucketStates]
  BY DEF TypeCore
<1>2. \A c \in Buckets : s3[c] \in BucketStates
  BY <1>1
<1>3. ASSUME s3' = [s3 EXCEPT ![b].acl = x] PROVE Open' = Open
  <2>1. \A c \in Buckets : s3'[c].exists = s3[c].exists
    BY <1>1, <1>2, <1>3 DEF BucketStates
  <2> QED BY <2>1 DEF Open
<1>4. ASSUME s3' = [s3 EXCEPT ![b].objects = x] PROVE Open' = Open
  <2>1. \A c \in Buckets : s3'[c].exists = s3[c].exists
    BY <1>1, <1>2, <1>4 DEF BucketStates
  <2> QED BY <2>1 DEF Open
<1>5. ASSUME s3' = [s3 EXCEPT ![b] = NoBucket] PROVE Open' = Open \ {b}
  <2>1. \A c \in Buckets : s3'[c] = IF c = b THEN NoBucket ELSE s3[c]
    BY <1>1, <1>5
  <2>2. ~NoBucket.exists
    BY DEF NoBucket
  <2> QED BY <2>1, <2>2 DEF Open
<1>6. ASSUME b \in Buckets, NEW spec, s3' = [s3 EXCEPT ![b] = NewBucket(spec, x)]
      PROVE  Open' = Open \cup {b}
  <2>1. \A c \in Buckets : s3'[c] = IF c = b THEN NewBucket(spec, x) ELSE s3[c]
    BY <1>1, <1>6
  <2>2. NewBucket(spec, x).exists
    BY DEF NewBucket
  <2> QED BY <1>6, <2>1, <2>2 DEF Open
<1> QED BY <1>3, <1>4, <1>5, <1>6

LEMMA BucketStep ==
  ASSUME NEW k \in Keys, NEW b \in Buckets, Lifecycle!Make(k, b) \/ Lifecycle!Vacate(k, b)
  PROVE  Simulated
  BY DEF Simulated, Lifecycle!Next

(* The worker works for the same key, with the same instance or another.   *)
LEMMA StillMistaken ==
  ASSUME worker'.key = worker.key, worker'.rewound = worker.rewound
  PROVE  Mistaken' = Mistaken
  BY DEF Mistaken

LEMMA CreateBucketSimulated == IInv /\ CreateBucket => Simulated
<1> SUFFICES ASSUME IInv, CreateBucket PROVE Simulated
  OBVIOUS
<1> DEFINE k == worker.key
           b == inst.spec.bucket
<1>1. /\ worker.pc \in Provisioning /\ worker.pc # "idle"
      /\ UNCHANGED <<versions, recorded, released>>
  BY DEF CreateBucket, Provisioning
<1>2. k \in Keys /\ b \in Buckets /\ Objects' = Objects
  BY <1>1, AtCall DEF Objects, Stored
<1>3. CASE UNCHANGED <<s3, made>>
  BY <1>1, <1>2, <1>3, Stutter DEF Open
<1>4. CASE /\ Creatable(inst.spec)
           /\ s3' = [s3 EXCEPT ![b] = NewBucket(inst.spec, k)]
           /\ made' = made \cup {<<k, b>>}
  <2>1. Lifecycle!Held(k) \/ k \in Mistaken
    <3>1. CASE worker.rewound
      BY <1>2, <3>1 DEF Mistaken
    <3>2. CASE ~worker.rewound
      <4>1. Read(inst, versions[k], worker.rewound) /\ LiveGuarded(inst)
        BY <1>1 DEF IInv, InstanceInv
      <4>2. Stored(k).phase # "absent" /\ Stored(k).finalizer
        BY <3>2, <4>1 DEF Read, Guarded, Stored, LastOf
      <4> QED BY <1>2, <4>2, ObjectFields DEF Lifecycle!Held, Objects
    <3> QED BY <3>1, <3>2
  <2>2. b \notin Open /\ Open' = Open \cup {b}
    BY <1>2, <1>4, OpenAfter DEF Open, Creatable, IInv
  <2>3. Mistaken' = Mistaken
    <3>1. worker \in Workers
      BY DEF IInv, TypeCore
    <3>2. worker'.key = worker.key /\ worker'.rewound = worker.rewound
      BY <3>1 DEF CreateBucket, AnswerLost, GoTo, Workers
    <3> QED BY <3>2, StillMistaken
  <2>4. PICK i \in Keys, c \in Buckets : i = k /\ c = b
    BY <1>2
  <2>5. Lifecycle!Make(i, c)
    BY <1>1, <1>2, <1>4, <2>1, <2>2, <2>3, <2>4
    DEF Lifecycle!Make, Lifecycle!Held, Objects, Open, Mistaken
  <2> QED BY <2>5, BucketStep
<1> QED BY <1>3, <1>4 DEF CreateBucket

LEMMA DeleteSimulated ==
  IInv /\ Ownership /\ (DeleteBucket \/ EmptyBucket \/ DeleteEmptied) => Simulated
<1> SUFFICES ASSUME IInv, Ownership, DeleteBucket \/ EmptyBucket \/ DeleteEmptied
             PROVE  Simulated
  OBVIOUS
<1> DEFINE k == worker.key
           b == inst.status.arn
<1>1. /\ worker.pc \in WritesToOwned /\ worker.pc \in Holding /\ worker.pc # "idle"
      /\ UNCHANGED <<versions, recorded, made>>
  BY DEF DeleteBucket, EmptyBucket, DeleteEmptied, WritesToOwned, Holding
<1>2. k \in Keys /\ Objects' = Objects
  BY <1>1, AtCall DEF Objects, Stored
<1>3. b \in Buckets /\ <<k, b>> \in recorded
  <2>1. Known(k, inst, recorded) /\ b # NONE
    BY <1>1 DEF Ownership, CallInv, inst
  <2>2. b \in Buckets \cup {NONE}
    BY AtCall DEF Statuses
  <2> QED BY <2>1, <2>2 DEF Known
<1>4. \/ UNCHANGED <<s3, released>>
      \/ s3' = [s3 EXCEPT ![b].objects = FALSE] /\ UNCHANGED released
      \/ /\ s3' = [s3 EXCEPT ![b] = NoBucket] \/ (~Owned.exists /\ UNCHANGED s3)
         /\ released' = released \cup {k}
  BY DEF DeleteBucket, EmptyBucket, DeleteEmptied, BucketIsDeleted
<1>5. CASE UNCHANGED <<s3, released>>
  BY <1>1, <1>2, <1>5, Stutter DEF Open
<1>6. CASE s3' = [s3 EXCEPT ![b].objects = FALSE] /\ UNCHANGED released
  BY <1>1, <1>2, <1>6, Stutter, OpenAfter DEF IInv
<1>7. CASE /\ s3' = [s3 EXCEPT ![b] = NoBucket] \/ (~Owned.exists /\ UNCHANGED s3)
           /\ released' = released \cup {k}
  <2>1. Open' = Open \ {b}
    BY <1>7, OpenAfter DEF Open, Owned, IInv
  <2>2. PICK i \in Keys, c \in Buckets : i = k /\ c = b
    BY <1>2, <1>3
  <2>3. Mistaken' = Mistaken
    <3>1. worker \in Workers
      BY DEF IInv, TypeCore
    <3>2. worker'.key = worker.key /\ worker'.rewound = worker.rewound
      BY <3>1
      DEF DeleteBucket, EmptyBucket, DeleteEmptied, BucketIsDeleted, AnswerLost,
          GoTo, Workers
    <3> QED BY <3>2, StillMistaken
  <2>4. Lifecycle!Vacate(i, c)
    BY <1>1, <1>2, <1>3, <1>7, <2>1, <2>2, <2>3
    DEF Lifecycle!Vacate, Objects, Open, Mistaken
  <2> QED BY <2>4, BucketStep
<1> QED BY <1>4, <1>5, <1>6, <1>7

LEMMA WorkerStepSimulated == IInv /\ Ownership /\ Sync /\ WorkerStep => Simulated
<1> SUFFICES ASSUME IInv, Ownership, Sync, WorkerStep PROVE Simulated
  OBVIOUS
<1>1. CASE \/ TakeKey \/ HeadBucket \/ GetBucketLocation \/ ConfigureTagsAndPolicy
           \/ ConfigureRest \/ FinishItem
  <2>1. UNCHANGED <<versions, s3, made, recorded, released>>
    BY <1>1 DEF TakeKey, HeadBucket, GetBucketLocation, ConfigureTagsAndPolicy,
                ConfigureRest, Configuring, FinishItem
  <2> QED BY <2>1, Stutter DEF Objects, Stored, Open
<1>2. CASE PutBucketAcl
  <2>1. /\ UNCHANGED <<versions, made, recorded, released>>
        /\ \/ UNCHANGED s3
           \/ s3' = [s3 EXCEPT ![inst.spec.bucket].acl = inst.spec.acl]
    BY <1>2 DEF PutBucketAcl
  <2>2. Open' = Open
    BY <2>1, OpenAfter DEF IInv, Open
  <2> QED BY <2>1, <2>2, Stutter DEF Objects, Stored
<1> QED BY <1>1, <1>2, AddFinalizerSimulated, RecordCreatedSimulated,
           RecordAcquiredSimulated, RecordAclSimulated, RemoveFinalizerSimulated,
           CreateBucketSimulated, DeleteSimulated DEF WorkerStep

-----------------------------------------------------------------------------
(* The environment.                                                        *)

LEMMA StoredKnown ==
  ASSUME IInv, Ownership, NEW k \in Keys
  PROVE  Known(k, Stored(k), recorded)
<1>1. /\ Len(versions[k]) \in 1..Len(versions[k])
      /\ Stored(k) = versions[k][Len(versions[k])]
  BY VersionsType DEF IInv, LastOf
<1> QED BY <1>1 DEF Ownership, VersionsKnown

LEMMA UserStep ==
  ASSUME NEW k \in Keys,
         \/ Lifecycle!RequestDeletion(k)
         \/ \E spec \in Specs : Lifecycle!Create(k, spec) \/ Lifecycle!Edit(k, spec)
  PROVE  Simulated
  BY DEF Simulated, Lifecycle!Next, Lifecycle!Specs, Specs

LEMMA UserCreateSimulated ==
  ASSUME IInv, NEW k \in Keys, NEW spec \in Specs, UserCreate(k, spec)
  PROVE  Simulated
<1> DEFINE v == [rv |-> Stored(k).rv + 1, phase |-> "live", finalizer |-> FALSE,
                 spec |-> spec, status |-> NoStatus]
<1>1. /\ Stored(k).phase = "absent" /\ Store(k, v)
      /\ UNCHANGED <<s3, worker, released, made>>
  BY DEF UserCreate
<1>2. recorded' = recorded
  BY <1>1 DEF Store, NoStatus
<1>3. Visible(v) = [phase |-> "live", finalizer |-> FALSE, spec |-> spec,
                    status |-> NoStatus]
  BY DEF Visible
<1> HIDE DEF v
<1>4. /\ Objects' = [Objects EXCEPT ![k] =
                       [phase |-> "live", finalizer |-> FALSE, spec |-> spec,
                        status |-> NoStatus]]
      /\ Objects[k].phase = "absent"
  BY <1>1, <1>3, ObjectsAfter, ObjectFields DEF IInv
<1>5. Open' = Open
  BY <1>1 DEF Open
<1>6. Lifecycle!Create(k, spec)
  BY <1>1, <1>2, <1>4, <1>5
  DEF Lifecycle!Create, Lifecycle!NoStatus, NoStatus, Objects, Open,
      Mistaken
<1> QED BY <1>6, UserStep

LEMMA UserEditSimulated ==
  ASSUME IInv, Ownership, NEW k \in Keys, NEW spec \in Specs, UserEdit(k, spec)
  PROVE  Simulated
<1> DEFINE o == Stored(k)
           r == o.rv + 1
           v == [o EXCEPT !.rv = r, !.spec = spec]
<1>1. /\ o.phase # "absent" /\ Store(k, v)
      /\ UNCHANGED <<s3, worker, released, made>>
  BY DEF UserEdit
<1>2. o \in Versions /\ Known(k, o, recorded) /\ r \in Nat
  <2>1. o \in Versions /\ o.rv \in Nat
    BY VersionsType DEF IInv
  <2> QED BY <2>1, StoredKnown
<1> HIDE DEF o, r
<1>3. /\ v \in Versions /\ v.phase = o.phase /\ v.finalizer = o.finalizer
      /\ v.spec = spec /\ v.status = o.status
  BY <1>2 DEF Versions
<1> HIDE DEF v
<1>4. recorded' = recorded
  BY <1>1, <1>2, <1>3 DEF Store, Known
<1>5. Visible(v) = [Visible(o) EXCEPT !.spec = spec]
  <2> DEFINE w == [Visible(o) EXCEPT !.spec = spec]
  <2>1. /\ Visible(o) \in ObjectType /\ Visible(o).phase = o.phase
        /\ Visible(o).finalizer = o.finalizer /\ Visible(o).status = o.status
    BY <1>2, VisibleType
  <2>2. /\ w \in ObjectType /\ w.phase = o.phase /\ w.finalizer = o.finalizer
        /\ w.spec = spec /\ w.status = o.status
    BY <2>1 DEF ObjectType
  <2> HIDE DEF w
  <2>3. /\ Visible(v) \in ObjectType /\ Visible(v).phase = v.phase
        /\ Visible(v).finalizer = v.finalizer
        /\ Visible(v).spec = v.spec /\ Visible(v).status = v.status
    BY <1>3, VisibleType
  <2>4. Visible(v) = w
    BY <1>3, <2>2, <2>3, SameObject, Zenon
  <2> QED BY <2>4 DEF w
<1>6. /\ Objects' = [Objects EXCEPT ![k].spec = spec]
      /\ Objects[k].phase # "absent"
  BY <1>1, <1>5, ObjectsAfter, ObjectFields DEF IInv, o
<1>7. Open' = Open
  BY <1>1 DEF Open
<1>8. Lifecycle!Edit(k, spec)
  BY <1>1, <1>4, <1>6, <1>7 DEF Lifecycle!Edit, Objects, Open, Mistaken
<1> QED BY <1>8, UserStep

LEMMA UserDeleteSimulated ==
  ASSUME IInv, Ownership, NEW k \in Keys, UserDelete(k)
  PROVE  Simulated
<1> DEFINE o == Stored(k)
           ph == IF o.finalizer THEN "terminating" ELSE "absent"
           r == o.rv + 1
           v == [o EXCEPT !.rv = r, !.phase = ph]
<1>1. /\ o.phase = "live" /\ Store(k, v)
      /\ released' = released \ {k} /\ UNCHANGED <<s3, worker, made>>
  BY DEF UserDelete
<1>2. o \in Versions /\ Known(k, o, recorded) /\ r \in Nat
  <2>1. o \in Versions /\ o.rv \in Nat
    BY VersionsType DEF IInv
  <2> QED BY <2>1, StoredKnown
<1>3. ph \in {"absent", "live", "terminating"}
  OBVIOUS
<1> HIDE DEF o, ph, r
<1>4. /\ v \in Versions /\ v.phase = ph /\ v.finalizer = o.finalizer
      /\ v.spec = o.spec /\ v.status = o.status
  BY <1>2, <1>3 DEF Versions
<1> HIDE DEF v
<1>5. recorded' = recorded
  BY <1>1, <1>2, <1>4 DEF Store, Known
<1>6. Visible(v) = [Visible(o) EXCEPT !.phase = ph]
  <2> DEFINE w == [Visible(o) EXCEPT !.phase = ph]
  <2>1. /\ Visible(o) \in ObjectType /\ Visible(o).spec = o.spec
        /\ Visible(o).finalizer = o.finalizer /\ Visible(o).status = o.status
    BY <1>2, VisibleType
  <2>2. /\ w \in ObjectType /\ w.phase = ph /\ w.finalizer = o.finalizer
        /\ w.spec = o.spec /\ w.status = o.status
    BY <1>3, <2>1 DEF ObjectType
  <2> HIDE DEF w
  <2>3. /\ Visible(v) \in ObjectType /\ Visible(v).phase = v.phase
        /\ Visible(v).finalizer = v.finalizer
        /\ Visible(v).spec = v.spec /\ Visible(v).status = v.status
    BY <1>4, VisibleType
  <2>4. Visible(v) = w
    BY <1>4, <2>2, <2>3, SameObject, Zenon
  <2> QED BY <2>4 DEF w
<1>7. /\ Objects' = [Objects EXCEPT ![k].phase = ph]
      /\ Objects[k].phase = "live"
      /\ ph = IF Objects[k].finalizer THEN "terminating" ELSE "absent"
  BY <1>1, <1>6, ObjectsAfter, ObjectFields DEF IInv, o, ph
<1>8. Open' = Open
  BY <1>1 DEF Open
<1>9. Lifecycle!RequestDeletion(k)
  BY <1>1, <1>5, <1>7, <1>8 DEF Lifecycle!RequestDeletion, Objects, Open, Mistaken
<1> QED BY <1>9, UserStep

LEMMA OutsiderSimulated ==
  ASSUME IInv, NEW b \in Buckets,
         OutsiderCreatesBucket(b) \/ OutsiderDeletesBucket(b) \/ OutsiderChangesObjects(b)
  PROVE  Simulated
<1>1. UNCHANGED <<versions, worker, made, recorded, released>>
  BY DEF OutsiderCreatesBucket, OutsiderDeletesBucket, OutsiderChangesObjects, OutsiderActs
<1>2. Objects' = Objects
  BY <1>1 DEF Objects, Stored
<1>3. CASE OutsiderChangesObjects(b)
  BY <1>1, <1>2, <1>3, Stutter, OpenAfter DEF OutsiderChangesObjects, IInv
<1>4. CASE OutsiderCreatesBucket(b) \/ OutsiderDeletesBucket(b)
  <2>1. Open' = IF b \in Open THEN Open \ {b} ELSE Open \cup {b}
    BY <1>4, OpenAfter DEF OutsiderCreatesBucket, OutsiderDeletesBucket, Open, IInv
  <2>2. Lifecycle!OthersChange(b)
    BY <1>1, <1>2, <2>1 DEF Lifecycle!OthersChange, Objects, Open, Mistaken
  <2> QED BY <2>2 DEF Simulated, Lifecycle!Next
<1> QED BY <1>3, <1>4

-----------------------------------------------------------------------------
(* The theorem.                                                            *)

LEMMA InitSimulated == Init => Lifecycle!Init
<1> SUFFICES ASSUME Init PROVE Lifecycle!Init
  OBVIOUS
<1>1. NeverCreated \in Versions
  BY NeverCreatedType
<1>2. \A k \in Keys : Stored(k) = NeverCreated
  BY DEF Init, Stored
<1>3. Objects \in [Keys -> [phase : {"absent"}, finalizer : {FALSE},
                            spec : Specs, status : {NoStatus}]]
  <2>1. Visible(NeverCreated) \in [phase : {"absent"}, finalizer : {FALSE},
                                   spec : Specs, status : {NoStatus}]
    <3>1. NeverCreated.spec \in Specs
      BY <1>1 DEF Versions
    <3>2. Visible(NeverCreated) = [phase |-> "absent", finalizer |-> FALSE,
                                   spec |-> NeverCreated.spec, status |-> NoStatus]
      BY DEF Visible, NeverCreated
    <3> QED BY <3>1, <3>2
  <2> QED BY <1>2, <2>1 DEF Objects
<1>4. /\ Open = {} /\ made = {} /\ recorded = {} /\ released = {}
      /\ Mistaken = {}
  BY DEF Init, Open, NoBucket, Mistaken, Idle
<1> QED BY <1>3, <1>4
        DEF Lifecycle!Init, Lifecycle!Specs, Lifecycle!NoStatus, Specs, NoStatus,
            Objects, Open, Mistaken

LEMMA NextSimulated ==
  IInv /\ PastInv /\ Ownership /\ Sync /\ [Next]_vars => Simulated
<1> SUFFICES ASSUME IInv, PastInv, Ownership, Sync, [Next]_vars PROVE Simulated
  OBVIOUS
<1>1. CASE WorkerStep
  BY <1>1, WorkerStepSimulated
<1>2. ASSUME UNCHANGED <<s3, made, recorded, released>>,
             \A j \in Keys : Stored(j)' = Stored(j)
      PROVE  Simulated
  <2>1. Objects' = Objects
    BY <1>2 DEF Objects, Visible
  <2>2. Open' = Open
    BY <1>2 DEF Open
  <2> QED BY <1>2, <2>1, <2>2, Stutter
<1>3. CASE \E k \in Keys : Deliver(k) \/ Relist(k)
  <2>1. CacheMoves
    BY <1>3, InformerMoves DEF IInv
  <2> QED BY <1>2, <1>3, <2>1, MovesStored DEF Deliver, Relist
<1>4. CASE \E k \in Keys : Resync(k) \/ Enqueue(k)
  BY <1>2, <1>4 DEF Resync, Enqueue, Stored
<1>5. CASE \E k \in Keys : \/ UserDelete(k)
                           \/ \E spec \in Specs : UserCreate(k, spec) \/ UserEdit(k, spec)
  BY <1>5, UserDeleteSimulated, UserCreateSimulated, UserEditSimulated
<1>6. CASE \E b \in Buckets : \/ OutsiderCreatesBucket(b) \/ OutsiderDeletesBucket(b)
                              \/ OutsiderChangesObjects(b)
  BY <1>6, OutsiderSimulated
<1>7. CASE Crash
  BY <1>2, <1>7, CrashMoves, MovesStored DEF Crash
<1>8. CASE UNCHANGED vars
  BY <1>2, <1>8 DEF vars, Stored
<1> QED BY <1>1, <1>3, <1>4, <1>5, <1>6, <1>7, <1>8 DEF Next, Environment, Others

(* The controller implements the lifecycle: every write it makes to an     *)
(* object is the one an operator would make that saw the object as the API *)
(* server holds it, however stale the instance it was made from, whatever  *)
(* call failed, lost its answer or was cut off by a crash, and however old *)
(* a list the informer got. It makes a bucket only for an object that is   *)
(* there, under our finalizer, unless a list has turned the cache back.    *)
THEOREM Implementation == Spec => ImplementsLifecycle
<1>1. IInv /\ PastInv /\ Ownership /\ Sync /\ [Next]_vars => [Lifecycle!Next]_(Lifecycle!vars)
  BY NextSimulated DEF Simulated
<1> QED BY InitSimulated, <1>1, Invariance, OwnershipInvariance, SyncInvariance, PTL
        DEF Spec, ImplementsLifecycle, Lifecycle!Spec

-----------------------------------------------------------------------------
(* What the lifecycle says of single steps, in the controller's own terms. *)

Adoption(k) ==
  \A b \in Buckets :
    (<<k, b>> \in recorded' /\ <<k, b>> \notin recorded) =>
      <<k, b>> \in made \/ Objects[k].spec.ownershipStrategy = "Acquire"

PlaceKept(k, old, new) ==
  (old.phase # "absent" /\ new.phase # "absent") =>
    /\ old.status.arn \in {NONE, new.status.arn}
    /\ old.status.location \in {NONE, new.status.location}

GoneRightly(k, old, new) ==
  (old.phase = "terminating" /\ new.phase = "absent") =>
    \/ old.spec.deleteStrategy = "Skip"
    \/ old.status.arn = NONE
    \/ k \in released

Lawful ==
  \A k \in Keys :
    /\ Adoption(k)
    /\ PlaceKept(k, Objects[k], Objects'[k])
    /\ GoneRightly(k, Objects[k], Objects'[k])

LEMMA QuietLawful ==
  ASSUME UNCHANGED <<Objects, recorded>>
  PROVE  Lawful
  BY DEF Lawful, Adoption, PlaceKept, GoneRightly

(* One object changes.                                                     *)
LEMMA ChangeLawful ==
  ASSUME NEW j \in Keys, NEW o, Objects' = [Objects EXCEPT ![j] = o],
         recorded' = recorded \/ Adoption(j),
         recorded' \subseteq recorded \cup ({j} \X Buckets),
         PlaceKept(j, Objects[j], o), GoneRightly(j, Objects[j], o)
  PROVE  Lawful
<1> SUFFICES ASSUME NEW k \in Keys
             PROVE  /\ Adoption(k)
                    /\ PlaceKept(k, Objects[k], Objects'[k])
                    /\ GoneRightly(k, Objects[k], Objects'[k])
  BY DEF Lawful
<1>1. Objects'[k] = IF k = j THEN o ELSE Objects[k]
  BY DEF Objects
<1>2. CASE k = j
  BY <1>1, <1>2 DEF Adoption
<1>3. CASE k # j
  BY <1>1, <1>3 DEF Adoption, PlaceKept, GoneRightly
<1> QED BY <1>2, <1>3

LEMMA LifecycleLawful ==
  ASSUME IInv, Simulated
  PROVE  Lawful
<1>1. \A k \in Keys : /\ Objects[k] \in ObjectType
                      /\ Objects[k].spec.bucket \in Buckets
                      /\ Objects[k].spec.region \in Regions
                      /\ Objects[k].status \in Statuses
  BY ObjectFields, VisibleType DEF Versions, Specs
<1>2. CASE UNCHANGED Lifecycle!vars
  BY <1>2, QuietLawful DEF Lifecycle!vars, Objects
<1>3. CASE \/ \E k \in Keys, b \in Buckets : Lifecycle!Make(k, b) \/ Lifecycle!Vacate(k, b)
           \/ \E b \in Buckets : Lifecycle!OthersChange(b)
           \/ Lifecycle!Mislead
  BY <1>3, QuietLawful
  DEF Lifecycle!Make, Lifecycle!Vacate, Lifecycle!OthersChange, Lifecycle!Mislead, Objects
<1>4. ASSUME NEW k \in Keys, NEW spec \in Specs, Lifecycle!Create(k, spec)
      PROVE  Lawful
  <2> DEFINE o == [phase |-> "live", finalizer |-> FALSE, spec |-> spec, status |-> NoStatus]
  <2>1. /\ Objects[k].phase = "absent" /\ recorded' = recorded
        /\ Objects' = [Objects EXCEPT ![k] = o]
    BY <1>4 DEF Lifecycle!Create, Lifecycle!NoStatus, NoStatus, Objects
  <2> HIDE DEF o
  <2> QED BY <2>1, ChangeLawful DEF PlaceKept, GoneRightly
<1>5. ASSUME NEW k \in Keys, NEW spec \in Specs, Lifecycle!Edit(k, spec)
      PROVE  Lawful
  <2> DEFINE o == [Objects[k] EXCEPT !.spec = spec]
  <2>1. /\ Objects[k].phase # "absent" /\ recorded' = recorded
        /\ Objects' = [Objects EXCEPT ![k] = o]
    BY <1>5 DEF Lifecycle!Edit, Objects
  <2>2. o.phase = Objects[k].phase /\ o.status = Objects[k].status
    BY <1>1 DEF ObjectType
  <2> HIDE DEF o
  <2> QED BY <2>1, <2>2, ChangeLawful DEF PlaceKept, GoneRightly
<1>6. ASSUME NEW k \in Keys, Lifecycle!RequestDeletion(k)
      PROVE  Lawful
  <2> DEFINE ph == IF Objects[k].finalizer THEN "terminating" ELSE "absent"
             o == [Objects[k] EXCEPT !.phase = ph]
  <2>1. /\ Objects[k].phase = "live" /\ recorded' = recorded
        /\ Objects' = [Objects EXCEPT ![k] = o]
    BY <1>6 DEF Lifecycle!RequestDeletion, Objects
  <2> HIDE DEF ph
  <2>2. o.status = Objects[k].status
    BY <1>1 DEF ObjectType
  <2> HIDE DEF o
  <2> QED BY <2>1, <2>2, ChangeLawful DEF PlaceKept, GoneRightly
<1>7. ASSUME NEW k \in Keys, Lifecycle!Claim(k)
      PROVE  Lawful
  <2> DEFINE o == [Objects[k] EXCEPT !.finalizer = TRUE]
  <2>1. /\ Objects[k].phase = "live" /\ recorded' = recorded
        /\ Objects' = [Objects EXCEPT ![k] = o]
    BY <1>7 DEF Lifecycle!Claim, Objects
  <2>2. o.status = Objects[k].status
    BY <1>1 DEF ObjectType
  <2> HIDE DEF o
  <2> QED BY <2>1, <2>2, ChangeLawful DEF PlaceKept, GoneRightly
<1>8. ASSUME NEW k \in Keys, Lifecycle!Own(k)
      PROVE  Lawful
  <2> DEFINE s == [arn |-> Objects[k].spec.bucket, location |-> Objects[k].spec.region,
                   acl |-> Objects[k].spec.acl]
             o == [Objects[k] EXCEPT !.status = s]
  <2>1. /\ Objects[k].phase = "live"
        /\ <<k, Objects[k].spec.bucket>> \in made
        /\ Objects[k].status.arn \in {NONE, Objects[k].spec.bucket}
        /\ Objects[k].status.location \in {NONE, Objects[k].spec.region}
        /\ recorded' = recorded \cup {<<k, Objects[k].spec.bucket>>}
        /\ Objects' = [Objects EXCEPT ![k] = o]
    BY <1>8 DEF Lifecycle!Own, Lifecycle!LiveAndHeld, Lifecycle!Places, Objects
  <2>2. /\ o.status = s /\ s.arn = Objects[k].spec.bucket
        /\ s.location = Objects[k].spec.region
    BY <1>1 DEF ObjectType
  <2> HIDE DEF o, s
  <2>3. Adoption(k) /\ recorded' \subseteq recorded \cup ({k} \X Buckets)
    BY <1>1, <2>1 DEF Adoption
  <2>4. PlaceKept(k, Objects[k], o) /\ GoneRightly(k, Objects[k], o)
    BY <2>1, <2>2 DEF PlaceKept, GoneRightly
  <2> QED BY <2>1, <2>3, <2>4, ChangeLawful
<1>9. ASSUME NEW k \in Keys, Lifecycle!Adopt(k)
      PROVE  Lawful
  <2>1. PICK l \in {Objects[k].status.location, Objects[k].spec.region} :
          /\ Objects[k].phase = "live" /\ Objects[k].status.arn = NONE
          /\ Objects[k].spec.ownershipStrategy = "Acquire"
          /\ Objects[k].status.location \in {NONE, l}
          /\ recorded' = recorded \cup {<<k, Objects[k].spec.bucket>>}
          /\ Objects' = [Objects EXCEPT ![k].status.arn = Objects[k].spec.bucket,
                                        ![k].status.location = l]
    BY <1>9 DEF Lifecycle!Adopt, Lifecycle!LiveAndHeld, Lifecycle!Places, Objects
  <2> DEFINE s == [Objects[k].status EXCEPT !.arn = Objects[k].spec.bucket, !.location = l]
             o == [Objects[k] EXCEPT !.status = s]
  <2>2. Objects' = [Objects EXCEPT ![k] = o]
    <3>1. DOMAIN Objects = Keys
      BY DEF Objects
    <3> QED BY <1>1, <2>1, <3>1 DEF ObjectType
  <2>3. o.status = s /\ s.location = l
    BY <1>1 DEF ObjectType, Statuses
  <2> HIDE DEF o, s
  <2>4. Adoption(k) /\ recorded' \subseteq recorded \cup ({k} \X Buckets)
    BY <1>1, <2>1 DEF Adoption
  <2>5. PlaceKept(k, Objects[k], o) /\ GoneRightly(k, Objects[k], o)
    BY <2>1, <2>3 DEF PlaceKept, GoneRightly
  <2> QED BY <2>2, <2>4, <2>5, ChangeLawful
<1>10. ASSUME NEW k \in Keys, Lifecycle!ObserveAcl(k)
       PROVE  Lawful
  <2> DEFINE s == [Objects[k].status EXCEPT !.acl = Objects[k].spec.acl]
             o == [Objects[k] EXCEPT !.status = s]
  <2>1. /\ Objects[k].phase = "live" /\ recorded' = recorded
        /\ Objects' = [Objects EXCEPT ![k].status.acl = Objects[k].spec.acl]
    BY <1>10 DEF Lifecycle!ObserveAcl, Lifecycle!LiveAndHeld, Objects
  <2>2. Objects' = [Objects EXCEPT ![k] = o]
    <3>1. DOMAIN Objects = Keys
      BY DEF Objects
    <3> QED BY <1>1, <2>1, <3>1 DEF ObjectType
  <2>3. /\ o.status = s /\ s.arn = Objects[k].status.arn
        /\ s.location = Objects[k].status.location
    BY <1>1 DEF ObjectType, Statuses
  <2> HIDE DEF o, s
  <2>4. PlaceKept(k, Objects[k], o) /\ GoneRightly(k, Objects[k], o)
    BY <2>1, <2>3 DEF PlaceKept, GoneRightly
  <2> QED BY <2>1, <2>2, <2>4, ChangeLawful
<1>11. ASSUME NEW k \in Keys, Lifecycle!Release(k)
       PROVE  Lawful
  <2> DEFINE o == [Objects[k] EXCEPT !.phase = "absent", !.finalizer = FALSE]
  <2>1. /\ recorded' = recorded
        /\ \/ Objects[k].spec.deleteStrategy = "Skip"
           \/ Objects[k].status.arn = NONE
           \/ k \in released
        /\ Objects' = [Objects EXCEPT ![k].phase = "absent", ![k].finalizer = FALSE]
    BY <1>11 DEF Lifecycle!Release, Objects
  <2>2. Objects' = [Objects EXCEPT ![k] = o]
    <3>1. DOMAIN Objects = Keys
      BY DEF Objects
    <3> QED BY <1>1, <2>1, <3>1 DEF ObjectType
  <2>3. o.phase = "absent"
    BY <1>1 DEF ObjectType
  <2> HIDE DEF o
  <2> QED BY <2>1, <2>2, <2>3, ChangeLawful DEF PlaceKept, GoneRightly
<1> QED BY <1>2, <1>3, <1>4, <1>5, <1>6, <1>7, <1>8, <1>9, <1>10, <1>11
        DEF Simulated, Lifecycle!Next, Lifecycle!Specs, Specs

(* Every step writes to the objects what the specification of them allows. *)
THEOREM StepsLawful == Spec => [][Lawful]_vars
<1>1. IInv /\ PastInv /\ Ownership /\ Sync /\ [Next]_vars => [Lawful]_vars
  BY NextSimulated, LifecycleLawful
<1> QED BY <1>1, Invariance, OwnershipInvariance, SyncInvariance, PTL DEF Spec

LEMMA StoredFields ==
  ASSUME NEW k \in Keys
  PROVE  LET old == Stored(k)
             new == versions'[k][Len(versions'[k])]
         IN  /\ Objects[k].phase = old.phase /\ Objects'[k].phase = new.phase
             /\ Objects[k].spec = old.spec
             /\ Objects[k].status = old.status /\ Objects'[k].status = new.status
<1>1. Objects[k] = Visible(Stored(k))
  BY DEF Objects
<1>2. Objects'[k] = Visible(versions'[k][Len(versions'[k])])
  BY DEF Objects, Stored, Visible
<1> QED BY <1>1, <1>2 DEF Visible

(* An ARN is stored only for a bucket the operator made for the object, or *)
(* while the stored object asks for Acquire.                               *)
THEOREM AdoptsOnRequest == Spec => AdoptionOnlyOnRequest
<1> DEFINE A == \A k \in Keys, b \in Buckets :
                  (<<k, b>> \in recorded' /\ <<k, b>> \notin recorded) =>
                    \/ <<k, b>> \in made
                    \/ Stored(k).spec.ownershipStrategy = "Acquire"
<1>1. [Lawful]_vars => [A]_vars
  BY StoredFields DEF Lawful, Adoption
<1> QED BY <1>1, StepsLawful, PTL DEF AdoptionOnlyOnRequest

(* The ARN and the location of an object never change once they are set.   *)
THEOREM PlacesFinal == Spec => RecordedPlaceIsFinal
<1> DEFINE A == \A k \in Keys :
                  LET old == Stored(k)
                      new == versions'[k][Len(versions'[k])]
                  IN  (old.phase # "absent" /\ new.phase # "absent") =>
                        /\ old.status.arn \in {NONE, new.status.arn}
                        /\ old.status.location \in {NONE, new.status.location}
<1>1. [Lawful]_vars => [A]_vars
  BY StoredFields DEF Lawful, PlaceKept
<1> QED BY <1>1, StepsLawful, PTL DEF RecordedPlaceIsFinal

(* An object under deletion goes only as the strategy stored at that       *)
(* moment allows.                                                          *)
THEOREM DeletionLawful == Spec => DeletionHonoursStrategy
<1> DEFINE A == \A k \in Keys :
                  (/\ Stored(k).phase = "terminating"
                   /\ versions'[k][Len(versions'[k])].phase = "absent") =>
                    \/ Stored(k).spec.deleteStrategy = "Skip"
                    \/ Stored(k).status.arn = NONE
                    \/ k \in released
<1>1. [Lawful]_vars => [A]_vars
  BY StoredFields DEF Lawful, GoneRightly
<1> QED BY <1>1, StepsLawful, PTL DEF DeletionHonoursStrategy
=============================================================================
