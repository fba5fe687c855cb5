-------------------------- MODULE ForceDelete_proof --------------------------
(***************************************************************************)
(* Proofs about ForceDelete, for every set of objects, every size of pages *)
(* and batches and every bound of the environment.                         *)
(***************************************************************************)
EXTENDS ForceDelete, FiniteSetTheorems, TLAPS

-----------------------------------------------------------------------------
(* The inductive invariant.                                                *)

Passing == {"next", "deleteBatch", "flush"}

(* Everything listed so far lies before the marker, and what was sent is   *)
(* neither waiting in the page nor in the batch.                           *)
MarkerInv ==
  /\ \A o \in sent \cup input \cup page : o <= marker
  /\ (page \cup input) \cap sent = {}
  /\ page \cap input = {}

(* Unless something failed, an object that was there at the start is in    *)
(* the page or in the batch, or the pages to come will list it.            *)
CoverInv ==
  (exists /\ ~failed) =>
    \A o \in objects \ fresh : o \in page \cup input \/ (more /\ o > marker)

BatchInv ==
  /\ pc \in {"next", "flush"} => Cardinality(input) < BatchSize
  /\ pc = "deleteBatch" => Cardinality(input) = BatchSize
  /\ pc \notin Passing => input = {}

IInv ==
  /\ TypeOK /\ MarkerInv /\ BatchInv
  /\ pc \in Passing => CoverInv
  /\ pc = "flush" => page = {} /\ (failed \/ ~more)
  /\ SuccessLeavesOnlyNewObjects

-----------------------------------------------------------------------------
(* The model's operators.                                                  *)

LEMMA Finite ==
  ASSUME NEW S \in SUBSET Objects
  PROVE  IsFiniteSet(S) /\ Cardinality(S) \in Nat
  BY FS_Subset, FS_CardinalityType, ConstantsAssumption DEF ConstantsAssumption

(* The objects of the bucket are what they were, but for those S.          *)
LEMMA Deleted ==
  ASSUME TypeOK, NEW S \in SUBSET Objects, DeletedFromBucket(S)
  PROVE  /\ objects' = objects \ S /\ objects' \subseteq Objects
         /\ behind' \subseteq Objects
         /\ exists' = exists /\ versioned' = versioned
  BY DEF DeletedFromBucket, TypeOK

LEMMA FaultType ==
  ASSUME TypeOK, Fault
  PROVE  spent' \in [puts : 0..MaxPuts, faults : 0..MaxFaults]
<1>1. spent.faults + 1 \in 0..MaxFaults
  BY ConstantsAssumption DEF Fault, TypeOK, ConstantsAssumption
<1> QED BY <1>1 DEF Fault, TypeOK

-----------------------------------------------------------------------------
(* One lemma per action of the worker.                                     *)

LEMMA DeleteBucketInv == IInv /\ DeleteBucket => IInv'
<1> SUFFICES ASSUME IInv, DeleteBucket PROVE IInv'
  OBVIOUS
<1>1. pc = "deleteBucket" /\ input = {}
  BY DEF DeleteBucket, IInv, BatchInv, Passing
<1>2. CASE ~exists /\ GoTo("gone") /\ UNCHANGED <<bucket, pass, fresh, spent>>
  BY <1>1, <1>2 DEF IInv, TypeOK, MarkerInv, BatchInv, GoTo, bucket, pass, PCs,
     Passing, SuccessLeavesOnlyNewObjects
<1>3. CASE /\ exists /\ Deletable /\ exists' = FALSE
           /\ UNCHANGED <<versioned, objects, behind, pass, fresh>>
           /\ GoneOrUnanswered
  <2>1. spent' \in [puts : 0..MaxPuts, faults : 0..MaxFaults]
    BY <1>3, FaultType DEF GoneOrUnanswered, IInv, TypeOK
  <2>2. pc' \in {"gone", "failed"}
    BY <1>3 DEF GoneOrUnanswered, GoTo
  <2> QED BY <1>1, <1>3, <2>1, <2>2 DEF IInv, TypeOK, MarkerInv, BatchInv, pass, PCs,
     Passing, SuccessLeavesOnlyNewObjects
<1>4. CASE /\ exists /\ ~Deletable
           /\ StartPass /\ GoTo("next") /\ UNCHANGED <<bucket, spent>>
  <2>1. Cardinality({}) = 0
    BY FS_EmptySet
  <2>2. \A o \in objects : o > 0
    BY ConstantsAssumption DEF IInv, TypeOK, ConstantsAssumption
  <2>3. 0 < BatchSize
    BY ConstantsAssumption DEF ConstantsAssumption
  <2>4. TypeOK' /\ MarkerInv' /\ BatchInv'
    BY <1>4, <2>1, <2>3 DEF IInv, TypeOK, MarkerInv, BatchInv, StartPass, GoTo, bucket,
       PCs, Passing
  <2>5. CoverInv' /\ SuccessLeavesOnlyNewObjects'
    BY <1>4, <2>2 DEF CoverInv, StartPass, GoTo, bucket, SuccessLeavesOnlyNewObjects
  <2> QED BY <1>4, <2>4, <2>5 DEF IInv, GoTo
<1>5. CASE Fault /\ GoTo("failed") /\ UNCHANGED <<bucket, pass, fresh>>
  BY <1>1, <1>5, FaultType DEF IInv, TypeOK, MarkerInv, BatchInv, GoTo, bucket, pass,
     PCs, Passing, SuccessLeavesOnlyNewObjects
<1> QED BY <1>2, <1>3, <1>4, <1>5 DEF DeleteBucket

LEMMA ListObjectsInv == IInv /\ ListObjects => IInv'
<1> SUFFICES ASSUME IInv, ListObjects PROVE IInv'
  OBVIOUS
<1>1. /\ pc = "next" /\ page = {} /\ CoverInv /\ Cardinality(input) < BatchSize
      /\ UNCHANGED <<bucket, input, sent, fresh>>
      /\ TypeOK /\ MarkerInv
  BY DEF ListObjects, IInv, Passing, BatchInv
<1>2. \A o \in Objects : o \in Nat
  BY ConstantsAssumption DEF ConstantsAssumption
<1>3. marker \in Nat
  BY <1>1, <1>2 DEF TypeOK
<1>4. ASSUME NEW last \in Listed(marker), page' = PageUpTo(last),
             more' = (page' # Listed(marker)), marker' = last,
             UNCHANGED <<pc, failed, spent>>
      PROVE  IInv'
  <2>1. /\ last \in Objects /\ last > marker
        /\ page' \subseteq Objects
        /\ \A o \in page' : o > marker /\ o <= last
    BY <1>1, <1>4 DEF Listed, PageUpTo, TypeOK
  <2>2. TypeOK'
    BY <1>1, <1>4, <2>1 DEF TypeOK, bucket
  <2>3. MarkerInv'
    <3>1. \A o \in sent \cup input : o <= marker /\ o \in Nat
      BY <1>1, <1>2 DEF MarkerInv, TypeOK
    <3>2. last \in Nat /\ \A o \in page' : o \in Nat
      BY <1>2, <2>1
    <3>3. \A o \in sent \cup input : o <= last /\ o \notin page'
      BY <1>3, <2>1, <3>1, <3>2
    <3> QED BY <1>1, <1>4, <2>1, <3>3 DEF MarkerInv
  <2>4. CoverInv'
    <3> SUFFICES ASSUME exists, ~failed, NEW o \in objects \ fresh
                 PROVE  o \in page' \cup input \/ (more' /\ o > last)
      BY <1>1, <1>4 DEF CoverInv, bucket
    <3>1. o \in input \/ o > marker
      BY <1>1 DEF CoverInv
    <3>2. CASE o > marker
      <4>1. o \in Listed(marker) /\ o \in Nat /\ last \in Nat
        BY <1>1, <1>2, <2>1, <3>2 DEF Listed, TypeOK
      <4>2. CASE o <= last
        BY <1>4, <4>1, <4>2 DEF PageUpTo
      <4>3. CASE o > last
        <5>1. o \notin page'
          BY <2>1, <4>1, <4>3
        <5> QED BY <1>4, <4>1, <4>3, <5>1
      <4> QED BY <4>1, <4>2, <4>3
    <3> QED BY <3>1, <3>2
  <2> QED BY <1>1, <1>4, <2>2, <2>3, <2>4
          DEF IInv, BatchInv, Passing, SuccessLeavesOnlyNewObjects
<1>5. CASE /\ exists /\ Listed(marker) = {}
           /\ more' = FALSE /\ GoTo("flush")
           /\ UNCHANGED <<marker, page, failed, spent>>
  <2>1. TypeOK' /\ MarkerInv' /\ BatchInv'
    BY <1>1, <1>5 DEF TypeOK, MarkerInv, BatchInv, GoTo, bucket, PCs, Passing
  <2>2. \A o \in objects : ~(o > marker)
    BY <1>5 DEF Listed
  <2>3. CoverInv'
    BY <1>1, <1>5, <2>2 DEF CoverInv, bucket
  <2> QED BY <1>1, <1>5, <2>1, <2>3 DEF IInv, GoTo, SuccessLeavesOnlyNewObjects
<1>6. CASE /\ (~exists /\ UNCHANGED spent) \/ Fault
           /\ failed' = TRUE /\ GoTo("flush")
           /\ UNCHANGED <<marker, more, page>>
  <2>1. spent' \in [puts : 0..MaxPuts, faults : 0..MaxFaults]
    BY <1>1, <1>6, FaultType DEF TypeOK
  <2> QED BY <1>1, <1>6, <2>1 DEF IInv, TypeOK, MarkerInv, BatchInv, CoverInv, GoTo,
      bucket, PCs, Passing, SuccessLeavesOnlyNewObjects
<1> QED BY <1>4, <1>5, <1>6 DEF ListObjects, NextMarker

LEMMA TakeObjectInv == IInv /\ TakeObject => IInv'
<1> SUFFICES ASSUME IInv, TakeObject PROVE IInv'
  OBVIOUS
<1>1. PICK o \in page : page' = page \ {o} /\ input' = input \cup {o}
  BY DEF TakeObject
<1>2. /\ pc = "next" /\ UNCHANGED <<bucket, marker, more, failed, sent, fresh, spent>>
      /\ pc' = IF Full(input') THEN "deleteBatch" ELSE "next"
      /\ TypeOK /\ MarkerInv /\ CoverInv /\ Cardinality(input) < BatchSize
  BY DEF TakeObject, GoTo, IInv, BatchInv, Passing
<1>3. TypeOK' /\ MarkerInv' /\ CoverInv'
  BY <1>1, <1>2 DEF TypeOK, MarkerInv, CoverInv, bucket, PCs
<1>4. /\ Cardinality(input) \in Nat
      /\ Cardinality(input') = Cardinality(input) + 1
  <2>1. IsFiniteSet(input) /\ o \notin input /\ Cardinality(input) \in Nat
    BY <1>2, Finite DEF TypeOK, MarkerInv
  <2> QED BY <1>1, <2>1, FS_AddElement
<1>5. BatchInv'
  BY <1>2, <1>4, ConstantsAssumption DEF BatchInv, Full, Passing, ConstantsAssumption
<1> QED BY <1>2, <1>3, <1>5 DEF IInv, Passing, SuccessLeavesOnlyNewObjects

(* What a batch leaves.                                                    *)
LEMMA SendBatchStep ==
  ASSUME IInv, SendBatch, pc \in Passing
  PROVE  /\ pc' \in PCs => TypeOK'
         /\ MarkerInv' /\ CoverInv' /\ input' = {} /\ UNCHANGED <<page, more>>
         /\ failed => failed'
<1>1. /\ TypeOK /\ MarkerInv /\ CoverInv /\ input' = {} /\ sent' = sent \cup input
      /\ UNCHANGED <<marker, more, page, fresh>>
  BY DEF IInv, SendBatch
<1>2. MarkerInv'
  BY <1>1 DEF MarkerInv
<1>3. CASE exists /\ DeletedFromBucket(input) /\ UNCHANGED <<failed, spent>>
  <2>1. /\ objects' = objects \ input /\ objects' \subseteq Objects
        /\ behind' \subseteq Objects /\ exists' = exists /\ versioned' = versioned
    BY <1>1, <1>3, Deleted DEF TypeOK
  <2> QED BY <1>1, <1>2, <1>3, <2>1 DEF TypeOK, CoverInv
<1>4. CASE exists /\ Fault /\ failed' = TRUE /\ \E S \in SUBSET input : DeletedFromBucket(S)
  <2>1. PICK S \in SUBSET input : DeletedFromBucket(S)
    BY <1>4
  <2>2. S \in SUBSET Objects
    BY <1>1, <2>1 DEF TypeOK
  <2>3. /\ objects' \subseteq Objects /\ behind' \subseteq Objects
        /\ exists' = exists /\ versioned' = versioned
    BY <1>1, <2>1, <2>2, Deleted
  <2>4. spent' \in [puts : 0..MaxPuts, faults : 0..MaxFaults]
    BY <1>1, <1>4, FaultType
  <2> QED BY <1>1, <1>2, <1>4, <2>3, <2>4 DEF TypeOK, CoverInv
<1>5. CASE ~exists /\ failed' = TRUE /\ UNCHANGED <<bucket, spent>>
  BY <1>1, <1>2, <1>5 DEF TypeOK, CoverInv, bucket
<1> QED BY <1>3, <1>4, <1>5 DEF SendBatch

LEMMA DeleteBatchInv == IInv /\ (DeleteFullBatch \/ DeleteLastBatch) => IInv'
<1> SUFFICES ASSUME IInv, DeleteFullBatch \/ DeleteLastBatch PROVE IInv'
  OBVIOUS
<1>1. /\ SendBatch
      /\ \/ pc = "deleteBatch" /\ pc' = "next"
         \/ pc = "flush" /\ pc' = "flush"
  BY DEF DeleteFullBatch, DeleteLastBatch, GoTo
<1>2. pc \in Passing /\ pc' \in PCs
  BY <1>1 DEF Passing, PCs
<1>3. /\ TypeOK' /\ MarkerInv' /\ CoverInv' /\ input' = {} /\ UNCHANGED <<page, more>>
      /\ failed => failed'
  BY <1>1, <1>2, SendBatchStep
<1>4. Cardinality(input') = 0 /\ 0 < BatchSize
  BY <1>3, FS_EmptySet, ConstantsAssumption DEF ConstantsAssumption
<1>5. BatchInv'
  BY <1>1, <1>3, <1>4 DEF BatchInv
<1> QED BY <1>1, <1>3, <1>5 DEF IInv, SuccessLeavesOnlyNewObjects

(* The pass is over: nothing waits any more, so nothing old is left.       *)
LEMMA EndPassInv == IInv /\ (LastPageDone \/ EndPass) => IInv'
<1> SUFFICES ASSUME IInv, LastPageDone \/ EndPass PROVE IInv'
  OBVIOUS
<1>1. /\ UNCHANGED <<bucket, pass, fresh, spent>> /\ pc \in Passing
      /\ TypeOK /\ MarkerInv /\ CoverInv /\ BatchInv
  BY DEF LastPageDone, EndPass, IInv, Passing
<1>2. MarkerInv' /\ CoverInv'
  BY <1>1 DEF MarkerInv, CoverInv, bucket, pass
<1>3. CASE LastPageDone
  BY <1>1, <1>2, <1>3 DEF LastPageDone, GoTo, IInv, TypeOK, BatchInv, Passing, PCs,
     SuccessLeavesOnlyNewObjects, bucket, pass
<1>4. CASE EndPass
  <2>1. /\ pc = "flush" /\ input = {} /\ page = {} /\ (failed \/ ~more)
        /\ pc' = IF failed THEN "failed" ELSE "deleteAgain"
    BY <1>4 DEF EndPass, GoTo, IInv
  <2>2. SuccessLeavesOnlyNewObjects'
    BY <1>1, <2>1 DEF CoverInv, SuccessLeavesOnlyNewObjects, bucket, pass
  <2>3. TypeOK' /\ BatchInv'
    BY <1>1, <2>1 DEF TypeOK, BatchInv, Passing, PCs, bucket, pass
  <2> QED BY <1>2, <2>1, <2>2, <2>3 DEF IInv, Passing
<1> QED BY <1>3, <1>4

LEMMA DeleteAgainInv == IInv /\ (DeleteBucketAgain \/ Retry) => IInv'
<1> SUFFICES ASSUME IInv, DeleteBucketAgain \/ Retry PROVE IInv'
  OBVIOUS
<1>1. /\ UNCHANGED <<versioned, objects, behind, pass, fresh>>
      /\ exists' \in {exists, FALSE}
      /\ pc' \in {"gone", "failed", "deleteBucket"}
      /\ pc \notin Passing
      /\ UNCHANGED spent \/ Fault
  BY DEF DeleteBucketAgain, Retry, GoneOrUnanswered, GoTo, bucket, Passing
<1>2. spent' \in [puts : 0..MaxPuts, faults : 0..MaxFaults]
  BY <1>1, FaultType DEF IInv, TypeOK
<1> QED BY <1>1, <1>2 DEF IInv, TypeOK, MarkerInv, BatchInv, pass, PCs, Passing,
    SuccessLeavesOnlyNewObjects

-----------------------------------------------------------------------------
(* Outsiders, and the theorems.                                            *)

LEMMA OutsidersInv == IInv /\ Outsiders => IInv'
<1> SUFFICES ASSUME IInv, Outsiders PROVE IInv'
  OBVIOUS
<1>1. ASSUME NEW o \in Objects, PutObject(o) PROVE IInv'
  <2>1. spent.puts + 1 \in 0..MaxPuts
    BY <1>1, ConstantsAssumption DEF PutObject, IInv, TypeOK, ConstantsAssumption
  <2>2. spent' \in [puts : 0..MaxPuts, faults : 0..MaxFaults]
    BY <1>1, <2>1 DEF PutObject, IInv, TypeOK
  <2>3. TypeOK'
    BY <1>1, <2>2 DEF PutObject, IInv, TypeOK, pass
  <2> QED BY <1>1, <2>3 DEF PutObject, IInv, MarkerInv, CoverInv, BatchInv, pass,
      SuccessLeavesOnlyNewObjects
<1>2. ASSUME NEW o \in Objects, RemoveObject(o) PROVE IInv'
  <2>1. /\ objects' = objects \ {o} /\ objects' \subseteq Objects
        /\ behind' \subseteq Objects /\ exists' = exists /\ versioned' = versioned
    BY <1>2, Deleted DEF RemoveObject, IInv
  <2> QED BY <1>2, <2>1 DEF RemoveObject, IInv, TypeOK, MarkerInv, CoverInv, BatchInv,
      pass, SuccessLeavesOnlyNewObjects
<1>3. CASE RemoveBucket
  BY <1>3 DEF RemoveBucket, IInv, TypeOK, MarkerInv, CoverInv, BatchInv, pass,
     SuccessLeavesOnlyNewObjects
<1> QED BY <1>1, <1>2, <1>3 DEF Outsiders

LEMMA InitInv == Init => IInv
<1> SUFFICES ASSUME Init PROVE IInv
  OBVIOUS
<1>1. spent \in [puts : 0..MaxPuts, faults : 0..MaxFaults]
  BY ConstantsAssumption DEF Init, ConstantsAssumption
<1>2. TypeOK
  BY <1>1 DEF Init, TypeOK, PCs
<1> QED BY <1>2 DEF Init, IInv, MarkerInv, BatchInv, Passing, SuccessLeavesOnlyNewObjects

LEMMA NextInv == IInv /\ [Next]_vars => IInv'
<1> SUFFICES ASSUME IInv, [Next]_vars PROVE IInv'
  OBVIOUS
<1>1. CASE Worker
  BY <1>1, DeleteBucketInv, ListObjectsInv, TakeObjectInv, DeleteBatchInv, EndPassInv,
     DeleteAgainInv DEF Worker
<1>2. CASE Outsiders
  BY <1>2, OutsidersInv
<1>3. CASE UNCHANGED vars
  BY <1>3 DEF vars, bucket, pass, IInv, TypeOK, MarkerInv, CoverInv, BatchInv,
     SuccessLeavesOnlyNewObjects
<1> QED BY <1>1, <1>2, <1>3 DEF Next

LEMMA Invariance == Spec => []IInv
  BY InitInv, NextInv, PTL DEF Spec

(* The pages, batches and bounds keep their types for every instance.      *)
THEOREM ForceTypeCorrect == Spec => []TypeOK
<1>1. IInv => TypeOK BY DEF IInv
<1> QED BY <1>1, Invariance, PTL

(* deleteBucketObjects reports success only when every object that was in  *)
(* the bucket when it started is gone, for every size of pages and batches *)
(* and whatever is put, removed or fails meanwhile.                        *)
THEOREM ForceLeavesOnlyNew == Spec => []SuccessLeavesOnlyNewObjects
  BY Invariance, PTL DEF IInv

(* A pass asks for the deletion of no object twice.                        *)
THEOREM ForceSendsOnce == Spec => []NoObjectSentTwice
<1>1. IInv => NoObjectSentTwice
  BY DEF IInv, MarkerInv, NoObjectSentTwice
<1> QED BY <1>1, Invariance, PTL

(* No DeleteObjects call gets more keys than the batch size.               *)
THEOREM ForceBatchesBounded == Spec => []BatchWithinLimit
<1>1. IInv => BatchWithinLimit
  <2> SUFFICES ASSUME IInv PROVE BatchWithinLimit
    OBVIOUS
  <2>1. Cardinality(input) \in Nat /\ BatchSize \in Nat /\ Cardinality({}) = 0
    BY Finite, FS_EmptySet, ConstantsAssumption DEF IInv, TypeOK, ConstantsAssumption
  <2> QED BY <2>1 DEF IInv, TypeOK, PCs, BatchInv, Passing, BatchWithinLimit
<1> QED BY <1>1, Invariance, PTL

-----------------------------------------------------------------------------
(* The refinement of S3Deletion.                                           *)

(* Only a bucket that has been versioned has old versions.                 *)
VersionsInv == ~versioned => behind = {}

LEMMA NextVersions == VersionsInv /\ [Next]_vars => VersionsInv'
<1> SUFFICES ASSUME VersionsInv, [Next]_vars PROVE VersionsInv'
  OBVIOUS
<1>1. ASSUME NEW S, DeletedFromBucket(S) PROVE VersionsInv'
  BY <1>1 DEF DeletedFromBucket, VersionsInv
<1>2. CASE UNCHANGED <<versioned, behind>>
  BY <1>2 DEF VersionsInv
<1>3. ASSUME NEW o \in Objects, PutObject(o) PROVE VersionsInv'
  BY <1>3 DEF PutObject, VersionsInv
<1>4. CASE DeleteFullBatch \/ DeleteLastBatch
  <2>1. UNCHANGED bucket \/ \E S \in SUBSET input : DeletedFromBucket(S)
    BY <1>4 DEF DeleteFullBatch, DeleteLastBatch, SendBatch
  <2> QED BY <1>1, <1>2, <2>1 DEF bucket
<1>5. ASSUME NEW o \in Objects, RemoveObject(o) PROVE VersionsInv'
  BY <1>1, <1>5 DEF RemoveObject
<1>6. Worker /\ ~DeleteFullBatch /\ ~DeleteLastBatch => UNCHANGED <<versioned, behind>>
  BY DEF Worker, DeleteBucket, ListObjects, LastPageDone, TakeObject, EndPass,
     DeleteBucketAgain, Retry, bucket
<1>7. RemoveBucket \/ UNCHANGED vars => UNCHANGED <<versioned, behind>>
  BY DEF RemoveBucket, vars, bucket
<1> QED BY <1>2, <1>3, <1>4, <1>5, <1>6, <1>7 DEF Next, Outsiders

(* A call of the pass. When it is the last one, nothing old is left, or    *)
(* something failed.                                                       *)
LEMMA PassSimulated ==
  ASSUME IInv, IInv', VersionsInv', Emptying, pc \in Passing, pc' \in Passing,
         UNCHANGED <<exists, versioned, fresh>>,
         ~exists /\ ~Emptying' => failed'
  PROVE  Deletion!EmptyBucket \/ UNCHANGED Deletion!vars
<1>1. Step = "emptyBucket" /\ exists \in BOOLEAN /\ exists' \in BOOLEAN /\ failed' \in BOOLEAN
  BY DEF Step, Emptying, IInv, TypeOK
<1>2. CASE Emptying'
  <2>1. Step' = "emptyBucket"
    BY <1>2 DEF Step, Emptying
  <2>2. (exists /\ (Emptying \/ ~Deletable))' = (exists /\ (Emptying \/ ~Deletable))
    BY <1>2
  <2> QED BY <1>1, <2>1, <2>2 DEF Deletion!vars
<1>3. CASE ~Emptying'
  <2>1. pc' # "deleteBatch"
    <3>1. pc' = "deleteBatch" => input' # {}
      BY FS_EmptySet, ConstantsAssumption DEF IInv, BatchInv, ConstantsAssumption
    <3> QED BY <1>3, <3>1 DEF Emptying
  <2>2. Step' = IF failed' THEN "failed" ELSE "deleteEmptied"
    BY <1>3, <2>1 DEF Step, Passing
  <2>3. CASE ~exists
    BY <1>1, <1>3, <2>2, <2>3 DEF Deletion!EmptyBucket
  <2>4. CASE exists /\ failed'
    BY <1>1, <2>2, <2>4 DEF Deletion!EmptyBucket
  <2>5. CASE exists /\ ~failed'
    <3>1. page' = {} /\ input' = {} /\ ~more'
      BY <1>3, <2>1, <2>5 DEF Emptying, IInv, Passing
    <3>2. objects' \subseteq fresh
      BY <2>5, <3>1 DEF IInv, CoverInv
    <3>3. ~Deletable' => fresh # {} \/ versioned
      BY <3>2 DEF Deletable, VersionsInv
    <3>4. versioned \in BOOLEAN
      BY DEF IInv, TypeOK
    <3> QED BY <1>1, <1>3, <2>2, <2>5, <3>3, <3>4 DEF Deletion!EmptyBucket
  <2> QED BY <1>1, <2>3, <2>4, <2>5
<1> QED BY <1>2, <1>3

LEMMA CallsSimulated ==
  ASSUME IInv, IInv', VersionsInv',
         ListObjects \/ TakeObject \/ DeleteFullBatch \/ DeleteLastBatch
  PROVE  Deletion!EmptyBucket \/ UNCHANGED Deletion!vars
<1>1. CASE ListObjects
  <2>1. Emptying /\ pc \in Passing /\ pc' \in Passing /\ (~exists => failed')
        /\ UNCHANGED <<exists, versioned, fresh>>
    BY <1>1 DEF ListObjects, Emptying, Passing, GoTo, bucket
  <2> QED BY <2>1, PassSimulated
<1>2. CASE TakeObject
  <2>1. PICK o \in page : input' = input \cup {o}
    BY <1>2 DEF TakeObject
  <2>2. pc = "next" /\ pc' \in {"next", "deleteBatch"} /\ UNCHANGED <<exists, versioned, fresh>>
    BY <1>2 DEF TakeObject, GoTo, bucket
  <2>3. Emptying /\ Emptying' /\ pc \in Passing /\ pc' \in Passing
    BY <2>1, <2>2 DEF Emptying, Passing
  <2> QED BY <2>2, <2>3, PassSimulated
<1>3. CASE DeleteFullBatch \/ DeleteLastBatch
  <2>1. pc \in Passing /\ pc' \in Passing /\ SendBatch
    BY <1>3 DEF DeleteFullBatch, DeleteLastBatch, Passing, GoTo
  <2>2. Emptying
    <3>1. pc = "deleteBatch" => input # {}
      BY FS_EmptySet, ConstantsAssumption DEF IInv, BatchInv, ConstantsAssumption
    <3> QED BY <1>3, <3>1 DEF DeleteFullBatch, DeleteLastBatch, Emptying
  <2>3. UNCHANGED <<exists, versioned, fresh>> /\ (~exists => failed')
    BY <2>1 DEF SendBatch, DeletedFromBucket, bucket
  <2> QED BY <2>1, <2>2, <2>3, PassSimulated
<1> QED BY <1>1, <1>2, <1>3

(* The end of a pass that has made its calls.                              *)
LEMMA EndSimulated ==
  ASSUME IInv, LastPageDone \/ EndPass
  PROVE  UNCHANGED Deletion!vars
<1>1. UNCHANGED <<exists, versioned, objects, behind, page, input, more, failed, fresh>>
  BY DEF LastPageDone, EndPass, bucket, pass
<1>2. (Deletable' <=> Deletable) /\ failed \in BOOLEAN
  BY <1>1 DEF Deletable, IInv, TypeOK
<1>3. CASE LastPageDone
  <2>1. pc = "next" /\ pc' = "flush" /\ page = {} /\ ~more
    BY <1>3 DEF LastPageDone, GoTo
  <2>2. Emptying' <=> Emptying
    BY <1>1, <2>1 DEF Emptying
  <2>3. Step' = Step
    BY <1>1, <2>1, <2>2 DEF Step
  <2> QED BY <1>1, <1>2, <2>2, <2>3 DEF Deletion!vars
<1>4. CASE EndPass
  <2>1. /\ pc = "flush" /\ page = {} /\ input = {}
        /\ pc' = IF failed THEN "failed" ELSE "deleteAgain"
    BY <1>4 DEF EndPass, GoTo, IInv
  <2>2. ~Emptying /\ ~Emptying'
    BY <2>1 DEF Emptying
  <2>3. Step' = Step
    BY <1>1, <1>2, <2>1, <2>2 DEF Step
  <2> QED BY <1>1, <1>2, <2>2, <2>3 DEF Deletion!vars
<1> QED BY <1>3, <1>4

LEMMA DeleteBucketSimulated ==
  ASSUME IInv, DeleteBucket
  PROVE  Deletion!DeleteBucket
<1>1. pc = "deleteBucket" /\ ~Emptying /\ Step = "deleteBucket" /\ exists \in BOOLEAN
  BY DEF DeleteBucket, Emptying, Step, IInv, TypeOK
<1>2. ASSUME NEW p \in {"gone", "failed"}, GoTo(p)
      PROVE  ~Emptying' /\ Step' = p
  BY <1>2 DEF GoTo, Emptying, Step
<1>3. CASE ~exists /\ GoTo("gone") /\ UNCHANGED <<bucket, pass, fresh, spent>>
  BY <1>1, <1>2, <1>3 DEF bucket, Deletable, Deletion!DeleteBucket
<1>4. CASE /\ exists /\ Deletable /\ exists' = FALSE
           /\ UNCHANGED <<versioned, objects, behind, pass, fresh>>
           /\ GoneOrUnanswered
  <2>1. ~Emptying' /\ Step' \in {"gone", "failed"}
    BY <1>2, <1>4 DEF GoneOrUnanswered
  <2> QED BY <1>1, <1>4, <2>1 DEF Deletion!DeleteBucket, Deletion!BucketIsDeleted
<1>5. CASE /\ exists /\ ~Deletable
           /\ StartPass /\ GoTo("next") /\ UNCHANGED <<bucket, spent>>
  <2>1. Emptying' /\ Step' = "emptyBucket" /\ fresh' = {} /\ UNCHANGED <<exists, versioned>>
    BY <1>5 DEF StartPass, GoTo, Emptying, Step, bucket
  <2> QED BY <1>1, <1>5, <2>1 DEF Deletion!DeleteBucket
<1>6. CASE Fault /\ GoTo("failed") /\ UNCHANGED <<bucket, pass, fresh>>
  BY <1>1, <1>2, <1>6 DEF bucket, Deletable, Deletion!DeleteBucket, Deletion!Fail
<1> QED BY <1>3, <1>4, <1>5, <1>6 DEF DeleteBucket

LEMMA DeleteAgainSimulated ==
  ASSUME IInv, DeleteBucketAgain
  PROVE  Deletion!DeleteEmptied
<1>1. pc = "deleteAgain" /\ ~Emptying /\ Step = "deleteEmptied" /\ exists \in BOOLEAN
      /\ UNCHANGED fresh
  BY DEF DeleteBucketAgain, Emptying, Step, IInv, TypeOK
<1>2. pc' \in {"gone", "failed"} /\ ~Emptying' /\ Step' = pc'
  BY DEF DeleteBucketAgain, GoneOrUnanswered, GoTo, Emptying, Step
<1>3. CASE exists /\ Deletable /\ exists' = FALSE /\ UNCHANGED <<versioned, objects, behind>>
  BY <1>1, <1>2, <1>3 DEF Deletion!DeleteEmptied, Deletion!BucketIsDeleted
<1>4. CASE pc' = "failed" /\ UNCHANGED bucket
  BY <1>1, <1>2, <1>4 DEF bucket, Deletable, Deletion!DeleteEmptied, Deletion!Fail
<1> QED BY <1>3, <1>4 DEF DeleteBucketAgain, GoTo

LEMMA RetrySimulated ==
  ASSUME Retry
  PROVE  Deletion!Retry
<1>1. /\ ~Emptying /\ ~Emptying' /\ Step = "failed" /\ Step' = "deleteBucket"
      /\ UNCHANGED <<bucket, fresh>>
  BY DEF Retry, GoTo, Emptying, Step
<1>2. Deletable' <=> Deletable
  BY <1>1 DEF bucket, Deletable
<1> QED BY <1>1, <1>2 DEF bucket, Deletion!Retry

LEMMA OutsidersSimulated ==
  ASSUME IInv, Outsiders
  PROVE  Deletion!Next
<1>1. /\ UNCHANGED <<pc, page, input, more, failed, versioned>>
      /\ exists \in BOOLEAN
  BY DEF Outsiders, PutObject, RemoveObject, RemoveBucket, DeletedFromBucket, pass,
     IInv, TypeOK
<1>2. (Emptying' <=> Emptying) /\ Step' = Step
  BY <1>1 DEF Emptying, Step
<1>3. ASSUME NEW o \in Objects, PutObject(o) PROVE Deletion!OutsiderPutsObject
  <2>1. exists /\ exists' = exists /\ ~Deletable' /\ fresh' # {}
    BY <1>3 DEF PutObject, Deletable
  <2> QED BY <1>1, <1>2, <2>1 DEF Deletion!OutsiderPutsObject
<1>4. ASSUME NEW o \in Objects, RemoveObject(o) PROVE Deletion!OutsiderRemovesObjects
  <2>1. exists /\ exists' = exists /\ ~Deletable /\ fresh' = fresh
    BY <1>4 DEF RemoveObject, DeletedFromBucket, Deletable
  <2> QED BY <1>1, <1>2, <2>1 DEF Deletion!OutsiderRemovesObjects
<1>5. CASE RemoveBucket
  <2>1. exists /\ exists' = FALSE /\ fresh' = fresh
    BY <1>5 DEF RemoveBucket
  <2> QED BY <1>1, <1>2, <2>1 DEF Deletion!OutsiderDeletesBucket, Deletion!Next
<1> QED BY <1>3, <1>4, <1>5 DEF Outsiders, Deletion!Next

LEMMA StepSimulated ==
  ASSUME IInv, IInv', VersionsInv', [Next]_vars
  PROVE  Deletion!Next \/ UNCHANGED Deletion!vars
<1>1. CASE Worker
  BY <1>1, DeleteBucketSimulated, CallsSimulated, EndSimulated, DeleteAgainSimulated,
     RetrySimulated DEF Worker, Deletion!Next
<1>2. CASE Outsiders
  BY <1>2, OutsidersSimulated
<1>3. CASE UNCHANGED vars
  <2>1. Step' = Step /\ (Emptying' <=> Emptying) /\ (Deletable' <=> Deletable)
    BY <1>3 DEF vars, bucket, pass, Step, Emptying, Deletable
  <2> QED BY <1>3, <2>1 DEF vars, bucket, Deletion!vars
<1> QED BY <1>1, <1>2, <1>3 DEF Next

LEMMA InitSimulated == Init => Deletion!Init /\ VersionsInv
<1> SUFFICES ASSUME Init PROVE Deletion!Init /\ VersionsInv
  OBVIOUS
<1>1. ~Emptying /\ Step = "deleteBucket" /\ exists = TRUE /\ fresh = {}
      /\ versioned \in BOOLEAN
  BY DEF Init, Emptying, Step
<1>2. VersionsInv
  BY DEF Init, VersionsInv
<1> QED BY <1>1, <1>2 DEF Deletion!Init

(* The one step that S3BucketController takes for deleteBucketObjects      *)
(* stands for all its pages and batches, for every number of objects and   *)
(* every size of a page and of a batch: the bucket is emptied in the step  *)
(* that decides the result, and a success leaves only what was put         *)
(* meanwhile and old versions.                                             *)
THEOREM ForceImplements == Spec => ImplementsDeletion
<1>1. Init => Deletion!Init /\ VersionsInv
  BY InitSimulated
<1>2. VersionsInv /\ [Next]_vars => VersionsInv'
  BY NextVersions
<1>3. IInv /\ IInv' /\ VersionsInv' /\ [Next]_vars => [Deletion!Next]_(Deletion!vars)
  BY StepSimulated
<1> QED BY <1>1, <1>2, <1>3, Invariance, PTL DEF Spec, ImplementsDeletion, Deletion!Spec
=============================================================================
