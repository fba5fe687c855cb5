---------------------- MODULE S3BucketController_proof ----------------------
(***************************************************************************)
(* Proofs about S3BucketController, for every set of objects, buckets,     *)
(* regions and ACLs and every bound of the environment.                    *)
(***************************************************************************)
EXTENDS S3BucketController, SequenceTheorems, TLAPS

-----------------------------------------------------------------------------
(* The inductive invariant.                                                *)

Guarded(v) == v.phase # "absent" /\ v.finalizer
LiveGuarded(v) == v.phase = "live" /\ v.finalizer

LastOf(S) == S[Len(S)]

(* Versions under way are in the order the API server made them.           *)
Increasing(S) == \A i, j \in 1..Len(S) : i < j => S[i].rv < S[j].rv

(* What the cache will show as live under our finalizer is still under it  *)
(* at the API server.                                                      *)
GuardKept(S) == \A i \in 1..Len(S) : LiveGuarded(S[i]) => Guarded(LastOf(S))

VersionsInv == \A k \in Keys : Increasing(versions[k]) /\ GuardKept(versions[k])

(* The instance in memory against the API server's object: it is not       *)
(* newer, and when it is not older either, nobody else changed the fields  *)
(* that decide its fate.                                                   *)
NotAhead(v, S) ==
  /\ v.rv <= LastOf(S).rv
  /\ v.rv = LastOf(S).rv =>
       v.phase = LastOf(S).phase /\ v.finalizer = LastOf(S).finalizer

(* An instance from a cache that had gone back is older than the newest    *)
(* version the cache has held; any other one is live under our finalizer   *)
(* only while the API server's object is still under it.                   *)
Read(v, S, back) ==
  IF back THEN v.rv < S[1].rv ELSE LiveGuarded(v) => Guarded(LastOf(S))

(* Until the first Update of a reconcile no version under way is older     *)
(* than the instance: an accepted Update finds nothing under way then.     *)
BehindCache(v, S) == v.rv <= S[1].rv

InstanceInv ==
  /\ worker.pc # "idle" => worker.key \in Keys
                           /\ NotAhead(inst, versions[worker.key])
                           /\ Read(inst, versions[worker.key], worker.rewound)
  /\ worker.pc \in {"addFinalizer"} \cup Deleting =>
       BehindCache(inst, versions[worker.key])
  /\ worker.pc = "addFinalizer" => inst.phase = "live" /\ ~inst.finalizer
  /\ worker.pc \in Provisioning => LiveGuarded(inst)
  /\ worker.pc \in Deleting => inst.phase = "terminating" /\ inst.finalizer

(* TypeOK of everything but what the informer may list again.              *)
TypeCore ==
  /\ versions \in [Keys -> Seq(Versions) \ {<< >>}]
  /\ s3 \in [Buckets -> BucketStates]
  /\ wq \in WorkQueues(Keys)
  /\ worker \in Workers
  /\ made \subseteq Keys \X Buckets
  /\ recorded \subseteq Keys \X Buckets
  /\ released \subseteq Keys
  /\ spent \in Spending

IInv == TypeCore /\ VersionsInv /\ InstanceInv

(* What may be listed again is older than what the cache has held.         *)
PastType ==
  /\ past \in [Keys -> Seq(Versions)]
  /\ behind \in [Keys -> 0..MaxLag]
  /\ \A k \in Keys : behind[k] <= Len(past[k]) /\ Len(past[k]) <= MaxLag

PastInv ==
  PastType /\ \A k \in Keys : \A i \in 1..Len(past[k]) :
                past[k][i].rv < versions[k][1].rv

-----------------------------------------------------------------------------
(* Sequences of versions.                                                  *)

LEMMA AppendVersion ==
  ASSUME NEW S \in Seq(Versions) \ {<< >>}, NEW v \in Versions,
         Increasing(S), LastOf(S).rv < v.rv
  PROVE  /\ Append(S, v) \in Seq(Versions) \ {<< >>}
         /\ LastOf(Append(S, v)) = v
         /\ Append(S, v)[1] = S[1]
         /\ Increasing(Append(S, v))
<1>1. Len(S) \in Nat \ {0} /\ Len(Append(S, v)) = Len(S) + 1
  OBVIOUS
<1>2. \A i \in 1..Len(S) : Append(S, v)[i] = S[i] /\ S[i].rv \in Nat
  <2> SUFFICES ASSUME NEW i \in 1..Len(S)
               PROVE  Append(S, v)[i] = S[i] /\ S[i].rv \in Nat
    OBVIOUS
  <2>1. S[i] \in Versions
    OBVIOUS
  <2>2. S[i].rv \in Nat
    BY <2>1 DEF Versions
  <2>3. Append(S, v)[i] = S[i]
    OBVIOUS
  <2> QED BY <2>2, <2>3
<1>3. Append(S, v)[Len(S) + 1] = v
  OBVIOUS
<1>4. \A i \in 1..Len(S) : S[i].rv <= LastOf(S).rv
  BY <1>1, <1>2 DEF Increasing, LastOf
<1>5. Increasing(Append(S, v))
  <2> SUFFICES ASSUME NEW i \in 1..Len(S)+1, NEW j \in 1..Len(S)+1, i < j
               PROVE  Append(S, v)[i].rv < Append(S, v)[j].rv
    BY <1>1 DEF Increasing
  <2>1. CASE j \in 1..Len(S)
    BY <2>1, <1>1, <1>2 DEF Increasing
  <2>2. CASE j = Len(S) + 1
    <3>1. i \in 1..Len(S)
      BY <2>2, <1>1
    <3>2. v.rv \in Nat /\ LastOf(S).rv \in Nat
      BY <1>1, <1>2 DEF LastOf, Versions
    <3> QED BY <3>1, <3>2, <2>2, <1>2, <1>3, <1>4
  <2> QED BY <2>1, <2>2, <1>1
<1> QED BY <1>1, <1>2, <1>3, <1>5 DEF LastOf

LEMMA SkipVersions ==
  ASSUME NEW S \in Seq(Versions) \ {<< >>}, NEW n \in 1..Len(S),
         Increasing(S)
  PROVE  /\ SubSeq(S, n, Len(S)) \in Seq(Versions) \ {<< >>}
         /\ LastOf(SubSeq(S, n, Len(S))) = LastOf(S)
         /\ S[1].rv <= SubSeq(S, n, Len(S))[1].rv
         /\ Increasing(SubSeq(S, n, Len(S)))
         /\ GuardKept(S) => GuardKept(SubSeq(S, n, Len(S)))
<1> DEFINE T == SubSeq(S, n, Len(S))
<1>1. Len(S) \in Nat \ {0} /\ n \in Nat
  OBVIOUS
<1>2. /\ T \in Seq(Versions) /\ Len(T) = Len(S) - n + 1
      /\ \A i \in 1..Len(T) : T[i] = S[n + i - 1]
  BY <1>1, SubSeqProperties
<1>3. \A i \in 1..Len(T) : n + i - 1 \in 1..Len(S)
  BY <1>1, <1>2
<1>4. Len(T) # 0 /\ T # << >> /\ LastOf(T) = LastOf(S)
  <2>1. Len(T) # 0 /\ Len(T) \in 1..Len(T)
    BY <1>1, <1>2
  <2>2. T # << >>
    <3> HIDE DEF T
    <3> QED BY <2>1
  <2>3. T[Len(T)] = S[n + Len(T) - 1]
    BY <1>2, <2>1
  <2>4. n + Len(T) - 1 = Len(S)
    BY <1>1, <1>2
  <2> HIDE DEF T
  <2> QED BY <2>1, <2>2, <2>3, <2>4 DEF LastOf
<1>5. Increasing(T)
  BY <1>1, <1>2, <1>3 DEF Increasing
<1>6. S[1].rv <= T[1].rv
  <2>1. T[1] = S[n] /\ S[1].rv \in Nat /\ S[n].rv \in Nat
    <3>1. S[1] \in Versions /\ S[n] \in Versions
      BY <1>1
    <3>2. 1 \in 1..Len(T)
      BY <1>1, <1>2
    <3>3. T[1] = S[n + 1 - 1] /\ n + 1 - 1 = n
      BY <3>2, <1>1, <1>2
    <3> HIDE DEF T
    <3> QED BY <3>1, <3>3 DEF Versions
  <2>2. CASE n = 1
    BY <2>1, <2>2
  <2>3. CASE 1 < n
    BY <2>1, <2>3, <1>1 DEF Increasing
  <2> QED BY <2>2, <2>3, <1>1
<1>7. GuardKept(S) => GuardKept(T)
  BY <1>2, <1>3, <1>4 DEF GuardKept
<1> QED BY <1>2, <1>4, <1>5, <1>6, <1>7

-----------------------------------------------------------------------------
(* Steps that several actions share.                                       *)

LEMMA SpentType ==
  ASSUME TypeCore
  PROVE  /\ MayFault /\ Fault => spent' \in Spending
         /\ UserActs => spent' \in Spending
         /\ OutsiderMeanwhile => spent' \in Spending
<1>1. /\ spent.user \in 0..MaxUser /\ spent.faults \in 0..MaxFaults
      /\ spent.outsider \in 0..MaxOutsider
      /\ spent = [user |-> spent.user, outsider |-> spent.outsider,
                  faults |-> spent.faults, crashes |-> spent.crashes]
  BY DEF TypeCore, Spending
<1>2. MayFault => spent.faults + 1 \in 0..MaxFaults
  BY <1>1, ConstantsAssumption DEF MayFault, ConstantsAssumption
<1>3. UserActs => spent.user + 1 \in 0..MaxUser
  BY <1>1, ConstantsAssumption DEF UserActs, ConstantsAssumption
<1>4. ASSUME MayFault, Fault PROVE spent' \in Spending
  BY <1>2, <1>4 DEF Fault, TypeCore, Spending
<1>5. ASSUME UserActs PROVE spent' \in Spending
  BY <1>3, <1>5 DEF UserActs, TypeCore, Spending
<1>6. OutsiderMeanwhile => spent.outsider + 1 \in 0..MaxOutsider
  BY <1>1, ConstantsAssumption DEF OutsiderMeanwhile, ConstantsAssumption
<1>7. ASSUME OutsiderMeanwhile PROVE spent' \in Spending
  BY <1>6, <1>7 DEF OutsiderMeanwhile, TypeCore, Spending
<1> QED BY <1>4, <1>5, <1>7

LEMMA VersionsType ==
  ASSUME TypeCore, NEW k \in Keys
  PROVE  /\ versions[k] \in Seq(Versions) \ {<< >>}
         /\ Len(versions[k]) \in Nat \ {0}
         /\ Stored(k) \in Versions /\ Stored(k) = LastOf(versions[k])
         /\ versions[k][1] \in Versions /\ versions[k][1].rv \in Nat
         /\ Stored(k).rv \in Nat
<1>1. versions[k] \in Seq(Versions) /\ versions[k] # << >>
  BY DEF TypeCore
<1>2. Len(versions[k]) \in Nat \ {0}
  BY <1>1
<1>3. Stored(k) \in Versions /\ Stored(k) = LastOf(versions[k])
  BY <1>1, <1>2 DEF Stored, LastOf
<1>4. versions[k][1] \in Versions
  BY <1>1, <1>2
<1> QED BY <1>1, <1>2, <1>3, <1>4 DEF Versions

(* The first version is not newer than the last.                           *)
LEMMA FirstToLast ==
  ASSUME TypeCore, VersionsInv, NEW k \in Keys
  PROVE  versions[k][1].rv <= Stored(k).rv
<1>1. /\ Len(versions[k]) \in Nat \ {0} /\ versions[k][1].rv \in Nat
      /\ Stored(k) = versions[k][Len(versions[k])] /\ Stored(k).rv \in Nat
  BY VersionsType DEF LastOf
<1>2. CASE Len(versions[k]) = 1
  BY <1>1, <1>2
<1>3. CASE 1 < Len(versions[k])
  BY <1>1, <1>3 DEF VersionsInv, Increasing
<1> QED BY <1>1, <1>2, <1>3

-----------------------------------------------------------------------------
(* The cache takes what it is told.                                        *)

(* What becomes of one object's versions.                                  *)
Moved(k) ==
  \/ UNCHANGED <<versions[k], past[k], behind[k]>>
  \/ \E n \in 1..Len(versions[k]), m \in 0..Len(past[k]) :
       /\ n = 1 \/ m = 0
       /\ versions'[k] = From(k, n) /\ past'[k] = Before(k, n) /\ behind'[k] = m

CacheMoves ==
  /\ versions' = [k \in Keys |-> versions'[k]]
  /\ past' = [k \in Keys |-> past'[k]]
  /\ behind' = [k \in Keys |-> behind'[k]]
  /\ \A k \in Keys : Moved(k)

LEMMA RememberedVersions ==
  ASSUME NEW S \in Seq(Versions)
  PROVE  /\ Remembered(S) \in Seq(Versions) /\ Len(Remembered(S)) <= MaxLag
         /\ Len(S) <= MaxLag => Remembered(S) = S
         /\ \A i \in 1..Len(Remembered(S)) :
              \E j \in 1..Len(S) : Remembered(S)[i] = S[j]
<1>1. MaxLag \in Nat /\ Len(S) \in Nat
  BY ConstantsAssumption DEF ConstantsAssumption
<1>2. CASE Len(S) <= MaxLag
  BY <1>2 DEF Remembered
<1>3. CASE MaxLag < Len(S)
  <2> DEFINE a == Len(S) + 1 - MaxLag
             R == SubSeq(S, a, Len(S))
  <2>1. a \in Int /\ Len(S) \in Int /\ a >= 1
    BY <1>1, <1>3
  <2>2. \A i \in a..Len(S) : S[i] \in Versions
    BY <2>1
  <2>3. /\ R \in Seq(Versions)
        /\ Len(R) = IF a <= Len(S) THEN Len(S) - a + 1 ELSE 0
        /\ \A i \in 1..Len(S) - a + 1 : R[i] = S[a + i - 1]
    <3> HIDE DEF a
    <3> QED BY <2>1, <2>2, SubSeqProperties
  <2>4. Remembered(S) = R
    BY <1>1, <1>3 DEF Remembered
  <2>5. Len(R) = MaxLag
    BY <1>1, <2>3
  <2>6. ASSUME NEW i \in 1..Len(R) PROVE \E j \in 1..Len(S) : R[i] = S[j]
    <3>1. a + i - 1 \in 1..Len(S) /\ i \in 1..Len(S) - a + 1
      BY <1>1, <1>3, <2>5
    <3> HIDE DEF a, R
    <3> QED BY <2>3, <3>1
  <2> HIDE DEF R
  <2> QED BY <1>1, <1>3, <2>3, <2>4, <2>5, <2>6
<1> QED BY <1>1, <1>2, <1>3

(* What the cache has gone beyond.                                         *)
LEMMA BeforeVersions ==
  ASSUME TypeCore, PastInv, NEW k \in Keys, NEW n \in 1..Len(versions[k])
  PROVE  /\ Before(k, n) \in Seq(Versions) /\ Len(Before(k, n)) <= MaxLag
         /\ n = 1 => Before(k, n) = past[k]
         /\ \A i \in 1..Len(Before(k, n)) :
              \/ \E j \in 1..Len(past[k]) : Before(k, n)[i] = past[k][j]
              \/ \E j \in 1..n - 1 : Before(k, n)[i] = versions[k][j]
<1> DEFINE S == versions[k]
           P == past[k]
           G == SubSeq(S, 1, n - 1)
           A == P \o G
<1>1. /\ S \in Seq(Versions) /\ Len(S) \in Nat \ {0} /\ n \in Nat \ {0} /\ n <= Len(S)
      /\ P \in Seq(Versions) /\ Len(P) \in Nat /\ Len(P) <= MaxLag
  BY VersionsType DEF PastInv, PastType
<1>2. /\ G \in Seq(Versions) /\ Len(G) = n - 1
      /\ \A i \in 1..n - 1 : G[i] = S[i]
  <2>1. \A i \in 1..n - 1 : S[i] \in Versions
    BY <1>1
  <2>2. /\ G \in Seq(Versions)
        /\ Len(G) = IF 1 <= n - 1 THEN (n - 1) - 1 + 1 ELSE 0
        /\ \A i \in 1..(n - 1) - 1 + 1 : G[i] = S[1 + i - 1]
    <3>1. 1 \in Int /\ n - 1 \in Int
      BY <1>1
    <3> HIDE DEF S
    <3> QED BY <2>1, <3>1, SubSeqProperties
  <2> HIDE DEF G, S
  <2> QED BY <1>1, <2>2
<1>3. /\ A \in Seq(Versions) /\ Len(A) = Len(P) + (n - 1)
      /\ \A i \in 1..Len(A) : A[i] = IF i <= Len(P) THEN P[i] ELSE G[i - Len(P)]
  <2>1. /\ A \in Seq(Versions) /\ Len(A) = Len(P) + Len(G)
        /\ \A i \in 1..Len(P) + Len(G) :
             A[i] = IF i <= Len(P) THEN P[i] ELSE G[i - Len(P)]
    <3>1. P \in Seq(Versions) /\ G \in Seq(Versions)
      BY <1>1, <1>2
    <3> HIDE DEF G, P
    <3> QED BY <3>1, ConcatProperties
  <2> HIDE DEF A, G, P
  <2> QED BY <1>2, <2>1
<1>4. Before(k, n) = Remembered(A)
  BY DEF Before
<1> HIDE DEF A
<1>5. /\ Remembered(A) \in Seq(Versions) /\ Len(Remembered(A)) <= MaxLag
      /\ Len(A) <= MaxLag => Remembered(A) = A
      /\ \A i \in 1..Len(Remembered(A)) :
           \E j \in 1..Len(A) : Remembered(A)[i] = A[j]
  BY <1>3, RememberedVersions
<1>6. ASSUME n = 1 PROVE Before(k, n) = P
  <2>1. G = << >>
    <3> HIDE DEF G
    <3> QED BY <1>2, <1>6, EmptySeq
  <2>2. A = P
    <3> HIDE DEF G, P
    <3> QED BY <1>1, <2>1, ConcatEmptySeq DEF A
  <2> QED BY <1>1, <1>4, <1>5, <2>2
<1>7. ASSUME NEW i \in 1..Len(Remembered(A))
      PROVE  \/ \E j \in 1..Len(P) : Remembered(A)[i] = P[j]
             \/ \E j \in 1..n - 1 : Remembered(A)[i] = S[j]
  <2>1. PICK j \in 1..Len(A) : Remembered(A)[i] = A[j]
    BY <1>5
  <2> HIDE DEF G, P, S
  <2>2. CASE j <= Len(P)
    BY <1>1, <1>3, <2>1, <2>2
  <2>3. CASE j > Len(P)
    <3>1. j - Len(P) \in 1..n - 1
      BY <1>1, <1>3, <2>3
    <3> QED BY <1>1, <1>2, <1>3, <2>1, <2>3, <3>1
  <2> QED BY <1>1, <1>3, <2>2, <2>3
<1> QED BY <1>4, <1>5, <1>6, <1>7

LEMMA MovedVersions ==
  ASSUME TypeCore, VersionsInv, PastInv, NEW k \in Keys, Moved(k)
  PROVE  /\ versions'[k] \in Seq(Versions) \ {<< >>}
         /\ LastOf(versions'[k]) = LastOf(versions[k])
         /\ versions[k][1].rv <= versions'[k][1].rv
         /\ Increasing(versions'[k]) /\ GuardKept(versions'[k])
         /\ \A i \in 1..Len(versions'[k]) :
              \E j \in 1..Len(versions[k]) : versions'[k][i] = versions[k][j]
         /\ past'[k] \in Seq(Versions) /\ Len(past'[k]) <= MaxLag
         /\ behind'[k] \in 0..MaxLag /\ behind'[k] <= Len(past'[k])
         /\ \A i \in 1..Len(past'[k]) : past'[k][i].rv < versions'[k][1].rv
         /\ \A i \in 1..Len(past'[k]) :
              \/ \E j \in 1..Len(past[k]) : past'[k][i] = past[k][j]
              \/ \E j \in 1..Len(versions[k]) : past'[k][i] = versions[k][j]
<1> DEFINE S == versions[k]
<1>1. /\ S \in Seq(Versions) \ {<< >>} /\ Len(S) \in Nat \ {0}
      /\ S[1].rv \in Nat /\ Increasing(S) /\ GuardKept(S)
  BY VersionsType DEF VersionsInv
<1>2. /\ past[k] \in Seq(Versions) /\ Len(past[k]) \in Nat /\ Len(past[k]) <= MaxLag
      /\ behind[k] \in 0..MaxLag /\ behind[k] <= Len(past[k]) /\ MaxLag \in Nat
      /\ \A i \in 1..Len(past[k]) : past[k][i].rv < S[1].rv
  BY ConstantsAssumption DEF PastInv, PastType, ConstantsAssumption
<1>3. CASE UNCHANGED <<versions[k], past[k], behind[k]>>
  BY <1>1, <1>2, <1>3
<1>4. CASE \E n \in 1..Len(S), m \in 0..Len(past[k]) :
             /\ n = 1 \/ m = 0
             /\ versions'[k] = From(k, n) /\ past'[k] = Before(k, n) /\ behind'[k] = m
  <2>1. PICK n \in 1..Len(S), m \in 0..Len(past[k]) :
             /\ n = 1 \/ m = 0
             /\ versions'[k] = From(k, n) /\ past'[k] = Before(k, n) /\ behind'[k] = m
    BY <1>4
  <2> DEFINE T == SubSeq(S, n, Len(S))
             B == Before(k, n)
  <2>2. versions'[k] = T
    BY <2>1 DEF From
  <2>3. /\ T \in Seq(Versions) \ {<< >>} /\ LastOf(T) = LastOf(S)
        /\ S[1].rv <= T[1].rv /\ Increasing(T) /\ GuardKept(T)
    <3> HIDE DEF S
    <3> QED BY <1>1, <2>1, SkipVersions
  <2>4. /\ Len(T) = Len(S) - n + 1
        /\ \A i \in 1..Len(T) : n + i - 1 \in 1..Len(S) /\ T[i] = S[n + i - 1]
    <3>1. /\ Len(T) = Len(S) - n + 1
          /\ \A i \in 1..Len(S) - n + 1 : T[i] = S[n + i - 1]
      <4>1. \A i \in n..Len(S) : S[i] \in Versions
        BY <1>1
      <4> HIDE DEF S
      <4> QED BY <1>1, <4>1, SubSeqProperties
    <3> HIDE DEF T, S
    <3> QED BY <1>1, <3>1
  <2>5. /\ B \in Seq(Versions) /\ Len(B) <= MaxLag
        /\ n = 1 => B = past[k]
        /\ \A i \in 1..Len(B) :
             \/ \E j \in 1..Len(past[k]) : B[i] = past[k][j]
             \/ \E j \in 1..n - 1 : B[i] = S[j]
    BY BeforeVersions
  <2>6. T[1] = S[n] /\ S[n] \in Versions /\ S[n].rv \in Nat
    <3>1. 1 \in 1..Len(T) /\ n + 1 - 1 = n
      <4> HIDE DEF T
      <4> QED BY <1>1, <2>4
    <3>2. S[n] \in Versions
      BY <1>1
    <3>3. T[1] = S[n]
      <4> HIDE DEF T, S
      <4> QED BY <2>4, <3>1
    <3> QED BY <3>2, <3>3 DEF Versions
  <2> HIDE DEF T, B
  <2>7. ASSUME NEW i \in 1..Len(B) PROVE B[i].rv < T[1].rv
    <3>1. CASE \E j \in 1..Len(past[k]) : B[i] = past[k][j]
      <4>1. B[i] \in Versions
        BY <2>5
      <4>2. B[i].rv < S[1].rv /\ B[i].rv \in Nat
        BY <1>2, <3>1, <4>1 DEF Versions
      <4> HIDE DEF S
      <4> QED BY <1>1, <2>3, <2>6, <4>2
    <3>2. CASE \E j \in 1..n - 1 : B[i] = S[j]
      <4>1. PICK j \in 1..n - 1 : B[i] = S[j]
        BY <3>2
      <4>2. j \in 1..Len(S) /\ j < n
        BY <1>1
      <4> HIDE DEF S
      <4> QED BY <4>1, <4>2, <1>1, <2>6 DEF Increasing
    <3> QED BY <2>5, <3>1, <3>2
  <2>8. behind'[k] \in 0..MaxLag /\ behind'[k] <= Len(B)
    <3>1. Len(B) \in Nat
      BY <2>5
    <3> QED BY <1>2, <2>1, <2>5, <3>1
  <2>9. past'[k] = B
    BY <2>1 DEF B
  <2>10. 1..n - 1 \subseteq 1..Len(S)
    BY <1>1
  <2> HIDE DEF S
  <2> QED BY <2>2, <2>3, <2>4, <2>5, <2>7, <2>8, <2>9, <2>10 DEF S
<1> QED BY <1>3, <1>4 DEF Moved

LEMMA CacheMovesInv ==
  ASSUME TypeCore, VersionsInv, PastInv, CacheMoves
  PROVE  /\ versions' \in [Keys -> Seq(Versions) \ {<< >>}]
         /\ VersionsInv' /\ PastInv'
<1>1. versions' \in [Keys -> Seq(Versions) \ {<< >>}] /\ VersionsInv'
  BY MovedVersions DEF CacheMoves, VersionsInv
<1>2. PastType'
  BY MovedVersions DEF CacheMoves, PastType
<1>3. PastInv'
  BY <1>2, MovedVersions DEF CacheMoves, PastInv
<1> QED BY <1>1, <1>3

(* The informer's actions.                                                 *)
LEMMA TakesMoves ==
  ASSUME TypeCore, PastInv, NEW k \in Keys, NEW n \in 1..Len(versions[k]),
         NEW m \in 0..Len(past[k]), n = 1 \/ m = 0, CacheTakes(k, n, m)
  PROVE  CacheMoves
<1>1. /\ versions' = [versions EXCEPT ![k] = From(k, n)]
      /\ past' = [past EXCEPT ![k] = Before(k, n)]
      /\ behind' = [behind EXCEPT ![k] = m]
      /\ DOMAIN versions = Keys /\ DOMAIN past = Keys /\ DOMAIN behind = Keys
  BY DEF CacheTakes, TypeCore, PastInv, PastType
<1>2. ASSUME NEW j \in Keys PROVE Moved(j)
  <2>1. CASE j = k
    BY <1>1, <2>1 DEF Moved
  <2>2. CASE j # k
    BY <1>1, <2>2 DEF Moved
  <2> QED BY <2>1, <2>2
<1> QED BY <1>1, <1>2 DEF CacheMoves

LEMMA InformerMoves ==
  ASSUME TypeCore, PastInv, NEW k \in Keys, Deliver(k) \/ Relist(k)
  PROVE  CacheMoves
<1>1. /\ Len(versions[k]) \in Nat \ {0} /\ Len(past[k]) \in Nat
      /\ behind[k] \in Nat /\ behind[k] <= Len(past[k])
  BY VersionsType DEF PastInv, PastType
<1>2. ASSUME NEW n \in 2..Len(versions[k]), CacheTakes(k, n, 0) PROVE CacheMoves
  BY <1>1, <1>2, TakesMoves
<1>3. ASSUME NEW m \in 0..Len(past[k]), CacheTakes(k, 1, m) PROVE CacheMoves
  BY <1>1, <1>3, TakesMoves
<1>4. CASE Deliver(k)
  <2>1. CASE \E n \in 2..Len(versions[k]) : CacheTakes(k, n, 0)
    BY <1>2, <2>1
  <2>2. CASE \E m \in 0..behind[k] - 1 : CacheTakes(k, 1, m)
    <3>1. PICK m \in 0..behind[k] - 1 : CacheTakes(k, 1, m)
      BY <2>2
    <3>2. m \in 0..Len(past[k])
      BY <1>1
    <3> QED BY <1>3, <3>1, <3>2
  <2> QED BY <1>4, <2>1, <2>2 DEF Deliver
<1>5. CASE Relist(k)
  <2>1. PICK m \in behind[k] + 1..Len(past[k]) : CacheTakes(k, 1, m)
    BY <1>5 DEF Relist
  <2>2. m \in 0..Len(past[k])
    BY <1>1
  <2> QED BY <1>3, <2>1, <2>2
<1> QED BY <1>4, <1>5

LEMMA CrashMoves ==
  ASSUME Crash
  PROVE  CacheMoves
<1>1. PICK n \in [Keys -> UNION {1..Len(versions[k]) : k \in Keys}],
           m \in [Keys -> 0..MaxLag] :
        /\ \A k \in Keys : Listable(k, n[k], m[k])
        /\ versions' = [k \in Keys |-> From(k, n[k])]
        /\ past' = [k \in Keys |-> Before(k, n[k])]
        /\ behind' = m
  BY DEF Crash
<1>2. ASSUME NEW k \in Keys PROVE Moved(k)
  <2>1. /\ n[k] \in 1..Len(versions[k]) /\ m[k] \in 0..Len(past[k])
        /\ n[k] = 1 \/ m[k] = 0
        /\ versions'[k] = From(k, n[k]) /\ past'[k] = Before(k, n[k])
        /\ behind'[k] = m[k]
    BY <1>1 DEF Listable
  <2> QED BY <2>1 DEF Moved
<1>3. /\ versions' = [k \in Keys |-> versions'[k]]
      /\ past' = [k \in Keys |-> past'[k]]
      /\ behind' = [k \in Keys |-> behind'[k]]
  BY <1>1
<1> QED BY <1>2, <1>3 DEF CacheMoves

-----------------------------------------------------------------------------
(* The API server takes a write.                                           *)

(* A write of the next version, or of the same one, keeps VersionsInv when *)
(* it keeps the guard of every version that is live and guarded.           *)
LEMMA StoreStep ==
  ASSUME TypeCore, VersionsInv, NEW k \in Keys, NEW v \in Versions,
         v = Stored(k) \/ v.rv = Stored(k).rv + 1,
         \/ Guarded(Stored(k)) => Guarded(v)
         \/ \A i \in 1..Len(versions[k]) : ~LiveGuarded(versions[k][i]),
         Store(k, v)
  PROVE  /\ versions' \in [Keys -> Seq(Versions) \ {<< >>}]
         /\ VersionsInv'
         /\ LastOf(versions'[k]) = v
         /\ versions'[k][1] = versions[k][1]
         /\ \A j \in Keys \ {k} : versions'[j] = versions[j]
         /\ recorded' \subseteq Keys \X Buckets
<1> DEFINE S == versions[k]
<1>0. /\ S \in Seq(Versions) \ {<< >>} /\ Len(S) \in Nat \ {0}
      /\ Stored(k) = LastOf(S) /\ Stored(k).rv \in Nat
      /\ Increasing(S) /\ GuardKept(S)
  BY VersionsType DEF VersionsInv
<1>1. recorded' \subseteq Keys \X Buckets
  BY DEF TypeCore, Store, Versions, Statuses
<1>2. CASE v = Stored(k)
  <2>1. versions' = versions
    BY <1>2 DEF Store
  <2> QED BY <2>1, <1>0, <1>1, <1>2 DEF VersionsInv, TypeCore
<1>3. CASE v # Stored(k)
  <2>1. versions' = [versions EXCEPT ![k] = Append(S, v)]
    BY <1>3 DEF Store
  <2>2. versions'[k] = Append(S, v) /\ \A j \in Keys \ {k} : versions'[j] = versions[j]
    BY <2>1 DEF TypeCore
  <2>3. LastOf(S).rv < v.rv
    BY <1>0, <1>3
  <2> HIDE DEF S
  <2>4. /\ Append(S, v) \in Seq(Versions) \ {<< >>}
        /\ LastOf(Append(S, v)) = v
        /\ Append(S, v)[1] = S[1]
        /\ Increasing(Append(S, v))
    BY <1>0, <2>3, AppendVersion
  <2>5. GuardKept(Append(S, v))
    <3> SUFFICES ASSUME NEW i \in 1..Len(Append(S, v)),
                        LiveGuarded(Append(S, v)[i])
                 PROVE  Guarded(v)
      BY <2>4 DEF GuardKept
    <3>1. Len(Append(S, v)) = Len(S) + 1
      BY <1>0
    <3>2. CASE i = Len(S) + 1
      <4>1. Append(S, v)[i] = v
        BY <3>2, <1>0
      <4> QED BY <4>1 DEF LiveGuarded, Guarded
    <3>3. CASE i \in 1..Len(S)
      <4>1. Append(S, v)[i] = S[i]
        BY <3>3, <1>0
      <4>2. Guarded(Stored(k))
        BY <4>1, <3>3, <1>0 DEF GuardKept
      <4> QED BY <4>1, <4>2, <3>3 DEF S
    <3> QED BY <3>1, <3>2, <3>3, <1>0
  <2>6. versions' \in [Keys -> Seq(Versions) \ {<< >>}]
    BY <2>1, <2>4 DEF TypeCore
  <2>7. VersionsInv'
    BY <2>2, <2>4, <2>5 DEF VersionsInv
  <2> QED BY <1>1, <2>2, <2>4, <2>6, <2>7 DEF S
<1> QED BY <1>2, <1>3

(* Someone else writes the next version of an object: the instance in      *)
(* memory stays related to it.                                             *)
LEMMA OthersWrite ==
  ASSUME IInv, NEW k \in Keys, NEW v \in Versions,
         v.rv = Stored(k).rv + 1,
         Guarded(Stored(k)) => Guarded(v),
         Store(k, v), worker' = worker
  PROVE  InstanceInv'
<1>1. /\ LastOf(versions'[k]) = v
      /\ versions'[k][1] = versions[k][1]
      /\ \A j \in Keys \ {k} : versions'[j] = versions[j]
  BY StoreStep DEF IInv
<1>2. Stored(k) = LastOf(versions[k]) /\ Stored(k).rv \in Nat
  BY VersionsType DEF IInv
<1>3. inst.rv \in Nat /\ inst' = inst
  BY DEF IInv, TypeCore, Workers, Versions, inst
<1>4. CASE worker.key = k
  <2>1. worker.pc # "idle" => NotAhead(inst, versions'[k])
    BY <1>1, <1>2, <1>3, <1>4 DEF IInv, InstanceInv, NotAhead
  <2>2. worker.pc # "idle" => Read(inst, versions'[k], worker.rewound)
    BY <1>1, <1>2, <1>4 DEF IInv, InstanceInv, Read
  <2> QED BY <1>1, <1>3, <1>4, <2>1, <2>2 DEF IInv, InstanceInv, BehindCache
<1>5. CASE worker.key # k
  BY <1>1, <1>3, <1>5 DEF IInv, InstanceInv, Deleting
<1> QED BY <1>4, <1>5

-----------------------------------------------------------------------------
(* The worker moves on without an Update.                                  *)

LEMMA GoToStep ==
  ASSUME IInv, NEW p \in PCs, GoTo(p), versions' = versions,
         worker.pc # "idle",
         \/ p \in Outcomes
         \/ p \in Provisioning /\ worker.pc \in Provisioning
         \/ p \in Deleting /\ worker.pc \in Deleting
  PROVE  worker' \in Workers /\ InstanceInv'
<1>1. worker' = [worker EXCEPT !.pc = p] /\ worker \in Workers
  BY DEF GoTo, IInv, TypeCore
<1>2. /\ worker' \in Workers /\ worker'.pc = p
      /\ worker'.key = worker.key /\ worker'.inst = worker.inst
      /\ worker'.rewound = worker.rewound
  BY <1>1 DEF Workers
<1>3. p # "idle" /\ p # "addFinalizer"
  BY DEF Outcomes, Provisioning, Deleting
<1>4. /\ p \in Provisioning => worker.pc \in Provisioning
      /\ p \in Deleting => worker.pc \in Deleting
  BY DEF Outcomes, Provisioning, Deleting
<1> QED BY <1>2, <1>3, <1>4 DEF IInv, InstanceInv, inst

LEMMA StatusStep ==
  ASSUME IInv, NEW p \in Provisioning, NEW s \in Statuses,
         worker.pc \in Provisioning, versions' = versions,
         worker' = [worker EXCEPT !.pc = p, !.inst.status = s]
  PROVE  worker' \in Workers /\ InstanceInv'
<1>1. worker \in Workers /\ inst \in Versions
  BY DEF IInv, TypeCore, Workers, inst
<1>2. /\ worker' = [pc |-> p, key |-> worker.key, inst |-> worker'.inst,
                    rewound |-> worker.rewound]
      /\ worker'.inst = [inst EXCEPT !.status = s]
      /\ worker'.key = worker.key /\ worker'.pc = p
      /\ worker'.rewound = worker.rewound
  BY <1>1 DEF Workers, inst
<1>3. /\ worker'.inst \in Versions /\ worker'.inst.rv = inst.rv
      /\ worker'.inst.phase = inst.phase
      /\ worker'.inst.finalizer = inst.finalizer
  BY <1>1, <1>2 DEF Versions
<1>4. worker' \in Workers
  BY <1>1, <1>2, <1>3 DEF Workers, PCs
<1>5. /\ p # "idle" /\ p # "addFinalizer" /\ p \notin Deleting
      /\ worker.pc # "idle"
  BY DEF Provisioning, Deleting
<1>6. /\ worker.key \in Keys /\ NotAhead(inst, versions[worker.key])
      /\ Read(inst, versions[worker.key], worker.rewound) /\ LiveGuarded(inst)
  BY <1>5 DEF IInv, InstanceInv
<1>7. /\ NotAhead(worker'.inst, versions[worker.key]) /\ LiveGuarded(worker'.inst)
      /\ Read(worker'.inst, versions[worker.key], worker.rewound)
  BY <1>3, <1>6 DEF NotAhead, Read, LiveGuarded
<1> QED BY <1>2, <1>4, <1>5, <1>7, <1>6 DEF InstanceInv, inst

-----------------------------------------------------------------------------
(* The worker calls Update.                                                *)

LEMMA PersistedVersion ==
  ASSUME TypeCore, NEW k \in Keys, NEW v \in Versions, Accepts(k, v)
  PROVE  /\ Persisted(k, v) \in Versions
         /\ Persisted(k, v) = Stored(k) \/ Persisted(k, v).rv = Stored(k).rv + 1
         /\ LiveGuarded(v) => LiveGuarded(Persisted(k, v))
<1>1. Stored(k).rv = v.rv /\ v.rv \in Nat
  BY DEF Accepts, Versions
<1>2. CASE v = Stored(k)
  BY <1>2 DEF Persisted
<1>3. CASE v # Stored(k)
  <2> DEFINE ph == IF v.phase = "terminating" /\ ~v.finalizer THEN "absent" ELSE v.phase
  <2>1. Persisted(k, v) = [v EXCEPT !.rv = v.rv + 1, !.phase = ph]
    BY <1>3 DEF Persisted, Versions
  <2>2. ph \in {"absent", "live", "terminating"}
    BY DEF Versions
  <2>3. /\ Persisted(k, v) \in Versions /\ Persisted(k, v).rv = v.rv + 1
        /\ Persisted(k, v).phase = ph /\ Persisted(k, v).finalizer = v.finalizer
    <3>1. Persisted(k, v) = [rv |-> v.rv + 1, phase |-> ph,
                             finalizer |-> v.finalizer, spec |-> v.spec,
                             status |-> v.status]
      <4> HIDE DEF ph
      <4> QED BY <2>1 DEF Versions
    <3>2. v.rv + 1 \in Nat
      BY <1>1
    <3>3. v.finalizer \in BOOLEAN /\ v.spec \in Specs /\ v.status \in Statuses
      BY DEF Versions
    <3> HIDE DEF ph
    <3>4. Persisted(k, v) \in Versions
      BY <3>1, <3>2, <3>3, <2>2 DEF Versions
    <3> QED BY <3>1, <3>4
  <2> QED BY <2>3, <1>1 DEF LiveGuarded
<1> QED BY <1>2, <1>3

(* An Update with which the worker provisions (the finalizer is set) or    *)
(* ends a deletion (nothing the cache will show is live and guarded).      *)
LEMMA UpdateStep ==
  ASSUME IInv, NEW v \in Versions, NEW next \in PCs, NEW failed \in Outcomes,
         Update(v, next, failed), worker.pc # "idle", v.rv = inst.rv,
         \/ LiveGuarded(v) /\ next \in Provisioning \cup Outcomes
         \/ /\ next \in Outcomes /\ ~LiveGuarded(inst)
            /\ Accepts(worker.key, v) =>
                 \A i \in 1..Len(versions[worker.key]) :
                   ~LiveGuarded(versions[worker.key][i])
  PROVE  /\ versions' \in [Keys -> Seq(Versions) \ {<< >>}]
         /\ VersionsInv' /\ InstanceInv'
         /\ worker' \in Workers
         /\ recorded' \subseteq Keys \X Buckets
         /\ spent' \in Spending
<1> DEFINE k == worker.key
           w == Persisted(k, v)
<1>1. /\ k \in Keys /\ worker \in Workers /\ NotAhead(inst, versions[k])
      /\ Read(inst, versions[k], worker.rewound)
      /\ inst.rv \in Nat /\ TypeCore /\ VersionsInv
  BY DEF IInv, InstanceInv, TypeCore, Workers, Versions, inst
<1>2. Stored(k) = LastOf(versions[k]) /\ Stored(k).rv \in Nat
  BY <1>1, VersionsType
<1>3. ASSUME Accepts(k, v), Store(k, w)
      PROVE  /\ versions' \in [Keys -> Seq(Versions) \ {<< >>}]
             /\ VersionsInv' /\ recorded' \subseteq Keys \X Buckets
             /\ LastOf(versions'[k]) = w
             /\ w \in Versions
             /\ w = Stored(k) \/ w.rv = Stored(k).rv + 1
             /\ LiveGuarded(v) => LiveGuarded(w)
             /\ ~worker.rewound
  <2>0. ~worker.rewound
    <3>1. versions[k][1].rv <= inst.rv /\ versions[k][1].rv \in Nat
      BY <1>1, <1>3, FirstToLast, VersionsType DEF Accepts
    <3> QED BY <3>1, <1>1 DEF Read
  <2>1. /\ w \in Versions
        /\ w = Stored(k) \/ w.rv = Stored(k).rv + 1
        /\ LiveGuarded(v) => LiveGuarded(w)
    BY <1>1, <1>3, PersistedVersion
  <2>2. \/ Guarded(Stored(k)) => Guarded(w)
        \/ \A i \in 1..Len(versions[k]) : ~LiveGuarded(versions[k][i])
    BY <1>3, <2>1 DEF LiveGuarded, Guarded
  <2> HIDE DEF k, w
  <2> QED BY <1>1, <1>3, <2>0, <2>1, <2>2, StoreStep
<1>4. CASE /\ Accepts(k, v) /\ Store(k, w) /\ UNCHANGED spent
           /\ worker' = [worker EXCEPT !.pc = next, !.inst = w]
  <2>1. /\ worker' \in Workers /\ worker'.pc = next
        /\ worker'.key = k /\ worker'.inst = w /\ worker'.rewound = FALSE
    BY <1>1, <1>3, <1>4 DEF Workers
  <2>2. next \notin {"idle", "addFinalizer"} \cup Deleting
    BY DEF Provisioning, Deleting, Outcomes
  <2>3. next \in Provisioning => LiveGuarded(w)
    BY <1>3, <1>4 DEF Provisioning, Outcomes
  <2>4. NotAhead(w, versions'[k]) /\ Read(w, versions'[k], FALSE)
    BY <1>3, <1>4 DEF NotAhead, Read, LiveGuarded, Guarded, Versions
  <2>5. InstanceInv'
    BY <2>1, <2>2, <2>3, <2>4, <1>1 DEF InstanceInv, inst
  <2> QED BY <2>1, <2>5, <1>3, <1>4 DEF IInv, TypeCore
<1>5. CASE ~Accepts(k, v) /\ GoTo(failed) /\ UNCHANGED <<versions, recorded, spent>>
  <2>1. failed \in PCs
    BY DEF PCs
  <2>2. worker' \in Workers /\ InstanceInv'
    BY <1>5, <2>1, GoToStep
  <2> QED BY <1>5, <2>2 DEF IInv, TypeCore, VersionsInv
<1>6. CASE MayFault /\ Fault /\ GoTo(failed) /\ UNCHANGED <<versions, recorded>>
  <2>1. failed \in PCs
    BY DEF PCs
  <2>2. worker' \in Workers /\ InstanceInv'
    BY <1>6, <2>1, GoToStep
  <2>3. spent' \in Spending
    BY <1>1, <1>6, SpentType
  <2> QED BY <1>6, <2>2, <2>3 DEF IInv, TypeCore, VersionsInv
<1>7. CASE MayFault /\ Fault /\ GoTo(failed) /\ Accepts(k, v) /\ Store(k, w)
  <2>1. /\ worker' \in Workers /\ worker'.pc = failed
        /\ worker'.key = k /\ worker'.inst = worker.inst
        /\ worker'.rewound = FALSE
    BY <1>1, <1>3, <1>7 DEF GoTo, Workers, PCs
  <2>2. failed \notin {"idle", "addFinalizer"} \cup Deleting \cup Provisioning
    BY DEF Provisioning, Deleting, Outcomes
  <2>3. LiveGuarded(inst) => Guarded(w)
    BY <1>3, <1>7 DEF LiveGuarded, Guarded
  <2>4. NotAhead(inst, versions'[k]) /\ Read(inst, versions'[k], FALSE)
    BY <1>1, <1>2, <1>3, <1>7, <2>3 DEF NotAhead, Read
  <2>5. InstanceInv'
    BY <2>1, <2>2, <2>4, <1>1 DEF InstanceInv, inst
  <2>6. spent' \in Spending
    BY <1>1, <1>7, SpentType
  <2> QED BY <2>1, <2>5, <2>6, <1>3, <1>7
<1> QED BY <1>4, <1>5, <1>6, <1>7 DEF Update

-----------------------------------------------------------------------------
(* Types of the values the actions assign.                                 *)

LEMMA NeverCreatedType == NeverCreated \in Versions
<1>1. PICK b \in Buckets, r \in Regions, a \in Acls,
           d \in DeleteStrategies, o \in OwnershipStrategies : TRUE
  BY ConstantsAssumption DEF ConstantsAssumption
<1>2. [bucket |-> b, region |-> r, acl |-> a, deleteStrategy |-> d,
       ownershipStrategy |-> o] \in Specs
  BY DEF Specs
<1>3. (CHOOSE s \in Specs : TRUE) \in Specs
  BY <1>2
<1>4. NoStatus \in Statuses
  BY DEF NoStatus, Statuses
<1> QED BY <1>3, <1>4 DEF NeverCreated, Versions

LEMMA BucketTypes ==
  /\ NoBucket \in BucketStates
  /\ \A spec \in Specs, c \in Keys \cup {Outsider} :
       NewBucket(spec, c) \in BucketStates
<1>1. (CHOOSE r \in Regions : TRUE) \in Regions
  BY ConstantsAssumption DEF ConstantsAssumption
<1>2. (CHOOSE a \in Acls : TRUE) \in Acls
  BY ConstantsAssumption DEF ConstantsAssumption
<1>3. NoBucket \in BucketStates
  BY <1>1, <1>2 DEF NoBucket, BucketStates
<1>4. \A spec \in Specs, c \in Keys \cup {Outsider} :
        NewBucket(spec, c) \in BucketStates
  BY DEF NewBucket, BucketStates, Specs
<1> QED BY <1>3, <1>4

LEMMA QueueTypes ==
  ASSUME NEW K, NEW q \in WorkQueues(K), NEW k \in K
  PROVE  /\ Add(q, k) \in WorkQueues(K)
         /\ Done(q, k) \in WorkQueues(K)
         /\ AddRateLimited(q, k) \in WorkQueues(K)
         /\ AddPending(q, k) \in WorkQueues(K)
         /\ q.queue # << >> =>
              Get(q) \in WorkQueues(K) /\ Head(q.queue) \in K
<1>1. ASSUME NEW p \in WorkQueues(K) PROVE Add(p, k) \in WorkQueues(K)
  <2> DEFINE Q == IF k \in p.processing THEN p.queue ELSE Append(p.queue, k)
  <2>1. CASE k \in p.dirty
    BY <2>1 DEF Add
  <2>2. CASE k \notin p.dirty
    <3>1. Add(p, k) = [queue |-> Q, dirty |-> p.dirty \cup {k},
                       processing |-> p.processing, pending |-> p.pending]
      BY <2>2 DEF Add, WorkQueues
    <3>2. Q \in Seq(K) /\ p.dirty \cup {k} \in SUBSET K
      BY DEF WorkQueues
    <3> HIDE DEF Q
    <3> QED BY <3>1, <3>2 DEF WorkQueues
  <2> QED BY <2>1, <2>2
<1>2. Done(q, k) \in WorkQueues(K)
  <2> DEFINE Q == IF k \in q.dirty THEN Append(q.queue, k) ELSE q.queue
             P == q.processing \ {k}
  <2>1. Q \in Seq(K) /\ P \in SUBSET K
    BY DEF WorkQueues
  <2>2. Done(q, k) = [q EXCEPT !.processing = P, !.queue = Q]
    BY DEF Done
  <2> HIDE DEF Q, P
  <2> QED BY <2>1, <2>2 DEF WorkQueues
<1>3. AddRateLimited(q, k) \in WorkQueues(K)
  BY DEF WorkQueues, AddRateLimited
<1>4. [q EXCEPT !.pending = @ \ {k}] \in WorkQueues(K)
  BY DEF WorkQueues
<1>5. AddPending(q, k) \in WorkQueues(K)
  BY <1>1, <1>4 DEF AddPending
<1>6. ASSUME q.queue # << >> PROVE Get(q) \in WorkQueues(K) /\ Head(q.queue) \in K
  <2> DEFINE h == Head(q.queue)
             Q == Tail(q.queue)
             D == q.dirty \ {h}
             P == q.processing \cup {h}
  <2>1. h \in K /\ Q \in Seq(K)
    BY <1>6 DEF WorkQueues
  <2>2. D \in SUBSET K /\ P \in SUBSET K
    BY <2>1 DEF WorkQueues
  <2>3. Get(q) = [q EXCEPT !.queue = Q, !.dirty = D, !.processing = P]
    BY DEF Get
  <2> HIDE DEF Q, D, P
  <2>4. Get(q) \in WorkQueues(K)
    BY <2>1, <2>2, <2>3 DEF WorkQueues
  <2> QED BY <2>1, <2>4
<1> QED BY <1>1, <1>2, <1>3, <1>5, <1>6

(* What Reconcile does first fits the version it has read.                 *)
LEMMA StartReconcileFits ==
  ASSUME NEW v \in Versions
  PROVE  LET p == StartReconcile(v)
         IN  /\ p \in PCs \ {"idle"}
             /\ p = "addFinalizer" => v.phase = "live" /\ ~v.finalizer
             /\ p \in Provisioning => LiveGuarded(v)
             /\ p \in Deleting => v.phase = "terminating" /\ v.finalizer
<1>1. /\ v.phase \in {"absent", "live", "terminating"}
      /\ v.finalizer \in BOOLEAN
  BY DEF Versions
<1>2. /\ AfterFinalizer(v) \in {"headBucket", "nonRetryable"}
      /\ StartDeletion(v) \in {"removeFinalizer", "deleteBucket"}
  BY DEF AfterFinalizer, StartDeletion
<1>3. CASE v.phase = "live" /\ ~v.finalizer
  <2>1. StartReconcile(v) = "addFinalizer"
    BY <1>3 DEF StartReconcile
  <2> QED BY <2>1, <1>3 DEF PCs, Provisioning, Deleting
<1>4. CASE v.phase = "live" /\ v.finalizer
  <2>1. StartReconcile(v) = AfterFinalizer(v)
    BY <1>4 DEF StartReconcile
  <2> QED BY <2>1, <1>2, <1>4 DEF PCs, Provisioning, Deleting, Outcomes, LiveGuarded
<1>5. CASE v.phase = "terminating" /\ v.finalizer
  <2>1. StartReconcile(v) = StartDeletion(v)
    BY <1>5 DEF StartReconcile
  <2> QED BY <2>1, <1>2, <1>5 DEF PCs, Provisioning, Deleting, Outcomes
<1>6. CASE v.phase = "absent" \/ (v.phase = "terminating" /\ ~v.finalizer)
  <2>1. StartReconcile(v) = "done"
    BY <1>6 DEF StartReconcile
  <2> QED BY <2>1 DEF PCs, Provisioning, Deleting, Outcomes
<1> QED BY <1>1, <1>3, <1>4, <1>5, <1>6

LEMMA BucketUpdates ==
  ASSUME TypeCore, NEW b
  PROVE  /\ \A x \in BucketStates : [s3 EXCEPT ![b] = x] \in [Buckets -> BucketStates]
         /\ \A a \in Acls : [s3 EXCEPT ![b].acl = a] \in [Buckets -> BucketStates]
         /\ \A o \in BOOLEAN : [s3 EXCEPT ![b].objects = o] \in [Buckets -> BucketStates]
<1>1. s3 \in [Buckets -> BucketStates]
  BY DEF TypeCore
<1>2. \A x \in BucketStates : [s3 EXCEPT ![b] = x] \in [Buckets -> BucketStates]
  BY <1>1
<1>3. ASSUME NEW a \in Acls PROVE [s3 EXCEPT ![b].acl = a] \in [Buckets -> BucketStates]
  <2>1. CASE b \in Buckets
    <3>1. [s3[b] EXCEPT !.acl = a] \in BucketStates
      BY <1>1, <2>1 DEF BucketStates
    <3> QED BY <1>2, <3>1
  <2>2. CASE b \notin Buckets
    <3>1. [s3 EXCEPT ![b].acl = a] = s3
      BY <1>1, <2>2
    <3> QED BY <1>1, <3>1
  <2> QED BY <2>1, <2>2
<1>4. ASSUME NEW o \in BOOLEAN PROVE [s3 EXCEPT ![b].objects = o] \in [Buckets -> BucketStates]
  <2>1. CASE b \in Buckets
    <3>1. [s3[b] EXCEPT !.objects = o] \in BucketStates
      BY <1>1, <2>1 DEF BucketStates
    <3> QED BY <1>2, <3>1
  <2>2. CASE b \notin Buckets
    <3>1. [s3 EXCEPT ![b].objects = o] = s3
      BY <1>1, <2>2
    <3> QED BY <1>1, <3>1
  <2> QED BY <2>1, <2>2
<1> QED BY <1>2, <1>3, <1>4

-----------------------------------------------------------------------------
(* Each action of the worker keeps the invariant.                          *)

(* What the cache holds.                                                   *)
LEMMA CachedVersion ==
  ASSUME TypeCore, VersionsInv, PastInv, NEW k \in Keys
  PROVE  /\ Cached(k) \in Versions /\ Cached(k).rv <= versions[k][1].rv
         /\ behind[k] = 0 => Cached(k) = versions[k][1]
         /\ behind[k] > 0 => Cached(k).rv < versions[k][1].rv
<1>1. versions[k] \in Seq(Versions) \ {<< >>} /\ versions[k][1] \in Versions
      /\ versions[k][1].rv \in Nat
  BY VersionsType
<1>2. /\ past[k] \in Seq(Versions) /\ behind[k] \in Nat
      /\ behind[k] <= Len(past[k])
  BY DEF PastInv, PastType
<1>3. CASE behind[k] = 0
  BY <1>1, <1>3 DEF Cached
<1>4. CASE behind[k] > 0
  <2> DEFINE i == Len(past[k]) + 1 - behind[k]
  <2>1. i \in 1..Len(past[k]) /\ Cached(k) = past[k][i]
    BY <1>2, <1>4 DEF Cached
  <2> HIDE DEF i
  <2>2. past[k][i] \in Versions /\ past[k][i].rv < versions[k][1].rv
    BY <1>2, <2>1 DEF PastInv
  <2> QED BY <1>1, <1>4, <2>1, <2>2 DEF Versions
<1> QED BY <1>2, <1>3, <1>4

LEMMA TakeKeyInv == IInv /\ PastInv /\ TakeKey => IInv'
<1> SUFFICES ASSUME IInv, PastInv, TakeKey PROVE IInv'
  OBVIOUS
<1> DEFINE k == Head(wq.queue)
<1>1. wq \in WorkQueues(Keys) /\ wq.queue # << >>
  BY DEF IInv, TypeCore, TakeKey
<1>2. PICK x \in Keys : TRUE
  BY ConstantsAssumption DEF ConstantsAssumption
<1>3. k \in Keys /\ wq' \in WorkQueues(Keys)
  BY <1>1, <1>2, QueueTypes DEF TakeKey
<1>4. /\ Stored(k) = LastOf(versions[k]) /\ Stored(k).rv \in Nat
      /\ versions[k][1].rv \in Nat /\ versions[k][1].rv <= Stored(k).rv
      /\ Len(versions[k]) \in Nat \ {0}
      /\ Increasing(versions[k]) /\ GuardKept(versions[k])
  BY <1>3, VersionsType, FirstToLast DEF IInv, VersionsInv
<1>5. /\ Cached(k) \in Versions /\ Cached(k).rv \in Nat
      /\ Cached(k).rv <= versions[k][1].rv
      /\ behind[k] = 0 => Cached(k) = versions[k][1]
      /\ behind[k] > 0 => Cached(k).rv < versions[k][1].rv
      /\ behind[k] \in Nat
  <2>1. behind[k] \in Nat
    BY <1>3 DEF PastInv, PastType
  <2> HIDE DEF k
  <2> QED BY <1>3, <2>1, CachedVersion DEF IInv, Versions
<1>6. /\ worker' = [pc |-> StartReconcile(Cached(k)), key |-> k,
                    inst |-> Cached(k), rewound |-> behind[k] > 0]
      /\ UNCHANGED <<versions, s3, recorded, released, spent, made>>
  BY DEF TakeKey
<1> HIDE DEF k
<1>7. /\ StartReconcile(Cached(k)) \in PCs
      /\ worker'.pc = StartReconcile(Cached(k)) /\ worker'.key = k
      /\ worker'.inst = Cached(k) /\ worker'.rewound = (behind[k] > 0)
      /\ worker' \in Workers
  BY <1>3, <1>5, <1>6, StartReconcileFits DEF Workers
<1>8. NotAhead(Cached(k), versions[k])
  <2>1. CASE Cached(k).rv < Stored(k).rv
    <3>1. Cached(k).rv <= LastOf(versions[k]).rv /\ Cached(k).rv # LastOf(versions[k]).rv
      BY <1>4, <1>5, <2>1
    <3> QED BY <3>1 DEF NotAhead
  <2>2. CASE Cached(k).rv = Stored(k).rv
    <3>1. behind[k] = 0 /\ versions[k][1].rv = Stored(k).rv
      BY <1>4, <1>5, <2>2
    <3>2. Len(versions[k]) = 1
      <4>1. 1 < Len(versions[k]) => versions[k][1].rv < Stored(k).rv
        BY <1>4 DEF Increasing, LastOf
      <4>2. ~(1 < Len(versions[k]))
        BY <1>4, <3>1, <4>1
      <4>3. Len(versions[k]) \in Nat \ {0}
        BY <1>4
      <4>4. \A n \in Nat \ {0} : ~(1 < n) => n = 1
        OBVIOUS
      <4> QED BY <4>2, <4>3, <4>4
    <3>3. Cached(k) = LastOf(versions[k])
      BY <1>5, <3>1, <3>2 DEF LastOf
    <3> QED BY <1>4, <3>3 DEF NotAhead
  <2> QED BY <1>4, <1>5, <2>1, <2>2
<1>9. Read(Cached(k), versions[k], behind[k] > 0)
  <2>1. CASE behind[k] > 0
    BY <1>5, <2>1 DEF Read
  <2>2. CASE behind[k] = 0
    <3>1. 1 \in 1..Len(versions[k]) /\ ~(behind[k] > 0)
      BY <1>4, <2>2
    <3> QED BY <1>4, <1>5, <2>2, <3>1 DEF Read, GuardKept
  <2> QED BY <1>5, <2>1, <2>2
<1>10. BehindCache(Cached(k), versions[k])
  BY <1>5 DEF BehindCache
<1>11. InstanceInv'
  <2>1. versions' = versions
    BY <1>6
  <2> QED BY <2>1, <1>3, <1>5, <1>7, <1>8, <1>9, <1>10, StartReconcileFits
          DEF InstanceInv, inst
<1> QED BY <1>3, <1>6, <1>7, <1>11 DEF IInv, TypeCore, VersionsInv

(* The common end of the actions that only go on to another call.          *)
LEMMA GoToInv ==
  ASSUME IInv, NEW p \in PCs, GoTo(p), UNCHANGED <<versions, recorded>>,
         worker.pc # "idle",
         \/ p \in Outcomes
         \/ p \in Provisioning /\ worker.pc \in Provisioning
         \/ p \in Deleting /\ worker.pc \in Deleting,
         s3' \in [Buckets -> BucketStates], wq' = wq,
         made' \subseteq Keys \X Buckets, released' \subseteq Keys,
         \/ UNCHANGED spent
         \/ MayFault /\ Fault
         \/ OutsiderMeanwhile
  PROVE  IInv'
<1>1. worker' \in Workers /\ InstanceInv'
  BY GoToStep
<1>2. spent' \in Spending
  BY SpentType DEF IInv, TypeCore
<1> QED BY <1>1, <1>2 DEF IInv, TypeCore, VersionsInv

LEMMA UpdateInv ==
  ASSUME IInv, NEW v \in Versions, NEW next \in PCs, NEW failed \in Outcomes,
         Update(v, next, failed), worker.pc # "idle", v.rv = inst.rv,
         \/ LiveGuarded(v) /\ next \in Provisioning \cup Outcomes
         \/ /\ next \in Outcomes /\ ~LiveGuarded(inst)
            /\ Accepts(worker.key, v) =>
                 \A i \in 1..Len(versions[worker.key]) :
                   ~LiveGuarded(versions[worker.key][i]),
         UNCHANGED <<s3, wq, released, made>>
  PROVE  IInv'
<1>1. /\ versions' \in [Keys -> Seq(Versions) \ {<< >>}]
      /\ VersionsInv' /\ InstanceInv'
      /\ worker' \in Workers
      /\ recorded' \subseteq Keys \X Buckets
      /\ spent' \in Spending
  BY UpdateStep
<1> QED BY <1>1 DEF IInv, TypeCore

(* What the worker's state is at a call that provisions or deletes.        *)
LEMMA AtCall ==
  ASSUME IInv
  PROVE  /\ inst \in Versions /\ worker \in Workers
         /\ inst.spec \in Specs /\ inst.status \in Statuses
         /\ inst.spec.bucket \in Buckets /\ inst.spec.region \in Regions
         /\ inst.spec.acl \in Acls
         /\ worker.pc # "idle" => worker.key \in Keys
         /\ worker.pc \in Provisioning => worker.pc # "idle"
         /\ worker.pc \in Deleting => worker.pc # "idle"
<1>1. inst \in Versions /\ worker \in Workers
  BY DEF IInv, TypeCore, Workers, inst
<1>2. inst.spec \in Specs /\ inst.status \in Statuses
  BY <1>1 DEF Versions
<1>3. worker.pc # "idle" => worker.key \in Keys
  BY DEF IInv, InstanceInv
<1> QED BY <1>1, <1>2, <1>3 DEF Specs, Provisioning, Deleting

LEMMA AddFinalizerInv == IInv /\ AddFinalizer => IInv'
<1> SUFFICES ASSUME IInv, AddFinalizer PROVE IInv'
  OBVIOUS
<1> DEFINE v == [inst EXCEPT !.finalizer = TRUE]
<1>1. worker.pc = "addFinalizer" /\ inst \in Versions /\ inst.phase = "live"
  BY AtCall DEF AddFinalizer, IInv, InstanceInv
<1>2. v \in Versions /\ v.rv = inst.rv /\ LiveGuarded(v)
  BY <1>1 DEF Versions, LiveGuarded
<1>3. AfterFinalizer(inst) \in Provisioning \cup Outcomes
      /\ AfterFinalizer(inst) \in PCs /\ "requeue" \in Outcomes
  BY DEF AfterFinalizer, Provisioning, Outcomes, PCs
<1>4. /\ Update(v, AfterFinalizer(inst), "requeue")
      /\ UNCHANGED <<s3, wq, released, made>>
  BY DEF AddFinalizer
<1> HIDE DEF v
<1> QED BY <1>1, <1>2, <1>3, <1>4, UpdateInv

LEMMA RecordInv == IInv /\ (RecordCreated \/ RecordAcquired \/ RecordAcl) => IInv'
<1> SUFFICES ASSUME IInv, RecordCreated \/ RecordAcquired \/ RecordAcl PROVE IInv'
  OBVIOUS
<1>1. worker.pc \in Provisioning /\ worker.pc # "idle"
  BY DEF RecordCreated, RecordAcquired, RecordAcl, Provisioning
<1>2. inst \in Versions /\ LiveGuarded(inst)
  BY <1>1, AtCall DEF IInv, InstanceInv
<1>3. {"configure", "configureRest"} \subseteq Provisioning \cap PCs
      /\ "nonRetryable" \in Outcomes
  BY DEF Provisioning, PCs, Outcomes
<1>4. PICK next \in {"configure", "configureRest"} :
        /\ Update(inst, next, "nonRetryable")
        /\ UNCHANGED <<s3, wq, released, made>>
  BY DEF RecordCreated, RecordAcquired, RecordAcl
<1>5. next \in PCs /\ next \in Provisioning \cup Outcomes
  BY <1>3
<1> QED BY <1>1, <1>2, <1>3, <1>4, <1>5, UpdateInv

(* An accepted Update that ends a deletion finds the version it was made   *)
(* from in the cache and nothing under way.                                *)
LEMMA RemoveFinalizerInv == IInv /\ RemoveFinalizer => IInv'
<1> SUFFICES ASSUME IInv, RemoveFinalizer PROVE IInv'
  OBVIOUS
<1> DEFINE v == [inst EXCEPT !.finalizer = FALSE]
           k == worker.key
           S == versions[k]
<1>1. /\ worker.pc = "removeFinalizer" /\ worker.pc \in Deleting
      /\ inst \in Versions /\ inst.phase = "terminating" /\ k \in Keys
      /\ BehindCache(inst, S) /\ NotAhead(inst, S) /\ ~LiveGuarded(inst)
  BY AtCall DEF RemoveFinalizer, IInv, InstanceInv, Deleting, LiveGuarded
<1>2. v \in Versions /\ v.rv = inst.rv /\ inst.rv \in Nat
  BY <1>1 DEF Versions
<1>3. ASSUME Accepts(k, v)
      PROVE  \A i \in 1..Len(S) : ~LiveGuarded(S[i])
  <2>1. /\ S \in Seq(Versions) /\ Len(S) \in Nat \ {0}
        /\ Stored(k) = LastOf(S) /\ Increasing(S)
    BY <1>1, VersionsType DEF IInv, VersionsInv
  <2>2. Stored(k).rv = inst.rv
    BY <1>2, <1>3 DEF Accepts
  <2>3. LastOf(S).phase = "terminating"
    BY <1>1, <2>1, <2>2 DEF NotAhead
  <2>4. Len(S) = 1
    <3> SUFFICES ASSUME Len(S) # 1 PROVE FALSE
      OBVIOUS
    <3> HIDE DEF S, v, k
    <3>1. 1 \in 1..Len(S) /\ Len(S) \in 1..Len(S) /\ 1 < Len(S)
      BY <2>1
    <3>2. S[1].rv < S[Len(S)].rv
      BY <2>1, <3>1 DEF Increasing
    <3>3. S[1] \in Versions /\ S[Len(S)] \in Versions
      BY <2>1, <3>1
    <3>4. S[1].rv \in Nat /\ S[Len(S)].rv \in Nat
      BY <3>3 DEF Versions
    <3>5. inst.rv <= S[1].rv /\ S[Len(S)].rv = inst.rv
      BY <1>1, <2>1, <2>2 DEF BehindCache, LastOf
    <3> QED BY <3>2, <3>4, <3>5, <1>2
  <2> QED BY <2>3, <2>4 DEF LastOf, LiveGuarded
<1>4. "done" \in PCs /\ "done" \in Outcomes /\ "requeue" \in Outcomes
      /\ worker.pc # "idle"
  BY <1>1 DEF PCs, Outcomes
<1>5. /\ Update(v, "done", "requeue")
      /\ UNCHANGED <<s3, wq, released, made>>
  BY DEF RemoveFinalizer
<1> HIDE DEF v
<1> QED BY <1>1, <1>2, <1>3, <1>4, <1>5, UpdateInv

(* Where a call that provisions goes next.                                 *)
LEMMA ProvisioningGoTo ==
  ASSUME IInv, worker.pc \in Provisioning, NEW p \in Provisioning \cup Outcomes,
         GoTo(p), UNCHANGED <<versions, recorded>>,
         s3' \in [Buckets -> BucketStates], wq' = wq,
         made' \subseteq Keys \X Buckets, released' = released,
         UNCHANGED spent \/ (MayFault /\ Fault)
  PROVE  IInv'
<1>1. p \in PCs /\ worker.pc # "idle"
  BY DEF PCs, Provisioning
<1>2. released' \subseteq Keys
  BY DEF IInv, TypeCore
<1> QED BY <1>1, <1>2, GoToInv

LEMMA DeletingGoTo ==
  ASSUME IInv, worker.pc \in Deleting, NEW p \in Deleting \cup Outcomes,
         GoTo(p), UNCHANGED <<versions, recorded>>,
         s3' \in [Buckets -> BucketStates], wq' = wq, made' = made,
         released' \subseteq Keys,
         UNCHANGED spent \/ (MayFault /\ Fault) \/ OutsiderMeanwhile
  PROVE  IInv'
<1>1. p \in PCs /\ worker.pc # "idle"
  BY DEF PCs, Deleting
<1>2. made' \subseteq Keys \X Buckets
  BY DEF IInv, TypeCore
<1> QED BY <1>1, <1>2, GoToInv

LEMMA ProvisioningStatus ==
  ASSUME IInv, worker.pc \in Provisioning, NEW p \in Provisioning,
         NEW s \in Statuses,
         worker' = [worker EXCEPT !.pc = p, !.inst.status = s],
         UNCHANGED <<versions, recorded, wq, released, spent>>,
         s3' \in [Buckets -> BucketStates], made' \subseteq Keys \X Buckets
  PROVE  IInv'
<1>1. worker' \in Workers /\ InstanceInv'
  BY StatusStep
<1> QED BY <1>1 DEF IInv, TypeCore, VersionsInv

LEMMA HeadBucketInv == IInv /\ HeadBucket => IInv'
<1> SUFFICES ASSUME IInv, HeadBucket PROVE IInv'
  OBVIOUS
<1>1. worker.pc \in Provisioning
  BY DEF HeadBucket, Provisioning
<1>2. {AfterExists(inst), "createBucket", "nonRetryable", "retryable"} \subseteq Provisioning \cup Outcomes
  BY DEF AfterExists, Provisioning, Outcomes
<1>3. /\ UNCHANGED <<versions, s3, wq, recorded, released, made>>
      /\ UNCHANGED spent \/ (MayFault /\ Fault)
      /\ \/ GoTo(AfterExists(inst)) \/ GoTo("createBucket")
         \/ GoTo("nonRetryable") \/ GoTo("retryable")
  BY DEF HeadBucket
<1>4. s3' \in [Buckets -> BucketStates] /\ made' \subseteq Keys \X Buckets
  BY <1>3 DEF IInv, TypeCore
<1>5. PICK p \in {AfterExists(inst), "createBucket", "nonRetryable", "retryable"} : GoTo(p)
  BY <1>3
<1> QED BY <1>1, <1>2, <1>3, <1>4, <1>5, ProvisioningGoTo

LEMMA CreateBucketInv == IInv /\ CreateBucket => IInv'
<1> SUFFICES ASSUME IInv, CreateBucket PROVE IInv'
  OBVIOUS
<1>1. worker.pc \in Provisioning /\ worker.pc # "idle"
  BY DEF CreateBucket, Provisioning
<1>2. /\ worker.key \in Keys /\ inst.spec \in Specs
      /\ inst.spec.bucket \in Buckets /\ inst.spec.region \in Regions
      /\ inst.spec.acl \in Acls
  BY <1>1, AtCall
<1>3. "recordCreated" \in Provisioning
      /\ {"nonRetryable", "retryable"} \subseteq Provisioning \cup Outcomes
  BY DEF Provisioning, Outcomes
<1>4. UNCHANGED <<versions, wq, recorded, released>>
  BY DEF CreateBucket
<1>5. s3' \in [Buckets -> BucketStates] /\ made' \subseteq Keys \X Buckets
  <2>1. NewBucket(inst.spec, worker.key) \in BucketStates
    BY <1>2, BucketTypes
  <2>2. [s3 EXCEPT ![inst.spec.bucket] = NewBucket(inst.spec, worker.key)]
          \in [Buckets -> BucketStates]
    BY <2>1, BucketUpdates DEF IInv
  <2>3. made \cup {<<worker.key, inst.spec.bucket>>} \subseteq Keys \X Buckets
    BY <1>2 DEF IInv, TypeCore
  <2>4. s3 \in [Buckets -> BucketStates] /\ made \subseteq Keys \X Buckets
    BY DEF IInv, TypeCore
  <2> QED BY <2>2, <2>3, <2>4 DEF CreateBucket
<1>6. CASE /\ worker' = [worker EXCEPT !.pc = "recordCreated",
                                       !.inst.status = CreatedStatus(inst.spec)]
           /\ UNCHANGED spent
  <2>1. CreatedStatus(inst.spec) \in Statuses
    BY <1>2 DEF CreatedStatus, Statuses
  <2> QED BY <1>1, <1>3, <1>4, <1>5, <1>6, <2>1, ProvisioningStatus
<1>7. CASE /\ UNCHANGED spent \/ (MayFault /\ Fault)
           /\ GoTo(worker.pc) \/ GoTo("nonRetryable") \/ GoTo("retryable")
  <2>1. PICK p \in {worker.pc, "nonRetryable", "retryable"} : GoTo(p)
    BY <1>7
  <2> QED BY <1>1, <1>3, <1>4, <1>5, <1>7, <2>1, ProvisioningGoTo
<1> QED BY <1>6, <1>7 DEF AnswerLost, CreateBucket

LEMMA GetBucketLocationInv == IInv /\ GetBucketLocation => IInv'
<1> SUFFICES ASSUME IInv, GetBucketLocation PROVE IInv'
  OBVIOUS
<1>1. worker.pc \in Provisioning
  BY DEF GetBucketLocation, Provisioning
<1>2. inst.spec.bucket \in Buckets /\ inst.status \in Statuses
  BY AtCall
<1>3. "recordAcquired" \in Provisioning
      /\ {"nonRetryable", "retryable"} \subseteq Provisioning \cup Outcomes
  BY DEF Provisioning, Outcomes
<1>4. UNCHANGED <<versions, s3, wq, recorded, released, made>>
  BY DEF GetBucketLocation
<1>5. s3' \in [Buckets -> BucketStates] /\ made' \subseteq Keys \X Buckets
  BY <1>4 DEF IInv, TypeCore
<1>6. CASE /\ worker' = [worker EXCEPT !.pc = "recordAcquired",
                           !.inst.status = AcquiredStatus(inst, Target)]
           /\ UNCHANGED spent
  <2>1. Target.region \in Regions
    BY <1>2 DEF IInv, TypeCore, BucketStates, Target
  <2>2. Location(Target) \in Regions \cup {NONE}
    BY <2>1 DEF Location
  <2>3. AcquiredStatus(inst, Target) \in Statuses
    <3> DEFINE l == IF Location(Target) = NONE THEN inst.status.location
                    ELSE Location(Target)
    <3>1. l \in Regions \cup {NONE}
      BY <1>2, <2>2 DEF Statuses
    <3>2. AcquiredStatus(inst, Target)
            = [inst.status EXCEPT !.arn = inst.spec.bucket, !.location = l]
      BY DEF AcquiredStatus
    <3> HIDE DEF l
    <3> QED BY <1>2, <3>1, <3>2 DEF Statuses
  <2> QED BY <1>1, <1>3, <1>4, <1>5, <1>6, <2>3, ProvisioningStatus
<1>7. CASE /\ UNCHANGED spent \/ (MayFault /\ Fault)
           /\ GoTo("nonRetryable") \/ GoTo("retryable")
  <2>1. PICK p \in {"nonRetryable", "retryable"} : GoTo(p)
    BY <1>7
  <2> QED BY <1>1, <1>3, <1>4, <1>5, <1>7, <2>1, ProvisioningGoTo
<1> QED BY <1>6, <1>7 DEF GetBucketLocation

LEMMA ConfigureInv ==
  IInv /\ (ConfigureTagsAndPolicy \/ ConfigureRest) => IInv'
<1> SUFFICES ASSUME IInv, ConfigureTagsAndPolicy \/ ConfigureRest PROVE IInv'
  OBVIOUS
<1>1. worker.pc \in Provisioning
  BY DEF ConfigureTagsAndPolicy, ConfigureRest, Provisioning
<1>2. {AfterPolicy(inst), "done", "nonRetryable", "retryable"}
        \subseteq Provisioning \cup Outcomes
  BY DEF AfterPolicy, Provisioning, Outcomes
<1>3. /\ UNCHANGED <<versions, s3, wq, recorded, released, made>>
      /\ UNCHANGED spent \/ (MayFault /\ Fault)
      /\ \/ GoTo(AfterPolicy(inst)) \/ GoTo("done")
         \/ GoTo("nonRetryable") \/ GoTo("retryable")
  BY DEF ConfigureTagsAndPolicy, ConfigureRest, Configuring
<1>4. s3' \in [Buckets -> BucketStates] /\ made' \subseteq Keys \X Buckets
  BY <1>3 DEF IInv, TypeCore
<1>5. PICK p \in {AfterPolicy(inst), "done", "nonRetryable", "retryable"} : GoTo(p)
  BY <1>3
<1> QED BY <1>1, <1>2, <1>3, <1>4, <1>5, ProvisioningGoTo

LEMMA PutBucketAclInv == IInv /\ PutBucketAcl => IInv'
<1> SUFFICES ASSUME IInv, PutBucketAcl PROVE IInv'
  OBVIOUS
<1>1. worker.pc \in Provisioning
  BY DEF PutBucketAcl, Provisioning
<1>2. inst.spec.acl \in Acls /\ inst.status \in Statuses
  BY AtCall
<1>3. "recordAcl" \in Provisioning
      /\ {"nonRetryable", "retryable"} \subseteq Provisioning \cup Outcomes
  BY DEF Provisioning, Outcomes
<1>4. UNCHANGED <<versions, wq, recorded, released, made>>
  BY DEF PutBucketAcl
<1>5. s3' \in [Buckets -> BucketStates] /\ made' \subseteq Keys \X Buckets
  <2>1. [s3 EXCEPT ![inst.spec.bucket].acl = inst.spec.acl] \in [Buckets -> BucketStates]
    BY <1>2, BucketUpdates DEF IInv
  <2> QED BY <2>1, <1>4 DEF PutBucketAcl, IInv, TypeCore
<1>6. CASE /\ worker' = [worker EXCEPT !.pc = "recordAcl",
                                       !.inst.status.acl = inst.spec.acl]
           /\ UNCHANGED spent
  <2> DEFINE s == [inst.status EXCEPT !.acl = inst.spec.acl]
  <2>1. s \in Statuses
    BY <1>2 DEF Statuses
  <2>2. worker' = [worker EXCEPT !.pc = "recordAcl", !.inst.status = s]
    BY <1>6 DEF inst
  <2> HIDE DEF s
  <2> QED BY <1>1, <1>3, <1>4, <1>5, <1>6, <2>1, <2>2, ProvisioningStatus
<1>7. CASE /\ UNCHANGED spent \/ (MayFault /\ Fault)
           /\ GoTo(worker.pc) \/ GoTo("nonRetryable") \/ GoTo("retryable")
  <2>1. PICK p \in {worker.pc, "nonRetryable", "retryable"} : GoTo(p)
    BY <1>7
  <2> QED BY <1>1, <1>3, <1>4, <1>5, <1>7, <2>1, ProvisioningGoTo
<1> QED BY <1>6, <1>7 DEF AnswerLost, PutBucketAcl

LEMMA DeleteInv ==
  IInv /\ (DeleteBucket \/ EmptyBucket \/ DeleteEmptied) => IInv'
<1> SUFFICES ASSUME IInv, DeleteBucket \/ EmptyBucket \/ DeleteEmptied PROVE IInv'
  OBVIOUS
<1>1. worker.pc \in Deleting /\ worker.pc # "idle"
  BY DEF DeleteBucket, EmptyBucket, DeleteEmptied, Deleting
<1>2. worker.key \in Keys
  BY <1>1, AtCall
<1>3. {"removeFinalizer", "emptyBucket", "deleteEmptied", "nonRetryable"}
        \subseteq Deleting \cup Outcomes
  BY DEF Deleting, Outcomes
<1>4. UNCHANGED <<versions, wq, recorded, made>>
  BY DEF DeleteBucket, EmptyBucket, DeleteEmptied
<1>5. s3' \in [Buckets -> BucketStates] /\ released' \subseteq Keys
  <2>1. /\ [s3 EXCEPT ![inst.status.arn] = NoBucket] \in [Buckets -> BucketStates]
        /\ [s3 EXCEPT ![inst.status.arn].objects = FALSE] \in [Buckets -> BucketStates]
    BY BucketTypes, BucketUpdates DEF IInv
  <2>2. s3 \in [Buckets -> BucketStates] /\ released \subseteq Keys
        /\ released \cup {worker.key} \subseteq Keys
    BY <1>2 DEF IInv, TypeCore
  <2> QED BY <2>1, <2>2 DEF DeleteBucket, EmptyBucket, DeleteEmptied, BucketIsDeleted
<1>6. UNCHANGED spent \/ (MayFault /\ Fault) \/ OutsiderMeanwhile
  BY DEF DeleteBucket, EmptyBucket, DeleteEmptied, BucketIsDeleted
<1>7. PICK p \in {worker.pc, "removeFinalizer", "emptyBucket", "deleteEmptied",
                   "nonRetryable"} :
        GoTo(p)
  <2>1. GoTo("removeFinalizer") \/ GoTo("emptyBucket") \/ GoTo("deleteEmptied")
        \/ GoTo("nonRetryable") \/ GoTo(worker.pc)
    BY DEF DeleteBucket, EmptyBucket, DeleteEmptied, BucketIsDeleted, AnswerLost
  <2> QED BY <2>1
<1> QED BY <1>1, <1>3, <1>4, <1>5, <1>6, <1>7, DeletingGoTo

LEMMA FinishItemInv == IInv /\ FinishItem => IInv'
<1> SUFFICES ASSUME IInv, FinishItem PROVE IInv'
  OBVIOUS
<1>1. worker.pc # "idle" /\ worker.key \in Keys /\ wq \in WorkQueues(Keys)
  BY AtCall DEF FinishItem, Outcomes, IInv, TypeCore
<1>2. wq' \in WorkQueues(Keys)
  BY <1>1, QueueTypes DEF FinishItem
<1>3. Idle \in Workers
  BY NeverCreatedType DEF Idle, Workers, PCs
<1>4. worker' = Idle /\ UNCHANGED <<versions, s3, recorded, released, spent, made>>
  BY DEF FinishItem
<1>5. InstanceInv'
  BY <1>4 DEF InstanceInv, Idle, Provisioning, Deleting
<1> QED BY <1>2, <1>3, <1>4, <1>5 DEF IInv, TypeCore, VersionsInv

LEMMA WorkerStepInv == IInv /\ PastInv /\ WorkerStep => IInv'
  BY TakeKeyInv, AddFinalizerInv, HeadBucketInv, CreateBucketInv, RecordInv,
     GetBucketLocationInv, ConfigureInv, PutBucketAclInv, DeleteInv,
     RemoveFinalizerInv, FinishItemInv
  DEF WorkerStep

-----------------------------------------------------------------------------
(* The informer, the queue and the environment keep it too.                *)

(* The instance in memory against a cache that takes what it is told.      *)
LEMMA MovesInstance ==
  ASSUME IInv, PastInv, CacheMoves, worker' = worker
  PROVE  InstanceInv'
<1>1. inst.rv \in Nat /\ inst' = inst
  BY AtCall DEF Versions, inst
<1>2. ASSUME NEW k \in Keys
      PROVE  /\ LastOf(versions'[k]) = LastOf(versions[k])
             /\ versions[k][1].rv <= versions'[k][1].rv
             /\ versions[k][1].rv \in Nat /\ versions'[k][1].rv \in Nat
  <2>1. /\ versions'[k] \in Seq(Versions) \ {<< >>}
        /\ LastOf(versions'[k]) = LastOf(versions[k])
        /\ versions[k][1].rv <= versions'[k][1].rv
    BY MovedVersions DEF IInv, CacheMoves
  <2>2. Len(versions'[k]) \in Nat \ {0}
    BY <2>1
  <2>3. versions'[k][1] \in Versions
    BY <2>1, <2>2
  <2> QED BY <2>1, <2>3, VersionsType DEF IInv, Versions
<1>3. CASE worker.pc = "idle"
  BY <1>3 DEF IInv, InstanceInv, Provisioning, Deleting
<1>4. CASE worker.pc # "idle"
  <2> DEFINE k == worker.key
  <2>1. /\ k \in Keys /\ NotAhead(inst, versions[k])
        /\ Read(inst, versions[k], worker.rewound)
    BY <1>4 DEF IInv, InstanceInv
  <2> HIDE DEF k
  <2>2. NotAhead(inst, versions'[k]) /\ Read(inst, versions'[k], worker.rewound)
    BY <1>1, <1>2, <2>1 DEF NotAhead, Read
  <2>3. BehindCache(inst, versions[k]) => BehindCache(inst, versions'[k])
    BY <1>1, <1>2, <2>1 DEF BehindCache
  <2> QED BY <1>1, <1>4, <2>1, <2>2, <2>3 DEF IInv, InstanceInv, k
<1> QED BY <1>3, <1>4

LEMMA InformerInv ==
  ASSUME IInv, PastInv, NEW k \in Keys, Deliver(k) \/ Relist(k)
  PROVE  IInv' /\ PastInv'
<1>1. CacheMoves
  BY InformerMoves DEF IInv
<1>2. /\ wq' = Add(wq, k) /\ UNCHANGED <<s3, worker, recorded, released, made>>
      /\ UNCHANGED spent \/ (MayFault /\ Fault)
  BY DEF Deliver, Relist
<1>3. /\ versions' \in [Keys -> Seq(Versions) \ {<< >>}]
      /\ VersionsInv' /\ PastInv'
  BY <1>1, CacheMovesInv DEF IInv
<1>4. InstanceInv'
  BY <1>1, <1>2, MovesInstance
<1>5. wq' \in WorkQueues(Keys)
  BY <1>2, QueueTypes DEF IInv, TypeCore
<1>6. spent' \in Spending
  BY <1>2, SpentType DEF IInv, TypeCore
<1> QED BY <1>2, <1>3, <1>4, <1>5, <1>6 DEF IInv, TypeCore

LEMMA QueueInv ==
  ASSUME IInv, NEW k \in Keys, Resync(k) \/ Enqueue(k)
  PROVE  IInv'
<1>1. wq' \in WorkQueues(Keys)
  <2>1. wq \in WorkQueues(Keys) /\ (wq' = Add(wq, k) \/ wq' = AddPending(wq, k))
    BY DEF IInv, TypeCore, Resync, Enqueue
  <2> QED BY <2>1, QueueTypes
<1>2. UNCHANGED <<versions, s3, worker, recorded, released, spent, made>>
  BY DEF Resync, Enqueue
<1> QED BY <1>1, <1>2 DEF IInv, TypeCore, VersionsInv, InstanceInv, inst

LEMMA UserInv ==
  ASSUME IInv, NEW k \in Keys,
         \/ UserDelete(k)
         \/ \E spec \in Specs : UserCreate(k, spec) \/ UserEdit(k, spec)
  PROVE  IInv'
<1>1. Stored(k) \in Versions /\ Stored(k).rv \in Nat
  BY VersionsType DEF IInv
<1>2. ASSUME NEW v \in Versions, v.rv = Stored(k).rv + 1,
             Guarded(Stored(k)) => Guarded(v), Store(k, v),
             worker' = worker, UNCHANGED <<s3, wq, made>>, UserActs,
             released' \subseteq Keys
      PROVE  IInv'
  <2>1. InstanceInv'
    BY <1>2, OthersWrite
  <2>2. /\ versions' \in [Keys -> Seq(Versions) \ {<< >>}]
        /\ VersionsInv' /\ recorded' \subseteq Keys \X Buckets
    BY <1>2, StoreStep DEF IInv
  <2>3. spent' \in Spending
    BY <1>2, SpentType DEF IInv
  <2> QED BY <1>2, <2>1, <2>2, <2>3 DEF IInv, TypeCore
<1>3. released \subseteq Keys /\ released \ {k} \subseteq Keys
  BY DEF IInv, TypeCore
<1>4. CASE UserDelete(k)
  <2> DEFINE ph == IF Stored(k).finalizer THEN "terminating" ELSE "absent"
             v == [Stored(k) EXCEPT !.rv = Stored(k).rv + 1, !.phase = ph]
  <2>1. /\ Store(k, v) /\ UserActs /\ released' = released \ {k}
        /\ UNCHANGED <<s3, wq, worker, made>>
    BY <1>4 DEF UserDelete
  <2>2. v \in Versions /\ v.rv = Stored(k).rv + 1
        /\ v.phase = ph /\ v.finalizer = Stored(k).finalizer
    <3>1. ph \in {"absent", "live", "terminating"}
      OBVIOUS
    <3>2. v = [rv |-> Stored(k).rv + 1, phase |-> ph,
               finalizer |-> Stored(k).finalizer, spec |-> Stored(k).spec,
               status |-> Stored(k).status]
      <4>1. v = [Stored(k) EXCEPT !.rv = Stored(k).rv + 1, !.phase = ph]
        OBVIOUS
      <4> HIDE DEF v, ph
      <4> QED BY <1>1, <4>1 DEF Versions
    <3>3. Stored(k).finalizer \in BOOLEAN /\ Stored(k).spec \in Specs
          /\ Stored(k).status \in Statuses /\ Stored(k).rv + 1 \in Nat
      BY <1>1 DEF Versions
    <3> HIDE DEF v, ph
    <3>4. v \in Versions
      BY <3>1, <3>2, <3>3 DEF Versions
    <3> QED BY <3>2, <3>4
  <2>3. Guarded(Stored(k)) => Guarded(v)
    <3>1. Stored(k).finalizer => ph = "terminating"
      OBVIOUS
    <3> HIDE DEF v, ph
    <3> QED BY <2>2, <3>1 DEF Guarded
  <2> HIDE DEF v
  <2> QED BY <1>2, <1>3, <2>1, <2>2, <2>3
<1>5. CASE \E spec \in Specs : UserCreate(k, spec)
  <2>1. PICK spec \in Specs : UserCreate(k, spec)
    BY <1>5
  <2> DEFINE v == [rv |-> Stored(k).rv + 1, phase |-> "live", finalizer |-> FALSE,
                   spec |-> spec, status |-> NoStatus]
  <2>2. /\ Store(k, v) /\ UserActs /\ Stored(k).phase = "absent"
        /\ UNCHANGED <<s3, wq, worker, released, made>>
    BY <2>1 DEF UserCreate
  <2>3. v \in Versions /\ v.rv = Stored(k).rv + 1
    BY <1>1 DEF Versions, NoStatus, Statuses
  <2>4. ~Guarded(Stored(k))
    BY <2>2 DEF Guarded
  <2> HIDE DEF v
  <2> QED BY <1>2, <1>3, <2>2, <2>3, <2>4
<1>6. CASE \E spec \in Specs : UserEdit(k, spec)
  <2>1. PICK spec \in Specs : UserEdit(k, spec)
    BY <1>6
  <2> DEFINE v == [Stored(k) EXCEPT !.rv = Stored(k).rv + 1, !.spec = spec]
  <2>2. /\ Store(k, v) /\ UserActs
        /\ UNCHANGED <<s3, wq, worker, released, made>>
    BY <2>1 DEF UserEdit
  <2>3. v \in Versions /\ v.rv = Stored(k).rv + 1
        /\ v.phase = Stored(k).phase /\ v.finalizer = Stored(k).finalizer
    <3>1. v = [rv |-> Stored(k).rv + 1, phase |-> Stored(k).phase,
               finalizer |-> Stored(k).finalizer, spec |-> spec,
               status |-> Stored(k).status]
      <4>1. v = [Stored(k) EXCEPT !.rv = Stored(k).rv + 1, !.spec = spec]
        OBVIOUS
      <4> HIDE DEF v
      <4> QED BY <1>1, <4>1 DEF Versions
    <3>2. /\ Stored(k).phase \in {"absent", "live", "terminating"}
          /\ Stored(k).finalizer \in BOOLEAN
          /\ Stored(k).status \in Statuses /\ Stored(k).rv + 1 \in Nat
      BY <1>1 DEF Versions
    <3> HIDE DEF v
    <3>3. v \in Versions
      BY <3>1, <3>2 DEF Versions
    <3> QED BY <3>1, <3>3
  <2>4. Guarded(Stored(k)) => Guarded(v)
    BY <2>3 DEF Guarded
  <2> HIDE DEF v
  <2> QED BY <1>2, <1>3, <2>2, <2>3, <2>4
<1> QED BY <1>4, <1>5, <1>6

(* What users store is the next version.                                   *)
LEMMA UserStores ==
  ASSUME TypeCore, NEW k \in Keys,
         \/ UserDelete(k)
         \/ \E spec \in Specs : UserCreate(k, spec) \/ UserEdit(k, spec)
  PROVE  \E v \in Versions : Store(k, v) /\ v.rv = Stored(k).rv + 1
<1>1. Stored(k) \in Versions /\ Stored(k).rv \in Nat
  BY VersionsType
<1>2. /\ Stored(k).rv + 1 \in Nat
      /\ Stored(k).phase \in {"absent", "live", "terminating"}
      /\ Stored(k).finalizer \in BOOLEAN /\ Stored(k).spec \in Specs
      /\ Stored(k).status \in Statuses
  BY <1>1 DEF Versions
<1>3. CASE UserDelete(k)
  <2> DEFINE ph == IF Stored(k).finalizer THEN "terminating" ELSE "absent"
             v == [Stored(k) EXCEPT !.rv = Stored(k).rv + 1, !.phase = ph]
  <2>1. Store(k, v)
    BY <1>3 DEF UserDelete
  <2>2. ph \in {"absent", "live", "terminating"}
    OBVIOUS
  <2>3. v = [rv |-> Stored(k).rv + 1, phase |-> ph,
             finalizer |-> Stored(k).finalizer, spec |-> Stored(k).spec,
             status |-> Stored(k).status]
    <3>1. v = [Stored(k) EXCEPT !.rv = Stored(k).rv + 1, !.phase = ph]
      OBVIOUS
    <3> HIDE DEF v, ph
    <3> QED BY <1>1, <3>1 DEF Versions
  <2> HIDE DEF v, ph
  <2> QED BY <1>2, <2>1, <2>2, <2>3 DEF Versions
<1>4. CASE \E spec \in Specs : UserCreate(k, spec)
  <2>1. PICK spec \in Specs : UserCreate(k, spec)
    BY <1>4
  <2> DEFINE v == [rv |-> Stored(k).rv + 1, phase |-> "live", finalizer |-> FALSE,
                   spec |-> spec, status |-> NoStatus]
  <2>2. Store(k, v) /\ v \in Versions /\ v.rv = Stored(k).rv + 1
    BY <1>1, <2>1 DEF UserCreate, Versions, NoStatus, Statuses
  <2> QED BY <2>2
<1>5. CASE \E spec \in Specs : UserEdit(k, spec)
  <2>1. PICK spec \in Specs : UserEdit(k, spec)
    BY <1>5
  <2> DEFINE v == [Stored(k) EXCEPT !.rv = Stored(k).rv + 1, !.spec = spec]
  <2>2. Store(k, v)
    BY <2>1 DEF UserEdit
  <2>3. v = [rv |-> Stored(k).rv + 1, phase |-> Stored(k).phase,
             finalizer |-> Stored(k).finalizer, spec |-> spec,
             status |-> Stored(k).status]
    <3>1. v = [Stored(k) EXCEPT !.rv = Stored(k).rv + 1, !.spec = spec]
      OBVIOUS
    <3> HIDE DEF v
    <3> QED BY <1>1, <3>1 DEF Versions
  <2> HIDE DEF v
  <2> QED BY <1>2, <2>2, <2>3 DEF Versions
<1> QED BY <1>3, <1>4, <1>5

(* A write leaves what the cache has held as it is.                        *)
LEMMA StoreHead ==
  ASSUME TypeCore, NEW k \in Keys, NEW v \in Versions, Store(k, v)
  PROVE  \A j \in Keys : versions'[j][1] = versions[j][1]
<1>1. CASE versions' = versions
  BY <1>1
<1>2. CASE versions' = [versions EXCEPT ![k] = Append(versions[k], v)]
  <2>1. Append(versions[k], v)[1] = versions[k][1]
    BY VersionsType
  <2> QED BY <1>2, <2>1 DEF TypeCore
<1> QED BY <1>1, <1>2 DEF Store

LEMMA UpdateHead ==
  ASSUME TypeCore, worker.key \in Keys, NEW v \in Versions, NEW next, NEW failed,
         Update(v, next, failed)
  PROVE  \A j \in Keys : versions'[j][1] = versions[j][1]
<1>1. CASE UNCHANGED versions
  BY <1>1
<1>2. CASE /\ Accepts(worker.key, v)
           /\ Store(worker.key, Persisted(worker.key, v))
  BY <1>2, PersistedVersion, StoreHead
<1> QED BY <1>1, <1>2 DEF Update

LEMMA PastKept ==
  IInv /\ PastInv /\ (WorkerStep \/ Others) => PastInv'
<1> SUFFICES ASSUME IInv, PastInv, WorkerStep \/ Others PROVE PastInv'
  OBVIOUS
<1>1. UNCHANGED <<past, behind>>
  BY DEF WorkerStep, Others, informer
<1>2. \A j \in Keys : versions'[j][1] = versions[j][1]
  <2>1. CASE UNCHANGED versions
    BY <2>1
  <2>2. CASE AddFinalizer \/ RemoveFinalizer \/ RecordCreated \/ RecordAcquired \/ RecordAcl
    <3>1. worker.key \in Keys /\ inst \in Versions
      BY <2>2, AtCall
      DEF AddFinalizer, RemoveFinalizer, RecordCreated, RecordAcquired, RecordAcl,
          Provisioning, Deleting
    <3>2. PICK v \in {inst, [inst EXCEPT !.finalizer = TRUE],
                      [inst EXCEPT !.finalizer = FALSE]} :
            \E next, failed : Update(v, next, failed)
      BY <2>2
      DEF AddFinalizer, RemoveFinalizer, RecordCreated, RecordAcquired, RecordAcl
    <3>3. v \in Versions
      BY <3>1, <3>2 DEF Versions
    <3> QED BY <3>1, <3>2, <3>3, UpdateHead DEF IInv
  <2>3. CASE \E k \in Keys :
               \/ UserDelete(k)
               \/ \E spec \in Specs : UserCreate(k, spec) \/ UserEdit(k, spec)
    BY <2>3, UserStores, StoreHead DEF IInv
  <2> QED BY <2>1, <2>2, <2>3
          DEF WorkerStep, TakeKey, HeadBucket, CreateBucket, GetBucketLocation,
              ConfigureTagsAndPolicy, PutBucketAcl, ConfigureRest, Configuring,
              DeleteBucket, EmptyBucket, DeleteEmptied, FinishItem, Others,
              OutsiderCreatesBucket, OutsiderDeletesBucket,
              OutsiderChangesObjects, OutsiderActs
<1> QED BY <1>1, <1>2 DEF PastInv, PastType

LEMMA OutsiderInv ==
  ASSUME IInv, NEW b \in Buckets,
         OutsiderCreatesBucket(b) \/ OutsiderDeletesBucket(b) \/ OutsiderChangesObjects(b)
  PROVE  IInv'
<1>1. OutsiderActs
  BY DEF OutsiderCreatesBucket, OutsiderDeletesBucket, OutsiderChangesObjects
<1>2. s3' \in [Buckets -> BucketStates]
  <2>1. \A spec \in Specs : NewBucket(spec, Outsider) \in BucketStates
    BY BucketTypes
  <2>2. /\ [s3 EXCEPT ![b] = NoBucket] \in [Buckets -> BucketStates]
        /\ [s3 EXCEPT ![b].objects = ~@] \in [Buckets -> BucketStates]
        /\ \A spec \in Specs : [s3 EXCEPT ![b] = NewBucket(spec, Outsider)]
                                 \in [Buckets -> BucketStates]
    BY <2>1, BucketTypes, BucketUpdates DEF IInv
  <2> QED BY <2>2 DEF OutsiderCreatesBucket, OutsiderDeletesBucket, OutsiderChangesObjects
<1>3. spent' \in Spending
  BY <1>1, SpentType DEF OutsiderActs, IInv
<1> QED BY <1>1, <1>2, <1>3
    DEF OutsiderActs, IInv, TypeCore, VersionsInv, InstanceInv, inst

LEMMA CrashInv == IInv /\ PastInv /\ Crash => IInv' /\ PastInv'
<1> SUFFICES ASSUME IInv, PastInv, Crash PROVE IInv' /\ PastInv'
  OBVIOUS
<1>1. /\ versions' \in [Keys -> Seq(Versions) \ {<< >>}]
      /\ VersionsInv' /\ PastInv'
  BY CrashMoves, CacheMovesInv DEF IInv
<1>2. wq' \in WorkQueues(Keys)
  <2>1. {k \in Keys : Cached(k)'.phase # "absent"} \subseteq Keys
    OBVIOUS
  <2> QED BY <2>1 DEF Crash, EmptyQueue, WorkQueues
<1>3. worker' = Idle /\ Idle \in Workers
  BY NeverCreatedType DEF Crash, Idle, Workers, PCs
<1>4. spent' \in Spending
  <2>1. spent \in Spending
    BY DEF IInv, TypeCore
  <2>2. /\ spent.crashes < MaxCrashes
        /\ spent' = [spent EXCEPT !.crashes = spent.crashes + 1]
    BY DEF Crash
  <2>3. spent.crashes + 1 \in 0..MaxCrashes
    BY <2>1, <2>2, ConstantsAssumption DEF Spending, ConstantsAssumption
  <2> QED BY <2>1, <2>2, <2>3 DEF Spending
<1>5. InstanceInv'
  BY <1>3 DEF InstanceInv, Idle, Provisioning, Deleting
<1>6. UNCHANGED <<s3, recorded, released, made>>
  BY DEF Crash
<1> QED BY <1>1, <1>2, <1>3, <1>4, <1>5, <1>6 DEF IInv, TypeCore

-----------------------------------------------------------------------------
(* The theorems.                                                           *)

LEMMA InitInv == Init => IInv /\ PastInv
<1> SUFFICES ASSUME Init PROVE IInv /\ PastInv
  OBVIOUS
<1>1. versions = [k \in Keys |-> <<NeverCreated>>] /\ NeverCreated \in Versions
  BY NeverCreatedType DEF Init
<1>2. versions \in [Keys -> Seq(Versions) \ {<< >>}]
  BY <1>1
<1>3. VersionsInv
  BY <1>1 DEF VersionsInv, Increasing, GuardKept, LastOf, LiveGuarded, NeverCreated
<1>4. s3 \in [Buckets -> BucketStates]
  BY BucketTypes DEF Init
<1>5. wq \in WorkQueues(Keys)
  BY DEF Init, EmptyQueue, WorkQueues
<1>6. worker = Idle /\ Idle \in Workers
  BY NeverCreatedType DEF Init, Idle, Workers, PCs
<1>7. spent \in Spending
  BY ConstantsAssumption DEF Init, Spending, ConstantsAssumption
<1>8. InstanceInv
  BY <1>6 DEF InstanceInv, Idle, Provisioning, Deleting
<1>9. PastInv
  BY ConstantsAssumption DEF Init, PastInv, PastType, ConstantsAssumption
<1> QED BY <1>2, <1>3, <1>4, <1>5, <1>6, <1>7, <1>8, <1>9 DEF IInv, TypeCore, Init

LEMMA NextInv == IInv /\ PastInv /\ [Next]_vars => IInv' /\ PastInv'
<1> SUFFICES ASSUME IInv, PastInv, [Next]_vars PROVE IInv' /\ PastInv'
  OBVIOUS
<1>1. CASE WorkerStep
  BY <1>1, WorkerStepInv, PastKept
<1>2. CASE \E k \in Keys : Deliver(k) \/ Relist(k)
  BY <1>2, InformerInv
<1>3. CASE \E k \in Keys : Resync(k) \/ Enqueue(k)
  <2>1. UNCHANGED <<versions, past, behind>>
    BY <1>3 DEF Resync, Enqueue, informer
  <2> QED BY <1>3, <2>1, QueueInv DEF PastInv, PastType
<1>4. CASE Others
  BY <1>4, UserInv, OutsiderInv, PastKept DEF Others
<1>5. CASE Crash
  BY <1>5, CrashInv
<1>6. CASE UNCHANGED vars
  BY <1>6 DEF vars, informer, IInv, TypeCore, VersionsInv, InstanceInv, inst,
              PastInv, PastType
<1> QED BY <1>1, <1>2, <1>3, <1>4, <1>5, <1>6 DEF Next, Environment

(* IInv and PastInv hold in every state of the controller and its          *)
(* environment.                                                            *)
THEOREM Invariance == Spec => [](IInv /\ PastInv)
  BY InitInv, NextInv, PTL DEF Spec

(* Type correctness of the controller, the queue, the API server's         *)
(* objects, what may still be listed of them, and the buckets.             *)
THEOREM TypeCorrect == Spec => []TypeOK
<1>1. IInv /\ PastInv => TypeOK
  BY DEF IInv, TypeCore, PastInv, PastType, TypeOK
<1> QED BY Invariance, <1>1, PTL

(* Reconcile only provisions for an object that the API server still holds *)
(* under our finalizer, however far the cache lags behind, and across      *)
(* conflicts, lost answers, crashes and lists of any age: as long as the   *)
(* cache had not gone back when the worker read the object from it.        *)
THEOREM FinalizerGuards == Spec => []FinalizerGuardsProvisioning
<1>1. IInv => FinalizerGuardsProvisioning
  <2> SUFFICES ASSUME IInv, worker.pc \in Provisioning, ~worker.rewound
               PROVE  Stored(worker.key).phase # "absent" /\ Stored(worker.key).finalizer
    BY DEF FinalizerGuardsProvisioning
  <2>1. worker.pc # "idle"
    BY DEF Provisioning
  <2>2. /\ worker.key \in Keys /\ Read(inst, versions[worker.key], worker.rewound)
        /\ LiveGuarded(inst)
    BY <2>1 DEF IInv, InstanceInv
  <2>3. Stored(worker.key) = LastOf(versions[worker.key])
    BY DEF Stored, LastOf
  <2> QED BY <2>2, <2>3 DEF Read, Guarded
<1> QED BY Invariance, <1>1, PTL

-----------------------------------------------------------------------------
(* What is recorded: the inductive invariant of ownership.                 *)

(* The ARN of a version has been stored.                                   *)
Known(k, v, R) == v.status.arn = NONE \/ <<k, v.status.arn>> \in R

VersionsKnown ==
  \A k \in Keys : \A i \in 1..Len(versions[k]) : Known(k, versions[k][i], recorded)

PastKnown ==
  \A k \in Keys : \A i \in 1..Len(past[k]) : Known(k, past[k][i], recorded)

(* The calls made with an instance whose ARN is as it was stored.          *)
Holding == {"addFinalizer", "headBucket", "createBucket", "getLocation",
            "recordAcl", "removeFinalizer"} \cup WritesToTarget \cup WritesToOwned

(* The calls made once the instance has the ARN of the bucket it names.    *)
Placed == {"recordCreated", "recordAcquired", "recordAcl"} \cup WritesToTarget

CallInv(w, R) ==
  /\ w.pc \in Holding => Known(w.key, w.inst, R)
  /\ w.pc = "headBucket" => w.inst.status.arn \in {NONE, w.inst.spec.bucket}
  /\ w.pc \in Placed => w.inst.status.arn = w.inst.spec.bucket
  /\ w.pc \in WritesToOwned => w.inst.status.arn # NONE

Ownership == VersionsKnown /\ CallInv(worker, recorded)

-----------------------------------------------------------------------------
(* What is stored.                                                         *)

LEMMA StoreKnown ==
  ASSUME TypeCore, VersionsKnown, NEW k \in Keys, NEW v \in Versions, Store(k, v)
  PROVE  VersionsKnown' /\ recorded \subseteq recorded' /\ Known(k, v, recorded')
<1> DEFINE S == versions[k]
<1>1. S \in Seq(Versions) /\ Len(S) \in Nat \ {0} /\ Stored(k) = S[Len(S)]
  BY VersionsType DEF LastOf
<1>2. recorded \subseteq recorded' /\ Known(k, v, recorded')
  BY DEF Store, Known
<1>3. CASE v = Stored(k)
  <2>1. versions' = versions
    BY <1>3 DEF Store
  <2> QED BY <1>2, <2>1 DEF VersionsKnown, Known
<1>4. CASE v # Stored(k)
  <2>1. versions' = [versions EXCEPT ![k] = Append(S, v)]
    BY <1>4 DEF Store
  <2>2. DOMAIN versions = Keys
    BY DEF TypeCore
  <2>3. versions'[k] = Append(S, v) /\ \A j \in Keys \ {k} : versions'[j] = versions[j]
    BY <2>1, <2>2
  <2> HIDE DEF S
  <2>4. /\ Len(Append(S, v)) = Len(S) + 1
        /\ \A i \in 1..Len(S) : Append(S, v)[i] = S[i]
        /\ Append(S, v)[Len(S) + 1] = v
    BY <1>1
  <2>5. ASSUME NEW i \in 1..Len(Append(S, v))
        PROVE  Known(k, Append(S, v)[i], recorded')
    <3>1. CASE i \in 1..Len(S)
      <4>1. Known(k, S[i], recorded)
        BY <3>1 DEF VersionsKnown, S
      <4> QED BY <1>2, <2>4, <3>1, <4>1 DEF Known
    <3>2. i \in 1..Len(S) \/ i = Len(S) + 1
      BY <1>1, <2>4
    <3> QED BY <1>2, <2>4, <3>1, <3>2
  <2>6. ASSUME NEW j \in Keys \ {k}, NEW i \in 1..Len(versions[j])
        PROVE  Known(j, versions[j][i], recorded')
    BY <1>2 DEF VersionsKnown, Known
  <2>7. ASSUME NEW j \in Keys, NEW i \in 1..Len(versions'[j])
        PROVE  Known(j, versions'[j][i], recorded')
    <3>1. CASE j = k
      BY <2>3, <2>5, <3>1
    <3>2. CASE j # k
      BY <2>3, <2>6, <3>2
    <3> QED BY <3>1, <3>2
  <2>8. VersionsKnown'
    BY <2>7 DEF VersionsKnown, Known
  <2> QED BY <1>2, <2>8
<1> QED BY <1>3, <1>4, <1>2

(* An Update keeps the fields it is given, or fails.                       *)
LEMMA UpdateKnown ==
  ASSUME TypeCore, VersionsKnown, worker.key \in Keys, NEW v \in Versions,
         NEW next, NEW failed, Update(v, next, failed)
  PROVE  /\ VersionsKnown' /\ recorded \subseteq recorded'
         /\ worker'.key = worker.key
         /\ \/ worker'.pc = failed /\ worker'.inst = worker.inst
            \/ /\ worker'.pc = next
               /\ worker'.inst.spec = v.spec /\ worker'.inst.status = v.status
               /\ Known(worker.key, v, recorded')
<1> DEFINE p == Persisted(worker.key, v)
<1>1. worker \in [pc : PCs, key : Keys \cup {NONE}, inst : Versions,
                 rewound : BOOLEAN]
  BY DEF TypeCore, Workers
<1>2. Accepts(worker.key, v) => p \in Versions
  BY PersistedVersion
<1>3. p.spec = v.spec /\ p.status = v.status
  BY DEF Persisted, Versions
<1>4. ASSUME UNCHANGED <<versions, recorded>>, GoTo(failed)
      PROVE  /\ VersionsKnown' /\ recorded \subseteq recorded'
             /\ worker'.key = worker.key
             /\ worker'.pc = failed /\ worker'.inst = worker.inst
  BY <1>1, <1>4 DEF GoTo, VersionsKnown
<1>5. CASE /\ Accepts(worker.key, v) /\ Store(worker.key, p)
           /\ worker' = [worker EXCEPT !.pc = next, !.inst = p]
  <2>1. VersionsKnown' /\ recorded \subseteq recorded' /\ Known(worker.key, p, recorded')
    BY <1>2, <1>5, StoreKnown
  <2>2. worker'.key = worker.key /\ worker'.pc = next /\ worker'.inst = p
    BY <1>1, <1>5
  <2> HIDE DEF p
  <2> QED BY <1>3, <2>1, <2>2 DEF Known
<1>6. CASE GoTo(failed) /\ UNCHANGED <<versions, recorded>>
  BY <1>4, <1>6
<1>7. CASE GoTo(failed) /\ Accepts(worker.key, v) /\ Store(worker.key, p)
  <2>1. VersionsKnown' /\ recorded \subseteq recorded'
    BY <1>2, <1>7, StoreKnown
  <2> QED BY <1>1, <1>7, <2>1 DEF GoTo
<1> QED BY <1>5, <1>6, <1>7 DEF Update

-----------------------------------------------------------------------------
(* The worker's steps.                                                     *)

(* The instance of a step that has one, and what GoTo leaves of it.        *)
LEMMA GoToKnown ==
  ASSUME TypeCore, VersionsKnown, NEW p, GoTo(p), UNCHANGED <<versions, recorded>>
  PROVE  /\ VersionsKnown' /\ worker'.pc = p
         /\ worker'.key = worker.key /\ worker'.inst = worker.inst
  BY DEF TypeCore, Workers, GoTo, VersionsKnown

LEMMA Ends ==
  ASSUME VersionsKnown', worker'.pc \in Outcomes \cup {"idle"}
  PROVE  Ownership'
  BY DEF Ownership, CallInv, Holding, Placed, WritesToTarget, WritesToOwned, Outcomes

LEMMA TakeKeyOwns == IInv /\ PastInv /\ Ownership /\ PastKnown /\ TakeKey => Ownership'
<1> SUFFICES ASSUME IInv, PastInv, Ownership, PastKnown, TakeKey PROVE Ownership'
  OBVIOUS
<1> DEFINE k == Head(wq.queue)
           v == Cached(k)
<1>1. k \in Keys
  <2>1. wq \in WorkQueues(Keys) /\ wq.queue # << >>
    BY DEF IInv, TypeCore, TakeKey
  <2>2. wq.queue \in Seq(Keys)
    BY <2>1 DEF WorkQueues
  <2> QED BY <2>1, <2>2
<1>2. v \in Versions
  BY <1>1, CachedVersion DEF IInv
<1>3. Known(k, v, recorded)
  <2> HIDE DEF k
  <2>1. /\ Len(versions[k]) \in Nat \ {0} /\ Len(past[k]) \in Nat
        /\ behind[k] \in Nat /\ behind[k] <= Len(past[k])
    BY <1>1, VersionsType DEF IInv, PastInv, PastType
  <2>2. CASE behind[k] = 0
    <3>1. v = versions[k][1]
      BY <1>1, <2>2, CachedVersion DEF IInv
    <3> QED BY <1>1, <2>1, <3>1 DEF Ownership, VersionsKnown
  <2>3. CASE behind[k] > 0
    <3> DEFINE i == Len(past[k]) + 1 - behind[k]
    <3>1. i \in 1..Len(past[k]) /\ v = past[k][i]
      BY <2>1, <2>3 DEF Cached
    <3> HIDE DEF i
    <3> QED BY <1>1, <3>1 DEF PastKnown
  <2> QED BY <2>1, <2>2, <2>3
<1>4. /\ worker' = [pc |-> StartReconcile(v), key |-> k, inst |-> v,
                    rewound |-> behind[k] > 0]
      /\ UNCHANGED <<versions, recorded>>
  BY DEF TakeKey
<1>5. VersionsKnown'
  BY <1>4 DEF Ownership, VersionsKnown
<1> HIDE DEF k, v
<1>6. /\ StartReconcile(v) \in {"done", "addFinalizer", "nonRetryable", "headBucket",
                                "removeFinalizer", "deleteBucket"}
      /\ StartReconcile(v) = "headBucket" => v.status.arn \in {NONE, v.spec.bucket}
      /\ StartReconcile(v) = "deleteBucket" => v.status.arn # NONE
  <2>1. /\ AfterFinalizer(v) \in {"headBucket", "nonRetryable"}
        /\ AfterFinalizer(v) = "headBucket" => v.status.arn \in {NONE, v.spec.bucket}
    BY DEF AfterFinalizer, Validate
  <2>2. /\ StartDeletion(v) \in {"removeFinalizer", "deleteBucket"}
        /\ StartDeletion(v) = "deleteBucket" => v.status.arn # NONE
    BY DEF StartDeletion
  <2>3. StartReconcile(v) \in {"done", "addFinalizer", AfterFinalizer(v), StartDeletion(v)}
    <3>1. v.phase \in {"absent", "live", "terminating"} /\ v.finalizer \in BOOLEAN
      BY <1>2 DEF Versions
    <3> QED BY <3>1 DEF StartReconcile
  <2> QED BY <2>1, <2>2, <2>3
<1> QED BY <1>3, <1>4, <1>5, <1>6
        DEF Ownership, CallInv, Placed, WritesToTarget, WritesToOwned

LEMMA AddFinalizerOwns == IInv /\ Ownership /\ AddFinalizer => Ownership'
<1> SUFFICES ASSUME IInv, Ownership, AddFinalizer PROVE Ownership'
  OBVIOUS
<1> DEFINE v == [inst EXCEPT !.finalizer = TRUE]
<1>1. worker.pc = "addFinalizer" /\ Update(v, AfterFinalizer(inst), "requeue")
  BY DEF AddFinalizer
<1>2. /\ worker.key \in Keys /\ inst \in Versions /\ v \in Versions
      /\ v.spec = inst.spec /\ v.status = inst.status
  BY <1>1, AtCall DEF Versions
<1>3. Known(worker.key, inst, recorded)
  BY <1>1 DEF Ownership, CallInv, Holding, inst
<1> HIDE DEF v
<1>4. /\ VersionsKnown' /\ recorded \subseteq recorded' /\ worker'.key = worker.key
      /\ \/ worker'.pc = "requeue"
         \/ /\ worker'.pc = AfterFinalizer(inst)
            /\ worker'.inst.spec = inst.spec /\ worker'.inst.status = inst.status
  BY <1>1, <1>2, UpdateKnown DEF IInv, Ownership
<1>5. CASE worker'.pc = "requeue"
  BY <1>4, <1>5, Ends DEF Outcomes
<1>6. CASE /\ worker'.pc = AfterFinalizer(inst)
           /\ worker'.inst.spec = inst.spec /\ worker'.inst.status = inst.status
  <2>1. /\ worker'.pc \in {"headBucket", "nonRetryable"}
        /\ worker'.pc = "headBucket" => inst.status.arn \in {NONE, inst.spec.bucket}
    BY <1>6 DEF AfterFinalizer, Validate
  <2>2. CASE worker'.pc = "nonRetryable"
    BY <1>4, <2>2, Ends DEF Outcomes
  <2>3. CASE worker'.pc = "headBucket"
    BY <1>3, <1>4, <1>6, <2>1, <2>3
    DEF Ownership, CallInv, Known, Placed, WritesToTarget, WritesToOwned
  <2> QED BY <2>1, <2>2, <2>3
<1> QED BY <1>4, <1>5, <1>6

(* A call that leads on to another call or ends the reconcile, and keeps   *)
(* the instance.                                                           *)
LEMMA GoesOn ==
  ASSUME IInv, Ownership, NEW p, GoTo(p), UNCHANGED <<versions, recorded>>,
         worker.pc \in Holding,
         \/ p \in Outcomes \cup {"createBucket", "getLocation", "removeFinalizer"}
         \/ p \in WritesToTarget /\ inst.status.arn = inst.spec.bucket
         \/ p \in WritesToOwned /\ worker.pc \in WritesToOwned
  PROVE  Ownership'
<1>1. /\ VersionsKnown' /\ worker'.pc = p
      /\ worker'.key = worker.key /\ worker'.inst = worker.inst
  BY GoToKnown DEF IInv, Ownership
<1>2. Known(worker.key, worker.inst, recorded)
  BY DEF Ownership, CallInv
<1>3. CASE p \in Outcomes
  BY <1>1, <1>3, Ends
<1>4. CASE p \in {"createBucket", "getLocation", "removeFinalizer"}
  BY <1>1, <1>2, <1>4
  DEF Ownership, CallInv, Placed, WritesToTarget, WritesToOwned, Known
<1>5. CASE p \in WritesToTarget /\ inst.status.arn = inst.spec.bucket
  BY <1>1, <1>2, <1>5 DEF Ownership, CallInv, WritesToTarget, WritesToOwned, Known, inst
<1>6. CASE p \in WritesToOwned /\ worker.pc \in WritesToOwned
  BY <1>1, <1>2, <1>6
  DEF Ownership, CallInv, Placed, WritesToTarget, WritesToOwned, Known
<1> QED BY <1>3, <1>4, <1>5, <1>6

LEMMA HeadBucketOwns == IInv /\ Ownership /\ HeadBucket => Ownership'
<1> SUFFICES ASSUME IInv, Ownership, HeadBucket PROVE Ownership'
  OBVIOUS
<1>1. worker.pc = "headBucket" /\ UNCHANGED <<versions, recorded>>
  BY DEF HeadBucket
<1>2. worker.pc \in Holding /\ inst.status.arn \in {NONE, inst.spec.bucket}
  BY <1>1 DEF Holding, Ownership, CallInv, inst
<1>3. PICK p \in {AfterExists(inst), "createBucket", "nonRetryable", "retryable"} : GoTo(p)
  BY DEF HeadBucket
<1>4. \/ AfterExists(inst) = "getLocation"
      \/ AfterExists(inst) = "nonRetryable"
      \/ AfterExists(inst) = "configure" /\ inst.status.arn # NONE
  <2>1. CASE inst.status.arn # NONE
    BY <2>1 DEF AfterExists
  <2>2. CASE inst.status.arn = NONE
    BY <2>2 DEF AfterExists
  <2> QED BY <2>1, <2>2
<1>5. \/ p \in Outcomes \cup {"createBucket", "getLocation"}
      \/ p \in WritesToTarget /\ inst.status.arn = inst.spec.bucket
  BY <1>2, <1>3, <1>4 DEF Outcomes, WritesToTarget
<1> QED BY <1>1, <1>2, <1>3, <1>5, GoesOn

(* The instance gets its ARN in memory, to be stored next.                 *)
LEMMA CreateBucketOwns == IInv /\ Ownership /\ CreateBucket => Ownership'
<1> SUFFICES ASSUME IInv, Ownership, CreateBucket PROVE Ownership'
  OBVIOUS
<1>1. worker.pc = "createBucket" /\ UNCHANGED <<versions, recorded>>
  BY DEF CreateBucket
<1>2. CASE worker' = [worker EXCEPT !.pc = "recordCreated",
                                    !.inst.status = CreatedStatus(inst.spec)]
  <2>1. worker \in Workers /\ inst \in Versions
    BY AtCall
  <2>2. /\ worker'.pc = "recordCreated"
        /\ worker'.inst = [inst EXCEPT !.status = CreatedStatus(inst.spec)]
    BY <1>2, <2>1 DEF Workers, inst
  <2>3. worker'.inst.spec = inst.spec /\ worker'.inst.status.arn = inst.spec.bucket
    BY <2>1, <2>2 DEF Versions, CreatedStatus
  <2>4. VersionsKnown'
    BY <1>1 DEF Ownership, VersionsKnown
  <2> QED BY <2>2, <2>3, <2>4
          DEF Ownership, CallInv, Holding, WritesToTarget, WritesToOwned
<1>3. CASE GoTo(worker.pc) \/ GoTo("nonRetryable") \/ GoTo("retryable")
  <2>1. worker.pc \in Holding /\ {"nonRetryable", "retryable"} \subseteq Outcomes
    BY <1>1 DEF Holding, Outcomes
  <2> QED BY <1>1, <1>3, <2>1, GoesOn
<1> QED BY <1>2, <1>3 DEF AnswerLost, CreateBucket

LEMMA GetBucketLocationOwns == IInv /\ Ownership /\ GetBucketLocation => Ownership'
<1> SUFFICES ASSUME IInv, Ownership, GetBucketLocation PROVE Ownership'
  OBVIOUS
<1>1. worker.pc = "getLocation" /\ UNCHANGED <<versions, recorded>>
  BY DEF GetBucketLocation
<1>2. CASE worker' = [worker EXCEPT !.pc = "recordAcquired",
                                    !.inst.status = AcquiredStatus(inst, Target)]
  <2>1. worker \in Workers /\ inst \in Versions /\ inst.status \in Statuses
    BY AtCall
  <2>2. /\ worker'.pc = "recordAcquired"
        /\ worker'.inst = [inst EXCEPT !.status = AcquiredStatus(inst, Target)]
    BY <1>2, <2>1 DEF Workers, inst
  <2>3. AcquiredStatus(inst, Target).arn = inst.spec.bucket
    BY <2>1 DEF AcquiredStatus, Statuses
  <2>4. worker'.inst.spec = inst.spec /\ worker'.inst.status.arn = inst.spec.bucket
    BY <2>1, <2>2, <2>3 DEF Versions
  <2>5. VersionsKnown'
    BY <1>1 DEF Ownership, VersionsKnown
  <2> QED BY <2>2, <2>4, <2>5
          DEF Ownership, CallInv, Holding, WritesToTarget, WritesToOwned
<1>3. CASE GoTo("nonRetryable") \/ GoTo("retryable")
  <2>1. worker.pc \in Holding /\ {"nonRetryable", "retryable"} \subseteq Outcomes
    BY <1>1 DEF Holding, Outcomes
  <2> QED BY <1>1, <1>3, <2>1, GoesOn
<1> QED BY <1>2, <1>3 DEF GetBucketLocation

(* The Update that stores the ARN makes it known.                          *)
LEMMA RecordOwns ==
  IInv /\ Ownership /\ (RecordCreated \/ RecordAcquired \/ RecordAcl) => Ownership'
<1> SUFFICES ASSUME IInv, Ownership, RecordCreated \/ RecordAcquired \/ RecordAcl
             PROVE  Ownership'
  OBVIOUS
<1>1. worker.pc \in {"recordCreated", "recordAcquired", "recordAcl"}
  BY DEF RecordCreated, RecordAcquired, RecordAcl
<1>2. PICK next \in {"configure", "configureRest"} : Update(inst, next, "nonRetryable")
  BY DEF RecordCreated, RecordAcquired, RecordAcl
<1>3. worker.key \in Keys /\ inst \in Versions /\ inst.status.arn = inst.spec.bucket
  BY <1>1, AtCall DEF Provisioning, Ownership, CallInv, Placed, inst
<1>4. /\ VersionsKnown' /\ worker'.key = worker.key
      /\ \/ worker'.pc = "nonRetryable"
         \/ /\ worker'.pc = next
            /\ worker'.inst.spec = inst.spec /\ worker'.inst.status = inst.status
            /\ Known(worker.key, inst, recorded')
  BY <1>2, <1>3, UpdateKnown DEF IInv, Ownership
<1>5. CASE worker'.pc = "nonRetryable"
  BY <1>4, <1>5, Ends DEF Outcomes
<1>6. CASE /\ worker'.pc = next
           /\ worker'.inst.spec = inst.spec /\ worker'.inst.status = inst.status
           /\ Known(worker.key, inst, recorded')
  BY <1>2, <1>3, <1>4, <1>6 DEF Ownership, CallInv, WritesToOwned, Known
<1> QED BY <1>4, <1>5, <1>6

LEMMA ConfigureOwns ==
  IInv /\ Ownership /\ (ConfigureTagsAndPolicy \/ ConfigureRest) => Ownership'
<1> SUFFICES ASSUME IInv, Ownership, ConfigureTagsAndPolicy \/ ConfigureRest
             PROVE  Ownership'
  OBVIOUS
<1>1. worker.pc \in WritesToTarget /\ UNCHANGED <<versions, recorded>>
  BY DEF ConfigureTagsAndPolicy, ConfigureRest, Configuring, WritesToTarget
<1>2. worker.pc \in Holding /\ inst.status.arn = inst.spec.bucket
  BY <1>1 DEF Holding, Ownership, CallInv, Placed, inst
<1>3. PICK p \in {AfterPolicy(inst), "done", "nonRetryable", "retryable"} : GoTo(p)
  BY DEF ConfigureTagsAndPolicy, ConfigureRest, Configuring
<1>4. p \in Outcomes \cup WritesToTarget
  BY <1>3 DEF AfterPolicy, Outcomes, WritesToTarget
<1> QED BY <1>1, <1>2, <1>3, <1>4, GoesOn

LEMMA PutBucketAclOwns == IInv /\ Ownership /\ PutBucketAcl => Ownership'
<1> SUFFICES ASSUME IInv, Ownership, PutBucketAcl PROVE Ownership'
  OBVIOUS
<1>1. /\ worker.pc = "putAcl" /\ worker.pc \in Holding
      /\ UNCHANGED <<versions, recorded>>
  BY DEF PutBucketAcl, Holding, WritesToTarget
<1>2. /\ Known(worker.key, inst, recorded)
      /\ inst.status.arn = inst.spec.bucket
  BY <1>1 DEF Ownership, CallInv, Placed, WritesToTarget, inst
<1>3. CASE worker' = [worker EXCEPT !.pc = "recordAcl", !.inst.status.acl = inst.spec.acl]
  <2> DEFINE s == [inst.status EXCEPT !.acl = inst.spec.acl]
  <2>1. worker \in Workers /\ inst \in Versions /\ inst.status \in Statuses
    BY AtCall
  <2>2. s.arn = inst.status.arn
    BY <2>1 DEF Statuses
  <2>3. worker' = [worker EXCEPT !.pc = "recordAcl", !.inst.status = s]
    BY <1>3 DEF inst
  <2> HIDE DEF s
  <2>4. /\ worker'.pc = "recordAcl" /\ worker'.key = worker.key
        /\ worker'.inst = [inst EXCEPT !.status = s]
    BY <2>1, <2>3 DEF Workers, inst
  <2>5. worker'.inst.spec = inst.spec /\ worker'.inst.status = s
    BY <2>1, <2>4 DEF Versions
  <2>6. VersionsKnown'
    BY <1>1 DEF Ownership, VersionsKnown
  <2> QED BY <1>1, <1>2, <2>2, <2>4, <2>5, <2>6
          DEF Ownership, CallInv, WritesToOwned, Known
<1>4. CASE GoTo(worker.pc) \/ GoTo("nonRetryable") \/ GoTo("retryable")
  <2>1. {"nonRetryable", "retryable"} \subseteq Outcomes /\ worker.pc \in WritesToTarget
    BY <1>1 DEF Outcomes, WritesToTarget
  <2> QED BY <1>1, <1>2, <1>4, <2>1, GoesOn
<1> QED BY <1>3, <1>4 DEF AnswerLost, PutBucketAcl

LEMMA DeleteOwns ==
  IInv /\ Ownership /\ (DeleteBucket \/ EmptyBucket \/ DeleteEmptied) => Ownership'
<1> SUFFICES ASSUME IInv, Ownership, DeleteBucket \/ EmptyBucket \/ DeleteEmptied
             PROVE  Ownership'
  OBVIOUS
<1>1. /\ worker.pc \in WritesToOwned /\ worker.pc \in Holding
      /\ UNCHANGED <<versions, recorded>>
  BY DEF DeleteBucket, EmptyBucket, DeleteEmptied, WritesToOwned, Holding
<1>2. PICK p \in {worker.pc, "removeFinalizer", "nonRetryable", "emptyBucket",
                   "deleteEmptied"} : GoTo(p)
  BY DEF DeleteBucket, EmptyBucket, DeleteEmptied, BucketIsDeleted, AnswerLost
<1>3. p \in Outcomes \cup {"removeFinalizer"} \cup WritesToOwned
  BY <1>1, <1>2 DEF Outcomes, WritesToOwned
<1> QED BY <1>1, <1>2, <1>3, GoesOn

LEMMA RemoveFinalizerOwns == IInv /\ Ownership /\ RemoveFinalizer => Ownership'
<1> SUFFICES ASSUME IInv, Ownership, RemoveFinalizer PROVE Ownership'
  OBVIOUS
<1> DEFINE v == [inst EXCEPT !.finalizer = FALSE]
<1>1. worker.pc = "removeFinalizer" /\ Update(v, "done", "requeue")
  BY DEF RemoveFinalizer
<1>2. worker.key \in Keys /\ v \in Versions
  BY <1>1, AtCall DEF Versions
<1> HIDE DEF v
<1>3. VersionsKnown' /\ worker'.pc \in {"done", "requeue"}
  BY <1>1, <1>2, UpdateKnown DEF IInv, Ownership
<1> QED BY <1>3, Ends DEF Outcomes

LEMMA FinishItemOwns == Ownership /\ FinishItem => Ownership'
<1> SUFFICES ASSUME Ownership, FinishItem PROVE Ownership'
  OBVIOUS
<1>1. VersionsKnown' /\ worker'.pc = "idle"
  BY DEF FinishItem, Idle, Ownership, VersionsKnown
<1> QED BY <1>1, Ends

LEMMA WorkerStepOwns ==
  IInv /\ PastInv /\ Ownership /\ PastKnown /\ WorkerStep => Ownership'
  BY TakeKeyOwns, AddFinalizerOwns, HeadBucketOwns, CreateBucketOwns, RecordOwns,
     GetBucketLocationOwns, ConfigureOwns, PutBucketAclOwns, DeleteOwns,
     RemoveFinalizerOwns, FinishItemOwns
  DEF WorkerStep

-----------------------------------------------------------------------------
(* The informer and the environment.                                       *)

(* A cache that takes what it is told has what the API server had.         *)
LEMMA CacheMovesOwns ==
  ASSUME IInv, PastInv, VersionsKnown, PastKnown, CacheMoves, UNCHANGED recorded
  PROVE  VersionsKnown' /\ PastKnown'
<1>1. ASSUME NEW k \in Keys, NEW i \in 1..Len(versions'[k])
      PROVE  Known(k, versions'[k][i], recorded)
  <2>1. \E j \in 1..Len(versions[k]) : versions'[k][i] = versions[k][j]
    BY MovedVersions DEF IInv, CacheMoves
  <2> QED BY <2>1 DEF VersionsKnown
<1>2. ASSUME NEW k \in Keys, NEW i \in 1..Len(past'[k])
      PROVE  Known(k, past'[k][i], recorded)
  <2>1. \/ \E j \in 1..Len(past[k]) : past'[k][i] = past[k][j]
        \/ \E j \in 1..Len(versions[k]) : past'[k][i] = versions[k][j]
    BY MovedVersions DEF IInv, CacheMoves
  <2> QED BY <2>1 DEF VersionsKnown, PastKnown
<1> QED BY <1>1, <1>2 DEF VersionsKnown, PastKnown

LEMMA InformerOwns ==
  ASSUME IInv, PastInv, Ownership, PastKnown, NEW k \in Keys, Deliver(k) \/ Relist(k)
  PROVE  Ownership' /\ PastKnown'
<1>1. CacheMoves
  BY InformerMoves DEF IInv
<1>2. UNCHANGED <<worker, recorded>>
  BY DEF Deliver, Relist
<1> QED BY <1>1, <1>2, CacheMovesOwns DEF Ownership, CallInv, Known

(* Users store specs, never an ARN that was not stored before.             *)
LEMMA UserOwns ==
  ASSUME IInv, Ownership, NEW k \in Keys,
         \/ UserDelete(k)
         \/ \E spec \in Specs : UserCreate(k, spec) \/ UserEdit(k, spec)
  PROVE  Ownership'
<1>1. PICK v \in Versions : Store(k, v)
  BY UserStores DEF IInv
<1>2. worker' = worker
  BY DEF UserDelete, UserCreate, UserEdit
<1>3. VersionsKnown' /\ recorded \subseteq recorded'
  BY <1>1, StoreKnown DEF IInv, Ownership
<1> QED BY <1>2, <1>3 DEF Ownership, CallInv, Known

LEMMA CrashOwns ==
  IInv /\ PastInv /\ Ownership /\ PastKnown /\ Crash => Ownership' /\ PastKnown'
<1> SUFFICES ASSUME IInv, PastInv, Ownership, PastKnown, Crash
             PROVE  Ownership' /\ PastKnown'
  OBVIOUS
<1>1. VersionsKnown' /\ PastKnown'
  BY CrashMoves, CacheMovesOwns DEF Crash, Ownership
<1>2. worker'.pc = "idle"
  BY DEF Crash, Idle
<1> QED BY <1>1, <1>2, Ends

(* What has been recorded stays recorded.                                  *)
LEMMA RecordedGrows == WorkerStep \/ Others => recorded \subseteq recorded'
<1>1. ASSUME NEW k, NEW v, Store(k, v) PROVE recorded \subseteq recorded'
  BY <1>1 DEF Store
<1>2. ASSUME NEW v, NEW next, NEW failed, Update(v, next, failed)
      PROVE  recorded \subseteq recorded'
  BY <1>1, <1>2 DEF Update
<1>3. ASSUME WorkerStep PROVE recorded \subseteq recorded'
  BY <1>2, <1>3
  DEF WorkerStep, TakeKey, AddFinalizer, HeadBucket, CreateBucket, RecordCreated,
      GetBucketLocation, RecordAcquired, ConfigureTagsAndPolicy, PutBucketAcl,
      RecordAcl, ConfigureRest, Configuring, DeleteBucket, EmptyBucket,
      DeleteEmptied, RemoveFinalizer, FinishItem
<1>4. ASSUME Others PROVE recorded \subseteq recorded'
  BY <1>1, <1>4
  DEF Others, UserDelete, UserCreate, UserEdit, OutsiderCreatesBucket,
      OutsiderDeletesBucket, OutsiderChangesObjects, OutsiderActs
<1> QED BY <1>3, <1>4

LEMMA PastStaysKnown == PastKnown /\ (WorkerStep \/ Others) => PastKnown'
<1> SUFFICES ASSUME PastKnown, WorkerStep \/ Others PROVE PastKnown'
  OBVIOUS
<1>1. past' = past /\ recorded \subseteq recorded'
  BY RecordedGrows DEF WorkerStep, Others, informer
<1> QED BY <1>1 DEF PastKnown, Known

LEMMA OthersOwn ==
  ASSUME Ownership, UNCHANGED <<versions, worker, recorded>>
  PROVE  Ownership'
  BY DEF Ownership, VersionsKnown, CallInv, Known

-----------------------------------------------------------------------------
(* The theorems.                                                           *)

LEMMA InitOwns == Init => Ownership /\ PastKnown
<1> SUFFICES ASSUME Init PROVE Ownership /\ PastKnown
  OBVIOUS
<1>1. \A k \in Keys : versions[k] = <<NeverCreated>> /\ past[k] = << >>
  BY DEF Init
<1>2. NeverCreated.status.arn = NONE
  BY DEF NeverCreated, NoStatus
<1>3. VersionsKnown /\ PastKnown
  BY <1>1, <1>2 DEF VersionsKnown, PastKnown, Known
<1>4. worker.pc = "idle"
  BY DEF Init, Idle
<1> QED BY <1>3, <1>4
        DEF Ownership, CallInv, Holding, Placed, WritesToTarget, WritesToOwned

LEMMA NextOwns ==
  IInv /\ PastInv /\ Ownership /\ PastKnown /\ [Next]_vars => Ownership' /\ PastKnown'
<1> SUFFICES ASSUME IInv, PastInv, Ownership, PastKnown, [Next]_vars
             PROVE  Ownership' /\ PastKnown'
  OBVIOUS
<1>1. CASE WorkerStep
  BY <1>1, WorkerStepOwns, PastStaysKnown
<1>2. CASE \E k \in Keys : Deliver(k) \/ Relist(k)
  BY <1>2, InformerOwns
<1>3. CASE Others
  <2>1. CASE \E k \in Keys : \/ UserDelete(k)
                             \/ \E spec \in Specs : UserCreate(k, spec) \/ UserEdit(k, spec)
    BY <1>3, <2>1, UserOwns, PastStaysKnown
  <2>2. CASE \E b \in Buckets : \/ OutsiderCreatesBucket(b) \/ OutsiderDeletesBucket(b)
                                \/ OutsiderChangesObjects(b)
    BY <1>3, <2>2, OthersOwn, PastStaysKnown
    DEF OutsiderCreatesBucket, OutsiderDeletesBucket, OutsiderChangesObjects, OutsiderActs
  <2> QED BY <1>3, <2>1, <2>2 DEF Others
<1>4. CASE Crash
  BY <1>4, CrashOwns
<1>5. CASE UNCHANGED <<versions, past, worker, recorded>>
  BY <1>5, OthersOwn DEF PastKnown, Known
<1>6. CASE \E k \in Keys : Resync(k) \/ Enqueue(k)
  BY <1>5, <1>6 DEF Resync, Enqueue, informer
<1>7. CASE UNCHANGED vars
  BY <1>5, <1>7 DEF vars, informer
<1> QED BY <1>1, <1>2, <1>3, <1>4, <1>6, <1>7 DEF Next, Environment

(* ARNs are those that have been stored, in the worker's memory, in every  *)
(* version under way and in those that may be listed again.                *)
THEOREM OwnershipInvariance == Spec => [](Ownership /\ PastKnown)
  BY Invariance, InitOwns, NextOwns, PTL DEF Spec

(* The operator works only on buckets recorded for the object: every call  *)
(* that configures, empties or deletes a bucket is made for an object      *)
(* whose status has named this bucket at the API server.                   *)
THEOREM RecordedFirst == Spec => []OnlyRecordedBucketsTouched
<1>1. IInv /\ Ownership => OnlyRecordedBucketsTouched
  <2> SUFFICES ASSUME IInv, Ownership PROVE OnlyRecordedBucketsTouched
    OBVIOUS
  <2>1. CASE worker.pc \in WritesToTarget
    <3>1. Known(worker.key, inst, recorded) /\ inst.status.arn = inst.spec.bucket
      BY <2>1 DEF Ownership, CallInv, Holding, Placed, inst
    <3>2. inst.spec.bucket # NONE
      BY AtCall, ConstantsAssumption DEF ConstantsAssumption
    <3>3. worker.pc \notin WritesToOwned
      BY <2>1 DEF WritesToTarget, WritesToOwned
    <3> QED BY <3>1, <3>2, <3>3 DEF OnlyRecordedBucketsTouched, Known
  <2>2. CASE worker.pc \in WritesToOwned
    <3>1. Known(worker.key, inst, recorded) /\ inst.status.arn # NONE
      BY <2>2 DEF Ownership, CallInv, Holding, inst
    <3>2. worker.pc \notin WritesToTarget
      BY <2>2 DEF WritesToTarget, WritesToOwned
    <3> QED BY <3>1, <3>2 DEF OnlyRecordedBucketsTouched, Known
  <2> QED BY <2>1, <2>2 DEF OnlyRecordedBucketsTouched
<1> QED BY Invariance, OwnershipInvariance, <1>1, PTL
=============================================================================
