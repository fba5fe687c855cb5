-------------------------- MODULE BucketConfig_proof --------------------------
(***************************************************************************)
(* Proofs about BucketConfig, for every set of tags and values and every   *)
(* bound of the environment.                                               *)
(***************************************************************************)
EXTENDS BucketConfig, TLAPS

-----------------------------------------------------------------------------
(* The inductive invariant.                                                *)

(* What can never be read back as the spec has it.                         *)
Unreadable(f) ==
  \/ f = "tags" /\ DOMAIN want.tags \cap ReservedKeys # {}
  \/ f = "website" /\ ReadBack(f, want.settings[f]) # want.settings[f]

(* What was configured at the start is so until its turn has come.         *)
AheadInv ==
  \A i \in 1..Len(Order) :
    (Order[i] \in settled /\ (i > at \/ (i = at /\ call = "read"))) =>
      Configured(Order[i], want, remote)

BehindInv ==
  \A i \in 1..Len(Order) : i < at => Configured(Order[i], want, remote)

(* A write is on its way only if there was something to configure.         *)
WriteInv == (call # "read" /\ Feature \in settled) => Unreadable(Feature)

WrittenInv == \A f \in settled \cap written : Unreadable(f)

PassInv == AheadInv /\ BehindInv /\ WriteInv

(* Text that is not JSON is never sent.                                    *)
TextInv ==
  (call # "read" /\ Feature \in Settings) => want.settings[Feature] # Malformed

(* What was written is remembered beyond the end of the reconcile, and so  *)
(* is what was passed, when it ended without an error.                     *)
IInv ==
  /\ TypeOK /\ TextInv
  /\ ~disturbed => WrittenInv /\ (at # 0 => PassInv)

-----------------------------------------------------------------------------
(* The order and the features.                                             *)

LEMMA OrderFacts ==
  /\ Len(Order) = 8
  /\ Order[1] = "tags" /\ Order[2] = "policy" /\ Order[3] = "acl"
  /\ Order[4] = "encryption" /\ Order[5] = "versioning" /\ Order[6] = "logging"
  /\ Order[7] = "website" /\ Order[8] = "cors"
  BY DEF Order

LEMMA OrderIsInjective ==
  ASSUME NEW i \in 1..Len(Order), NEW j \in 1..Len(Order), Order[i] = Order[j]
  PROVE  i = j
<1>1. i \in {1, 2, 3, 4, 5, 6, 7, 8} /\ j \in {1, 2, 3, 4, 5, 6, 7, 8}
  BY OrderFacts
<1> QED BY <1>1, OrderFacts

LEMMA FeatureFacts ==
  ASSUME Running
  PROVE  at \in 1..Len(Order) /\ Feature = Order[at] /\ Feature \in Features
  BY DEF Running, Feature, Features

LEMMA ConfiguredFacts ==
  ASSUME NEW s, NEW b
  PROVE  /\ Configured("tags", s, b) <=> WithoutReserved(b.tags) = WithoutReserved(s.tags)
         /\ Configured("versioning", s, b) <=> ((b.versioning = "Enabled") = s.versioning)
         /\ \A f : f \notin Settings \cup {"tags", "versioning"} => Configured(f, s, b)
<1> USE DEF Configured, Settings
<1>1. Configured("tags", s, b) <=> WithoutReserved(b.tags) = WithoutReserved(s.tags)
  OBVIOUS
<1>2. Configured("versioning", s, b) <=> ((b.versioning = "Enabled") = s.versioning)
  OBVIOUS
<1>3. \A f : f \notin Settings \cup {"tags", "versioning"} => Configured(f, s, b)
  OBVIOUS
<1> QED BY <1>1, <1>2, <1>3

LEMMA ConfiguredSetting ==
  ASSUME NEW s, NEW b, NEW f \in Settings
  PROVE  Configured(f, s, b) <=> b.settings[f] = ReadBack(f, s.settings[f])
  BY DEF Configured, Settings

-----------------------------------------------------------------------------
(* Tags.                                                                   *)

(* What of the new tags can be sent is on the bucket, and nothing else.    *)
LEMMA RetaggedTags ==
  ASSUME NEW old, NEW new
  PROVE  WithoutReserved(Retagged(old, new)) = WithoutReserved(new)
<1> DEFINE D == DOMAIN new \ ReservedKeys
           t == Retagged(old, new)
<1>1. DOMAIN t = (DOMAIN old \cap ReservedKeys) \cup D BY DEF Retagged
<1>2. DOMAIN t \ ReservedKeys = D BY <1>1
<1>3. \A k \in D : t[k] = new[k] BY DEF Retagged
<1>4. [k \in DOMAIN t \ ReservedKeys |-> t[k]] = [k \in D |-> new[k]] BY <1>2, <1>3
<1> QED BY <1>4 DEF WithoutReserved, Restricted

LEMMA WithoutReservedTwice ==
  ASSUME NEW tags
  PROVE  WithoutReserved(WithoutReserved(tags)) = WithoutReserved(tags)
<1> DEFINE D == DOMAIN tags \ ReservedKeys
           t == [k \in D |-> tags[k]]
<1>1. DOMAIN t = D /\ D \ ReservedKeys = D OBVIOUS
<1>2. [k \in DOMAIN t \ ReservedKeys |-> t[k]] = t BY <1>1
<1> QED BY <1>2 DEF WithoutReserved, Restricted

LEMMA NoneReserved ==
  ASSUME NEW tags \in TagSets, DOMAIN tags \cap ReservedKeys = {}
  PROVE  WithoutReserved(tags) = tags
<1>1. PICK K \in SUBSET TagKeys : tags \in [K -> TagValues] BY DEF TagSets
<1>2. DOMAIN tags \ ReservedKeys = K /\ DOMAIN tags = K BY <1>1
<1>3. [k \in K |-> tags[k]] = tags BY <1>1
<1> QED BY <1>2, <1>3 DEF WithoutReserved, Restricted

LEMMA TagSetFacts ==
  ASSUME NEW tags, NEW K \in SUBSET TagKeys
  PROVE  tags \in [K -> TagValues] => tags \in TagSets
  BY DEF TagSets

LEMMA RetaggedType ==
  ASSUME NEW old \in TagSets, NEW new \in TagSets
  PROVE  Retagged(old, new) \in TagSets
<1>1. PICK K \in SUBSET TagKeys : old \in [K -> TagValues] BY DEF TagSets
<1>2. PICK L \in SUBSET TagKeys : new \in [L -> TagValues] BY DEF TagSets
<1> DEFINE M == (K \cap ReservedKeys) \cup (L \ ReservedKeys)
<1>3. Retagged(old, new) \in [M -> TagValues] BY <1>1, <1>2 DEF Retagged
<1> QED BY <1>3, TagSetFacts

LEMMA NoTagsType == NoTags \in TagSets
<1>1. NoTags \in [{} -> TagValues] BY DEF NoTags
<1> QED BY <1>1, TagSetFacts

-----------------------------------------------------------------------------
(* What a step of the worker does to the invariant.                        *)

Spents == [edits : 0..MaxEdits, outsider : 0..MaxOutsider, faults : 0..MaxFaults]

(* The other features stay as configured as they were.                     *)
OthersKept ==
  \A i \in 1..Len(Order) :
    (i # at /\ Configured(Order[i], want, remote)) => Configured(Order[i], want, remote')

WorkerStep ==
  /\ Running /\ UNCHANGED <<spec, want, disturbed, settled>>
  /\ remote' \in BucketConfigs /\ spent' \in Spents
  /\ \/ written' = written
     \/ written' = written \cup {Feature} /\ call # "read"

LEMMA WrittenKept ==
  ASSUME IInv, WorkerStep, ~disturbed
  PROVE  WrittenInv' /\ written' \subseteq Features
<1>1. WrittenInv /\ WriteInv
  BY FeatureFacts, OrderFacts DEF IInv, WorkerStep, PassInv
<1>2. \A f : Unreadable(f)' = Unreadable(f)
  BY DEF WorkerStep, Unreadable, ReadBack
<1>3. \A f \in settled \cap written' : f \in settled \cap written \/ (f = Feature /\ call # "read")
  BY DEF WorkerStep
<1>4. \A f \in settled' \cap written' : Unreadable(f)'
  BY <1>1, <1>2, <1>3 DEF WrittenInv, WriteInv, WorkerStep
<1>5. written' \subseteq Features
  BY FeatureFacts DEF IInv, TypeOK, WorkerStep
<1> QED BY <1>4, <1>5 DEF WrittenInv

LEMMA StepType ==
  ASSUME IInv, WorkerStep, at' \in 0..Len(Order) + 1, call' \in {"read", "write", "put"}
  PROVE  TypeOK'
<1>1. written' \subseteq Features
  BY FeatureFacts DEF IInv, TypeOK, WorkerStep
<1> QED BY <1>1 DEF IInv, TypeOK, WorkerStep, Spents

LEMMA AbortInv ==
  ASSUME IInv, WorkerStep, Abort
  PROVE  IInv'
<1>1. at' = 0 /\ call' = "read" BY DEF Abort
<1>2. at' \in 0..Len(Order) + 1 BY <1>1, OrderFacts
<1>3. TypeOK' /\ TextInv' BY <1>1, <1>2, StepType DEF TextInv
<1>4. ~disturbed' => WrittenInv' BY WrittenKept DEF WorkerStep
<1> QED BY <1>1, <1>3, <1>4 DEF IInv

LEMMA AdvanceInv ==
  ASSUME IInv, WorkerStep, NextFeature, OthersKept, Configured(Feature, want, remote')
  PROVE  IInv'
<1>1. at \in 1..Len(Order) /\ Feature = Order[at] /\ Len(Order) = 8
  BY FeatureFacts, OrderFacts DEF IInv, WorkerStep
<1>2. at' = at + 1 BY DEF NextFeature
<1>3. at' \in 0..Len(Order) + 1 /\ call' = "read" BY <1>1, <1>2 DEF NextFeature
<1>4. TypeOK' /\ TextInv' BY <1>3, StepType DEF TextInv
<1>5. SUFFICES ASSUME ~disturbed' PROVE WrittenInv' /\ PassInv'
  BY <1>4 DEF IInv
<1>6. ~disturbed /\ at' = at + 1 /\ PassInv
  BY <1>1, <1>2, <1>5 DEF WorkerStep, IInv
<1>7. \A f : Configured(f, want, remote)' <=> Configured(f, want, remote')
  BY DEF WorkerStep, Configured, ReadBack, WithoutReserved, Restricted
<1>8. AheadInv'
  <2>1. SUFFICES ASSUME NEW i \in 1..Len(Order), Order[i] \in settled, i >= at + 1
                 PROVE  Configured(Order[i], want, remote)'
    BY <1>1, <1>6 DEF AheadInv, WorkerStep
  <2>2. i > at /\ i # at BY <1>1, <2>1
  <2>3. Configured(Order[i], want, remote) BY <1>6, <2>1, <2>2 DEF PassInv, AheadInv
  <2> QED BY <1>7, <2>2, <2>3 DEF OthersKept
<1>9. BehindInv'
  <2>1. SUFFICES ASSUME NEW i \in 1..Len(Order), i < at + 1
                 PROVE  Configured(Order[i], want, remote)'
    BY <1>6 DEF BehindInv
  <2>2. CASE i = at BY <1>1, <1>7, <2>2
  <2>3. CASE i < at
    <3>1. Configured(Order[i], want, remote) /\ i # at
      BY <1>1, <1>6, <2>1, <2>3 DEF PassInv, BehindInv
    <3> QED BY <1>7, <3>1 DEF OthersKept
  <2> QED BY <1>1, <2>1, <2>2, <2>3
<1>10. WriteInv' BY <1>3 DEF WriteInv
<1>11. WrittenInv' BY <1>6, WrittenKept
<1> QED BY <1>8, <1>9, <1>10, <1>11 DEF PassInv

LEMMA StayInv ==
  ASSUME IInv, WorkerStep, at' = at, call' \in {"write", "put"}, OthersKept,
         ~disturbed => (Feature \in settled => Unreadable(Feature)),
         Feature \in Settings => want.settings[Feature] # Malformed
  PROVE  IInv'
<1>1. at \in 1..Len(Order) /\ Feature = Order[at] /\ Len(Order) = 8
  BY FeatureFacts, OrderFacts DEF IInv, WorkerStep
<1>2. TypeOK' /\ TextInv' BY <1>1, StepType DEF TextInv, WorkerStep, Feature
<1>3. SUFFICES ASSUME ~disturbed' PROVE WrittenInv' /\ PassInv'
  BY <1>2 DEF IInv
<1>4. ~disturbed /\ PassInv BY <1>1, <1>3 DEF WorkerStep, IInv
<1>5. \A f : Configured(f, want, remote)' <=> Configured(f, want, remote')
  BY DEF WorkerStep, Configured, ReadBack, WithoutReserved, Restricted
<1>6. AheadInv'
  <2>1. SUFFICES ASSUME NEW i \in 1..Len(Order), Order[i] \in settled, i > at
                 PROVE  Configured(Order[i], want, remote)'
    BY DEF AheadInv, WorkerStep
  <2>2. Configured(Order[i], want, remote) /\ i # at
    BY <1>1, <1>4, <2>1 DEF PassInv, AheadInv
  <2> QED BY <1>5, <2>2 DEF OthersKept
<1>7. BehindInv'
  <2>1. SUFFICES ASSUME NEW i \in 1..Len(Order), i < at
                 PROVE  Configured(Order[i], want, remote)'
    BY DEF BehindInv
  <2>2. Configured(Order[i], want, remote) /\ i # at
    BY <1>1, <1>4, <2>1 DEF PassInv, BehindInv
  <2> QED BY <1>5, <2>2 DEF OthersKept
<1>8. WriteInv'
  <2>1. Feature' = Feature /\ Unreadable(Feature)' = Unreadable(Feature)
    BY DEF WorkerStep, Feature, Unreadable, ReadBack
  <2> QED BY <1>4, <2>1 DEF WriteInv, WorkerStep
<1>9. WrittenInv' BY <1>4, WrittenKept
<1> QED BY <1>6, <1>7, <1>8, <1>9 DEF PassInv

-----------------------------------------------------------------------------
(* The calls that read.                                                    *)

LEMMA FaultType ==
  ASSUME TypeOK, Fault
  PROVE  spent' \in Spents
<1>1. spent.faults + 1 \in 0..MaxFaults
  BY ConfigAssumption DEF Fault, TypeOK, ConfigAssumption
<1> QED BY <1>1 DEF Fault, TypeOK, Spents

LEMMA ReadIsStep ==
  ASSUME IInv, Running, UNCHANGED <<spec, remote, want, written, history>>,
         UNCHANGED spent \/ Fault
  PROVE  WorkerStep /\ OthersKept /\ remote' = remote
<1>1. spent' \in Spents BY FaultType DEF IInv, TypeOK, Spents
<1> QED BY <1>1 DEF IInv, TypeOK, WorkerStep, OthersKept, history

(* At a read, a feature that was configured at the start still is.         *)
LEMMA SettledIsConfigured ==
  ASSUME IInv, Running, call = "read", ~disturbed, Feature \in settled
  PROVE  Configured(Feature, want, remote)
<1>1. at \in 1..Len(Order) /\ at # 0 /\ Feature = Order[at]
  BY FeatureFacts, OrderFacts
<1> QED BY <1>1 DEF IInv, PassInv, AheadInv

LEMMA ReadSettingInv ==
  ASSUME IInv, Running, NEW f \in Settings, ReadSetting(f)
  PROVE  IInv'
<1>1. call = "read" /\ Feature = f BY DEF ReadSetting
<1>2. WorkerStep /\ OthersKept /\ remote' = remote BY ReadIsStep DEF ReadSetting
<1>3. Configured(f, want, remote) <=> remote.settings[f] = ReadBack(f, want.settings[f])
  BY ConfiguredSetting
<1>4. CASE Abort BY <1>2, <1>4, AbortInv
<1>5. CASE Matches(f) /\ want.settings[f] # Malformed /\ NextFeature
  <2>1. ReadBack(f, remote.settings[f]) = remote.settings[f]
    BY DEF IInv, TypeOK, BucketConfigs
  <2>2. Configured(f, want, remote) BY <1>3, <1>5, <2>1 DEF Matches
  <2> QED BY <1>1, <1>2, <1>5, <2>2, AdvanceInv
<1>6. CASE /\ ~Matches(f) /\ want.settings[f] # Malformed
           /\ call' = "write" /\ UNCHANGED at
  <2>1. ASSUME ~disturbed, Feature \in settled PROVE Unreadable(Feature)
    <3>1. remote.settings[f] = ReadBack(f, want.settings[f])
      BY <1>1, <1>3, <2>1, SettledIsConfigured
    <3>2. f = "website" BY <1>6, <3>1 DEF ReadBack, Matches
    <3> QED BY <1>1, <1>6, <3>1, <3>2 DEF Unreadable, Matches
  <2> QED BY <1>1, <1>2, <1>6, <2>1, StayInv
<1> QED BY <1>4, <1>5, <1>6 DEF ReadSetting

LEMMA ReadVersioningInv ==
  ASSUME IInv, Running, ReadVersioning
  PROVE  IInv'
<1>1. call = "read" /\ Feature = "versioning" BY DEF ReadVersioning
<1>2. WorkerStep /\ OthersKept /\ remote' = remote BY ReadIsStep DEF ReadVersioning
<1>3. Configured(Feature, want, remote) <=> ((remote.versioning = "Enabled") = want.versioning)
  BY <1>1, ConfiguredFacts
<1>4. CASE Abort BY <1>2, <1>4, AbortInv
<1>5. CASE CurrentlyEnabled(remote.versioning) = want.versioning /\ NextFeature
  <2>1. Configured(Feature, want, remote) BY <1>3, <1>5 DEF CurrentlyEnabled
  <2> QED BY <1>2, <1>5, <2>1, AdvanceInv
<1>6. CASE CurrentlyEnabled(remote.versioning) # want.versioning
           /\ call' = "write" /\ UNCHANGED at
  <2>1. ASSUME ~disturbed, Feature \in settled PROVE FALSE
    BY <1>1, <1>3, <1>6, <2>1, SettledIsConfigured DEF CurrentlyEnabled
  <2>2. Feature \notin Settings BY <1>1 DEF Settings
  <2> QED BY <1>2, <1>6, <2>1, <2>2, StayInv
<1> QED BY <1>4, <1>5, <1>6 DEF ReadVersioning

LEMMA ReadTagsInv ==
  ASSUME IInv, Running, ReadTags
  PROVE  IInv'
<1>1. call = "read" /\ Feature = "tags" BY DEF ReadTags
<1>2. WorkerStep /\ OthersKept /\ remote' = remote BY ReadIsStep DEF ReadTags
<1>3. Configured(Feature, want, remote) <=>
        WithoutReserved(remote.tags) = WithoutReserved(want.tags)
  BY <1>1, ConfiguredFacts
<1>4. want.tags \in TagSets /\ remote.tags \in TagSets
  BY DEF IInv, TypeOK, Specs, BucketConfigs
<1>5. CASE Abort BY <1>2, <1>5, AbortInv
<1>6. CASE CurrentTags(remote.tags) = want.tags /\ NextFeature
  <2>1. Configured(Feature, want, remote)
    BY <1>3, <1>6, WithoutReservedTwice DEF CurrentTags
  <2> QED BY <1>2, <1>6, <2>1, AdvanceInv
<1>7. CASE RemovedTags(CurrentTags(remote.tags), want.tags) = {} /\ DOMAIN want.tags = {}
           /\ NextFeature
  <2>1. DOMAIN CurrentTags(remote.tags) = {} BY <1>7 DEF RemovedTags
  <2>2. DOMAIN remote.tags \ ReservedKeys = {}
    BY <2>1 DEF CurrentTags, WithoutReserved, Restricted
  <2>3. DOMAIN want.tags \ ReservedKeys = {} BY <1>7
  <2>4. [k \in {} |-> remote.tags[k]] = [k \in {} |-> want.tags[k]] OBVIOUS
  <2>5. Configured(Feature, want, remote)
    BY <1>3, <2>2, <2>3, <2>4 DEF WithoutReserved, Restricted
  <2> QED BY <1>2, <1>7, <2>5, AdvanceInv
<1>8. CASE CurrentTags(remote.tags) # want.tags /\ call' \in {"write", "put"} /\ UNCHANGED at
  <2>1. ASSUME ~disturbed, Feature \in settled PROVE Unreadable(Feature)
    <3>1. WithoutReserved(want.tags) # want.tags
      BY <1>1, <1>3, <1>8, <2>1, SettledIsConfigured DEF CurrentTags
    <3> QED BY <1>1, <1>4, <3>1, NoneReserved DEF Unreadable
  <2>2. Feature \notin Settings BY <1>1 DEF Settings
  <2> QED BY <1>2, <1>8, <2>1, <2>2, StayInv
<1> QED BY <1>5, <1>6, <1>7, <1>8 DEF ReadTags

LEMMA ReconcileAclInv ==
  ASSUME IInv, Running, ReconcileAcl
  PROVE  IInv'
<1>1. Feature = "acl" BY DEF ReconcileAcl
<1>2. WorkerStep /\ OthersKept /\ remote' = remote BY ReadIsStep DEF ReconcileAcl
<1>3. Configured(Feature, want, remote) BY <1>1, ConfiguredFacts DEF Settings
<1> QED BY <1>2, <1>3, AbortInv, AdvanceInv DEF ReconcileAcl

-----------------------------------------------------------------------------
(* The calls that write.                                                   *)

LEMMA WriteIsStep ==
  ASSUME IInv, Running, call # "read", remote' \in BucketConfigs,
         written' = written \cup {Feature}, UNCHANGED <<spec, want, history>>,
         UNCHANGED spent \/ Fault
  PROVE  WorkerStep
<1>1. spent' \in Spents BY FaultType DEF IInv, TypeOK, Spents
<1> QED BY <1>1 DEF IInv, TypeOK, WorkerStep, history

(* A bucket that is changed in one feature only.                           *)
LEMMA KeptBut ==
  ASSUME IInv, Running,
         Feature # "tags" => remote'.tags = remote.tags,
         Feature # "versioning" => remote'.versioning = remote.versioning,
         \A f \in Settings : f # Feature => remote'.settings[f] = remote.settings[f]
  PROVE  OthersKept
<1>1. SUFFICES ASSUME NEW i \in 1..Len(Order), i # at, Configured(Order[i], want, remote)
               PROVE  Configured(Order[i], want, remote')
  BY DEF OthersKept
<1>2. Order[i] # Feature BY <1>1, FeatureFacts, OrderIsInjective
<1>3. CASE Order[i] = "tags" BY <1>1, <1>2, <1>3, ConfiguredFacts
<1>4. CASE Order[i] = "versioning" BY <1>1, <1>2, <1>4, ConfiguredFacts
<1>5. CASE Order[i] \in Settings BY <1>1, <1>2, <1>5, ConfiguredSetting
<1>6. CASE Order[i] \notin Settings \cup {"tags", "versioning"}
  BY <1>6, ConfiguredFacts
<1> QED BY <1>3, <1>4, <1>5, <1>6

LEMMA TagsChanged ==
  ASSUME NEW r \in BucketConfigs, NEW t \in TagSets
  PROVE  LET b == [r EXCEPT !.tags = t]
         IN  /\ b \in BucketConfigs /\ b.tags = t
             /\ b.versioning = r.versioning /\ b.settings = r.settings
  BY DEF BucketConfigs

LEMMA VersioningChanged ==
  ASSUME NEW r \in BucketConfigs, NEW v \in {"Enabled", "Suspended"}
  PROVE  LET b == [r EXCEPT !.versioning = v]
         IN  /\ b \in BucketConfigs /\ b.versioning = v
             /\ b.tags = r.tags /\ b.settings = r.settings
  BY DEF BucketConfigs

LEMMA ReadBackTwice ==
  ASSUME NEW f \in Settings, NEW v \in Values \cup {NONE}
  PROVE  /\ ReadBack(f, v) \in Values \cup {NONE}
         /\ ReadBack(f, ReadBack(f, v)) = ReadBack(f, v)
  BY ConfigAssumption DEF ReadBack, ConfigAssumption

LEMMA SettingChanged ==
  ASSUME NEW r \in BucketConfigs, NEW f \in Settings, NEW v \in Values \cup {NONE},
         ReadBack(f, v) = v
  PROVE  LET b == [r EXCEPT !.settings[f] = v]
         IN  /\ b \in BucketConfigs /\ b.settings[f] = v
             /\ b.tags = r.tags /\ b.versioning = r.versioning
             /\ \A g \in Settings : g # f => b.settings[g] = r.settings[g]
<1> DEFINE m == [r.settings EXCEPT ![f] = v]
<1>1. r.settings \in [Settings -> Values \cup {NONE}]
      /\ \A g \in Settings : ReadBack(g, r.settings[g]) = r.settings[g]
  BY DEF BucketConfigs
<1>2. /\ m \in [Settings -> Values \cup {NONE}] /\ m[f] = v
      /\ \A g \in Settings : g # f => m[g] = r.settings[g]
  BY <1>1
<1>3. \A g \in Settings : ReadBack(g, m[g]) = m[g] BY <1>1, <1>2
<1> HIDE DEF m
<1>4. [r EXCEPT !.settings = m] \in BucketConfigs
  BY <1>2, <1>3 DEF BucketConfigs
<1>5. [r EXCEPT !.settings[f] = v] = [r EXCEPT !.settings = m]
  BY DEF m, BucketConfigs
<1> QED BY <1>2, <1>4, <1>5 DEF BucketConfigs

LEMMA DeleteTagsInv ==
  ASSUME IInv, Running, DeleteTags
  PROVE  IInv'
<1>1. /\ call = "write" /\ Feature = "tags"
      /\ written' = written \cup {Feature} /\ UNCHANGED <<spec, want, history>>
  BY DEF DeleteTags, Write
<1>2. remote \in BucketConfigs /\ remote.tags \in TagSets /\ want.tags \in TagSets
  BY DEF IInv, TypeOK, BucketConfigs, Specs
<1>3. Retagged(remote.tags, NoTags) \in TagSets BY <1>2, NoTagsType, RetaggedType
<1>4. CASE UNCHANGED remote /\ Abort /\ (UNCHANGED spent \/ Fault)
  BY <1>1, <1>2, <1>4, WriteIsStep, AbortInv
<1>5. CASE remote' = [remote EXCEPT !.tags = Retagged(@, NoTags)]
           /\ (UNCHANGED spent \/ Fault)
           /\ (Abort \/ (UNCHANGED spent /\
                         IF DOMAIN want.tags # {} THEN call' = "put" /\ UNCHANGED at
                         ELSE NextFeature))
  <2>1. /\ remote' \in BucketConfigs /\ remote'.tags = Retagged(remote.tags, NoTags)
        /\ remote'.versioning = remote.versioning /\ remote'.settings = remote.settings
    BY <1>2, <1>3, <1>5, TagsChanged
  <2>2. WorkerStep BY <1>1, <1>5, <2>1, WriteIsStep
  <2>3. OthersKept BY <1>1, <2>1, KeptBut
  <2>4. CASE Abort BY <2>2, <2>4, AbortInv
  <2>5. CASE DOMAIN want.tags = {} /\ NextFeature
    <3>1. DOMAIN NoTags \ ReservedKeys = {} /\ DOMAIN want.tags \ ReservedKeys = {}
      BY <2>5 DEF NoTags
    <3>2. [k \in {} |-> NoTags[k]] = [k \in {} |-> want.tags[k]] OBVIOUS
    <3>3. WithoutReserved(NoTags) = WithoutReserved(want.tags)
      BY <3>1, <3>2 DEF WithoutReserved, Restricted
    <3>4. WithoutReserved(remote'.tags) = WithoutReserved(want.tags)
      BY <2>1, <3>3, RetaggedTags
    <3>5. Configured(Feature, want, remote') BY <1>1, <3>4, ConfiguredFacts
    <3> QED BY <2>2, <2>3, <2>5, <3>5, AdvanceInv
  <2>6. CASE call' = "put" /\ UNCHANGED at
    <3>1. ~disturbed => (Feature \in settled => Unreadable(Feature))
      BY <1>1, FeatureFacts, OrderFacts DEF IInv, PassInv, WriteInv
    <3>2. Feature \notin Settings BY <1>1 DEF Settings
    <3> QED BY <2>2, <2>3, <2>6, <3>1, <3>2, StayInv
  <2> QED BY <1>5, <2>4, <2>5, <2>6
<1> QED BY <1>4, <1>5 DEF DeleteTags, Write

LEMMA PutTagsInv ==
  ASSUME IInv, Running, PutTags
  PROVE  IInv'
<1>1. /\ call = "put" /\ Feature = "tags"
      /\ written' = written \cup {Feature} /\ UNCHANGED <<spec, want, history>>
  BY DEF PutTags, Write
<1>2. remote \in BucketConfigs /\ remote.tags \in TagSets /\ want.tags \in TagSets
  BY DEF IInv, TypeOK, BucketConfigs, Specs
<1>3. CASE UNCHANGED remote /\ Abort /\ (UNCHANGED spent \/ Fault)
  BY <1>1, <1>2, <1>3, WriteIsStep, AbortInv
<1>4. CASE remote' = [remote EXCEPT !.tags = Retagged(@, want.tags)]
           /\ (UNCHANGED spent \/ Fault) /\ (Abort \/ NextFeature)
  <2>1. Retagged(remote.tags, want.tags) \in TagSets BY <1>2, RetaggedType
  <2>2. /\ remote' \in BucketConfigs /\ remote'.tags = Retagged(remote.tags, want.tags)
        /\ remote'.versioning = remote.versioning /\ remote'.settings = remote.settings
    BY <1>2, <1>4, <2>1, TagsChanged
  <2>3. WorkerStep BY <1>1, <1>4, <2>2, WriteIsStep
  <2>4. OthersKept BY <1>1, <2>2, KeptBut
  <2>5. Configured(Feature, want, remote') BY <1>1, <2>2, RetaggedTags, ConfiguredFacts
  <2> QED BY <1>4, <2>3, <2>4, <2>5, AbortInv, AdvanceInv
<1> QED BY <1>3, <1>4 DEF PutTags, Write

LEMMA WriteSettingInv ==
  ASSUME IInv, Running, NEW f \in Settings, WriteSetting(f)
  PROVE  IInv'
<1>1. /\ call = "write" /\ Feature = f
      /\ written' = written \cup {Feature} /\ UNCHANGED <<spec, want, history>>
  BY DEF WriteSetting, Write
<1>2. remote \in BucketConfigs /\ want \in Specs BY DEF IInv, TypeOK
<1>3. want.settings[f] \in Values \cup {NONE}
  BY <1>1, <1>2 DEF IInv, TextInv, Specs
<1> DEFINE v == ReadBack(f, want.settings[f])
<1>4. v \in Values \cup {NONE} /\ ReadBack(f, v) = v BY <1>3, ReadBackTwice
<1>5. CASE UNCHANGED remote /\ Abort /\ (UNCHANGED spent \/ Fault)
  BY <1>1, <1>2, <1>5, WriteIsStep, AbortInv
<1>6. CASE remote' = [remote EXCEPT !.settings[f] = v]
           /\ (UNCHANGED spent \/ Fault) /\ (Abort \/ NextFeature)
  <2>1. /\ remote' \in BucketConfigs /\ remote'.settings[f] = v
        /\ remote'.tags = remote.tags /\ remote'.versioning = remote.versioning
        /\ \A g \in Settings : g # f => remote'.settings[g] = remote.settings[g]
    BY <1>2, <1>4, <1>6, SettingChanged
  <2>2. WorkerStep BY <1>1, <1>6, <2>1, WriteIsStep
  <2>3. OthersKept BY <1>1, <2>1, KeptBut
  <2>4. Configured(Feature, want, remote') BY <1>1, <2>1, ConfiguredSetting
  <2> QED BY <1>6, <2>2, <2>3, <2>4, AbortInv, AdvanceInv
<1> QED BY <1>5, <1>6 DEF WriteSetting, Write

LEMMA PutVersioningInv ==
  ASSUME IInv, Running, PutVersioning
  PROVE  IInv'
<1>1. /\ call = "write" /\ Feature = "versioning"
      /\ written' = written \cup {Feature} /\ UNCHANGED <<spec, want, history>>
  BY DEF PutVersioning, Write
<1>2. remote \in BucketConfigs /\ want.versioning \in BOOLEAN
  BY DEF IInv, TypeOK, Specs
<1> DEFINE v == VersioningStatus(want.versioning)
<1>3. v \in {"Enabled", "Suspended"} /\ ((v = "Enabled") = want.versioning)
  BY <1>2 DEF VersioningStatus
<1>4. CASE UNCHANGED remote /\ Abort /\ (UNCHANGED spent \/ Fault)
  BY <1>1, <1>2, <1>4, WriteIsStep, AbortInv
<1>5. CASE remote' = [remote EXCEPT !.versioning = v]
           /\ (UNCHANGED spent \/ Fault) /\ (Abort \/ NextFeature)
  <2> HIDE DEF v
  <2>1. /\ remote' \in BucketConfigs /\ remote'.versioning = v
        /\ remote'.tags = remote.tags /\ remote'.settings = remote.settings
    BY <1>2, <1>3, <1>5, VersioningChanged
  <2>2. WorkerStep BY <1>1, <1>5, <2>1, WriteIsStep
  <2>3. OthersKept BY <1>1, <2>1, KeptBut
  <2>4. Configured(Feature, want, remote')
    BY <1>1, <1>3, <2>1, ConfiguredFacts
  <2> QED BY <1>5, <2>2, <2>3, <2>4, AbortInv, AdvanceInv
<1> QED BY <1>4, <1>5 DEF PutVersioning, Write

-----------------------------------------------------------------------------
(* The rest of the steps.                                                  *)

LEMMA StartInv ==
  ASSUME IInv, Start
  PROVE  IInv'
<1>1. /\ at' = 1 /\ call' = "read" /\ want' = spec /\ disturbed' = FALSE
      /\ written' = {} /\ settled' = {f \in Features : Configured(f, spec, remote)}
      /\ UNCHANGED <<spec, remote, spent>>
  BY DEF Start
<1>2. TypeOK'
  <2> DEFINE S == {f \in Features : Configured(f, spec, remote)}
  <2>1. S \subseteq Features OBVIOUS
  <2>2. settled' = S BY <1>1
  <2> HIDE DEF S
  <2>3. settled' \subseteq Features /\ written' \subseteq Features BY <1>1, <2>1, <2>2
  <2>4. spec' \in Specs /\ want' \in Specs /\ remote' \in BucketConfigs /\ spent' \in Spents
    BY <1>1 DEF IInv, TypeOK, Spents
  <2>5. at' \in 0..Len(Order) + 1 /\ call' = "read" BY <1>1, OrderFacts
  <2>6. disturbed' \in BOOLEAN BY <1>1, Zenon
  <2> QED BY <2>3, <2>4, <2>5, <2>6 DEF TypeOK, Spents
<1>3. TextInv' BY <1>1 DEF TextInv
<1>4. \A f : Configured(f, want, remote)' <=> Configured(f, spec, remote)
  BY <1>1 DEF Configured, ReadBack, WithoutReserved, Restricted
<1>5. AheadInv' BY <1>1, <1>4 DEF AheadInv
<1>6. BehindInv' BY <1>1, OrderFacts DEF BehindInv
<1>7. WriteInv' /\ WrittenInv' BY <1>1 DEF WriteInv, WrittenInv
<1> QED BY <1>2, <1>3, <1>5, <1>6, <1>7 DEF IInv, PassInv

LEMMA UserEditsInv ==
  ASSUME IInv, UserEdits
  PROVE  IInv'
<1>1. UNCHANGED <<remote, at, call, want, written, disturbed, settled>>
  BY DEF UserEdits, history
<1>2. spent' \in Spents
  <2>1. spent.edits + 1 \in 0..MaxEdits
    BY ConfigAssumption DEF UserEdits, IInv, TypeOK, ConfigAssumption
  <2> QED BY <2>1 DEF UserEdits, IInv, TypeOK, Spents
<1>3. spec' \in Specs
  <2>1. spec \in Specs BY DEF IInv, TypeOK
  <2>2. CASE \E tags \in TagSets : spec' = [spec EXCEPT !.tags = tags]
    BY <2>1, <2>2 DEF Specs
  <2>3. CASE spec' = [spec EXCEPT !.versioning = ~@]
    <3>1. (~spec.versioning) \in BOOLEAN BY Zenon
    <3> QED BY <2>1, <2>3, <3>1 DEF Specs
  <2>4. CASE \E f \in Settings : \E w \in Wishes(f) : spec' = [spec EXCEPT !.settings[f] = w]
    <3>0. PICK f \in Settings :
            \E w \in Wishes(f) : spec' = [spec EXCEPT !.settings[f] = w]
      BY <2>4
    <3>1. PICK w \in Wishes(f) : spec' = [spec EXCEPT !.settings[f] = w]
      BY <3>0
    <3> DEFINE m == [spec.settings EXCEPT ![f] = w]
               S == {x \in [Settings -> Values \cup {NONE, Malformed}] :
                       \A g \in Settings : x[g] \in Wishes(g)}
    <3>2. m \in S BY <2>1 DEF Specs, Wishes
    <3>3. spec' = [spec EXCEPT !.settings = m] BY <2>1, <3>1 DEF Specs
    <3> HIDE DEF m
    <3> QED BY <2>1, <3>2, <3>3 DEF Specs
  <2> QED BY <2>2, <2>3, <2>4 DEF UserEdits
<1>4. TypeOK' BY <1>1, <1>2, <1>3 DEF IInv, TypeOK, Spents
<1> QED
  BY <1>1, <1>4
  DEF IInv, TextInv, PassInv, AheadInv, BehindInv, WriteInv, WrittenInv, Unreadable,
      Feature, Configured, ReadBack, WithoutReserved, Restricted

LEMMA OutsiderInv ==
  ASSUME IInv, OutsiderActs
  PROVE  IInv'
<1>1. disturbed' = TRUE /\ UNCHANGED <<spec, at, call, want, settled, written>>
  BY DEF OutsiderActs
<1>2. spent' \in Spents
  <2>1. spent.outsider + 1 \in 0..MaxOutsider
    BY ConfigAssumption DEF OutsiderActs, IInv, TypeOK, ConfigAssumption
  <2> QED BY <2>1 DEF OutsiderActs, IInv, TypeOK, Spents
<1>3. remote' \in BucketConfigs
  <2>1. remote \in BucketConfigs BY DEF IInv, TypeOK
  <2>2. CASE remote' = [remote EXCEPT !.exists = FALSE]
    BY <2>1, <2>2 DEF BucketConfigs
  <2>3. CASE \E tags \in TagSets : remote' = [remote EXCEPT !.tags = tags]
    BY <2>1, <2>3, TagsChanged
  <2>4. CASE \E f \in Settings, v \in Values \cup {NONE} :
               remote' = [remote EXCEPT !.settings[f] = ReadBack(f, v)]
    BY <2>1, <2>4, ReadBackTwice, SettingChanged
  <2>5. CASE \E v \in {"Enabled", "Suspended"} : remote' = [remote EXCEPT !.versioning = v]
    BY <2>1, <2>5, VersioningChanged
  <2> QED BY <2>2, <2>3, <2>4, <2>5 DEF OutsiderActs
<1>4. TypeOK' BY <1>1, <1>2, <1>3 DEF IInv, TypeOK, Spents
<1> QED BY <1>1, <1>4 DEF IInv, TextInv, Feature

LEMMA InitInv == Init => IInv
<1> SUFFICES ASSUME Init PROVE IInv OBVIOUS
<1>1. PlainBucket \in BucketConfigs
  <2> DEFINE m == [f \in Settings |-> NONE]
  <2>1. m \in [Settings -> Values \cup {NONE}] /\ \A f \in Settings : ReadBack(f, m[f]) = m[f]
    BY ConfigAssumption DEF ReadBack, ConfigAssumption
  <2> HIDE DEF m
  <2> QED BY <2>1, NoTagsType DEF PlainBucket, BucketConfigs, m
<1>2. spent \in Spents BY ConfigAssumption DEF Init, Spents, ConfigAssumption
<1>3. TypeOK
  <2>1. spec \in Specs /\ want \in Specs BY FirstSpecsAssumption DEF Init, FirstSpecsAssumption
  <2>2. at \in 0..Len(Order) + 1 /\ call = "read" BY OrderFacts DEF Init
  <2>3. disturbed \in BOOLEAN BY Zenon DEF Init
  <2>4. settled = {} /\ written = {} /\ remote = PlainBucket BY DEF Init
  <2> QED BY <1>1, <1>2, <2>1, <2>2, <2>3, <2>4 DEF TypeOK, Spents
<1> QED BY <1>3 DEF Init, IInv, TextInv, WrittenInv

LEMMA NextInv == IInv /\ [Next]_vars => IInv'
<1> SUFFICES ASSUME IInv, [Next]_vars PROVE IInv' OBVIOUS
<1>1. CASE Start BY <1>1, StartInv
<1>2. CASE Running /\ (ReconcileTags \/ ReconcileAcl \/ ReconcileVersioning)
  BY <1>2, ReadTagsInv, DeleteTagsInv, PutTagsInv, ReconcileAclInv, ReadVersioningInv,
     PutVersioningInv
  DEF ReconcileTags, ReconcileVersioning
<1>3. CASE Running /\ \E f \in Settings : ReadSetting(f) \/ WriteSetting(f)
  BY <1>3, ReadSettingInv, WriteSettingInv
<1>4. CASE UserEdits BY <1>4, UserEditsInv
<1>5. CASE OutsiderActs BY <1>5, OutsiderInv
<1>6. CASE Crash
  <2>1. /\ Running /\ UNCHANGED <<spec, remote, want, written, history>> /\ Fault /\ Abort
    BY <1>6 DEF Crash
  <2> QED BY <2>1, ReadIsStep, AbortInv
<1>7. CASE UNCHANGED vars
  BY <1>7
  DEF vars, IInv, TypeOK, TextInv, PassInv, AheadInv, BehindInv, WriteInv, WrittenInv,
      Unreadable, Feature, Configured, ReadBack, WithoutReserved, Restricted
<1>8. {"policy", "encryption", "logging", "website", "cors"} = Settings BY DEF Settings
<1>9. Worker => Start \/ (Running /\ (\/ ReconcileTags \/ ReconcileAcl \/ ReconcileVersioning
                                     \/ \E f \in Settings : ReadSetting(f) \/ WriteSetting(f)))
  BY <1>8 DEF Worker, ReconcilePolicy, ReconcileEncryption, ReconcileLogging,
              ReconcileWebsite, ReconcileCORS
<1> QED BY <1>1, <1>2, <1>3, <1>4, <1>5, <1>6, <1>7, <1>9 DEF Next

-----------------------------------------------------------------------------
LEMMA Consequences ==
  ASSUME IInv
  PROVE  PassedIsConfigured /\ ConfiguredIsNotRewritten
<1>1. PassedIsConfigured
  BY OrderFacts DEF IInv, TypeOK, PassInv, BehindInv, PassedIsConfigured
<1>2. ConfiguredIsNotRewritten
  BY DEF IInv, PassInv, WrittenInv, Unreadable, ConfiguredIsNotRewritten
<1> QED BY <1>1, <1>2

(* The invariant holds at every call of reconcileBucket, and between two   *)
(* reconciles.                                                             *)
THEOREM ConfigInvariance == Spec => []IInv
  BY InitInv, NextInv, PTL DEF Spec

(* Every state of reconcileBucket has its type.                            *)
THEOREM ConfigTypeCorrect == Spec => []TypeOK
<1>1. IInv => TypeOK BY DEF IInv
<1> QED BY <1>1, ConfigInvariance, PTL

(* What a reconcile has passed is configured, and all eight features once  *)
(* reconcileBucket has returned without an error, for every set of tags    *)
(* and values, whatever failed half-way before.                            *)
THEOREM PassedConfigured == Spec => []PassedIsConfigured
  BY ConfigInvariance, Consequences, PTL

(* A reconcile does not write again what was configured when it began, the *)
(* last feature included, but for what cannot be read back.                *)
THEOREM NotRewritten == Spec => []ConfiguredIsNotRewritten
  BY ConfigInvariance, Consequences, PTL
=============================================================================
