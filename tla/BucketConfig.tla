---------------------------- MODULE BucketConfig ----------------------------
(***************************************************************************)
(* reconcileBucket: the configuration of one bucket the operator owns.     *)
(*                                                                         *)
(* The features are reconciled one after another, each by a call that      *)
(* reads it, a comparison with the spec, and calls that write it; the      *)
(* first error ends the reconcile and the features behind it have to wait. *)
(* Users edit the spec, outsiders change or delete the bucket and calls    *)
(* fail or lose their answer between any two calls.                        *)
(***************************************************************************)
EXTENDS Naturals, Sequences

CONSTANTS
  TagKeys, TagValues,
  ReservedKeys,   \* the tag keys tagIgnoredS3 leaves out ("aws:...")
  Values,         \* policies, rules, targets: whatever a setting can hold
  RulesRead,      \* [Values -> Values]: a website as it is read back
  Malformed,      \* text that is not the JSON a setting asks for
  NONE,           \* a setting that is absent
  FirstSpecs,     \* the specs an object is created with
  MaxEdits, MaxOutsider, MaxFaults \* bounds of the environment

ASSUME ConfigAssumption ==
  /\ ReservedKeys \subseteq TagKeys
  /\ RulesRead \in [Values -> Values]
  /\ \A v \in Values : RulesRead[RulesRead[v]] = RulesRead[v]
  /\ NONE \notin Values /\ Malformed \notin Values /\ NONE # Malformed
  /\ MaxEdits \in Nat /\ MaxOutsider \in Nat /\ MaxFaults \in Nat

(* The order of reconcileBucket.                                           *)
Order == <<"tags", "policy", "acl", "encryption", "versioning", "logging",
           "website", "cors">>
Features == {Order[i] : i \in 1..Len(Order)}

(* The features with one document that is there or not.                    *)
Settings == {"policy", "encryption", "logging", "website", "cors"}

(* The settings that hold JSON, which is parsed before it is written.      *)
JsonSettings == {"policy", "website"}

TagSets == UNION {[K -> TagValues] : K \in SUBSET TagKeys}
NoTags == [k \in {} |-> NONE]

(* What a written setting is when it is read. A policy is compared by its  *)
(* normal form, so that a value stands for all texts of one form, and      *)
(* encryption, logging and CORS come back as they are sent. The routing    *)
(* rules of a website go through the SDK's types: what S3 has of them is   *)
(* marshalled with the SDK's names and without nulls (normalizeRoutingRules, *)
(* removeNil), and an empty list is no rules at all.                       *)
ReadBack(f, v) == IF f = "website" /\ v \in Values THEN RulesRead[v] ELSE v

(* What a spec can ask for a setting.                                      *)
Wishes(f) == Values \cup {NONE} \cup (IF f \in JsonSettings THEN {Malformed} ELSE {})

(* spec.versioning is a boolean; S3 also knows buckets never versioned.    *)
Specs ==
  [tags : TagSets, versioning : BOOLEAN,
   settings : {w \in [Settings -> Values \cup {NONE, Malformed}] :
                 \A f \in Settings : w[f] \in Wishes(f)}]

ASSUME FirstSpecsAssumption == FirstSpecs # {} /\ FirstSpecs \subseteq Specs

BucketConfigs ==
  [exists : BOOLEAN, tags : TagSets,
   versioning : {"Unversioned", "Enabled", "Suspended"},
   settings : {w \in [Settings -> Values \cup {NONE}] :
                 \A f \in Settings : ReadBack(f, w[f]) = w[f]}]

PlainBucket == [exists |-> TRUE, tags |-> NoTags, versioning |-> "Unversioned",
                settings |-> [f \in Settings |-> NONE]]

VARIABLES
  spec,      \* the spec of the object, as its users want it
  remote,    \* the bucket in S3
  at,        \* the worker's feature in Order: beyond it when reconcileBucket
             \* has returned without an error, 0 when it has not
  call,      \* its next call: "read", "write", and for tags also "put"
  want,      \* the spec in the worker's memory
  disturbed, \* history: an outsider changed the bucket since it started
  settled,   \* history: what was configured when the last one started
  written,   \* history: what the last one has sent a write for
  spent      \* what the environment has used of its bounds

vars == <<spec, remote, at, call, want, disturbed, settled, written, spent>>
history == <<disturbed, settled>>

-----------------------------------------------------------------------------
(* Tags.                                                                   *)

Restricted(tags, K) == [k \in K |-> tags[k]]

(* tagIgnoredS3 leaves them out of what is read and of what is sent.       *)
WithoutReserved(tags) == Restricted(tags, DOMAIN tags \ ReservedKeys)

(* tagsToMapS3.                                                            *)
CurrentTags(tags) == WithoutReserved(tags)

(* What a bucket holds after PutBucketTagging: the call replaces the tags  *)
(* that are users' to set, and S3's own remain.                            *)
Retagged(old, new) ==
  [k \in (DOMAIN old \cap ReservedKeys) \cup (DOMAIN new \ ReservedKeys) |->
     IF k \in ReservedKeys THEN old[k] ELSE new[k]]

(* diffTagsS3 that forgets the keys that are gone.                         *)
ChangedTags(old, new) == {k \in DOMAIN old \cap DOMAIN new : old[k] # new[k]}

(* diffTagsS3: the keys to remove are those that are gone or changed; the  *)
(* tags to create are all the new ones.                                    *)
RemovedTags(old, new) ==
  {k \in DOMAIN old : k \notin DOMAIN new \/ old[k] # new[k]}

-----------------------------------------------------------------------------
(* What is configured.                                                     *)

(* bucketVersioningStatus with a status S3 does not have, and as it is.    *)
VersioningStatusDisabled(enabled) == IF enabled THEN "Enabled" ELSE "Disabled"
VersioningStatus(enabled) == IF enabled THEN "Enabled" ELSE "Suspended"

(* readBucketVersioning: a bucket that was never versioned is disabled.    *)
CurrentlyEnabled(status) == status = "Enabled"

(* The bucket has what a spec asks for, as far as it can be asked.         *)
Configured(f, s, bucket) ==
  CASE f = "tags" -> WithoutReserved(bucket.tags) = WithoutReserved(s.tags)
    [] f = "versioning" -> (bucket.versioning = "Enabled") = s.versioning
    [] f \in Settings -> bucket.settings[f] = ReadBack(f, s.settings[f])
    [] OTHER -> TRUE \* the ACL: see S3BucketController

Feature == Order[at]

-----------------------------------------------------------------------------
(* The worker.                                                             *)

Fault == spent.faults < MaxFaults /\ spent' = [spent EXCEPT !.faults = @ + 1]

(* reconcileBucket is between its first call and its end.                  *)
Running == at \in 1..Len(Order)

(* The next call of reconcileBucket, or its end.                           *)
NextFeature == at' = at + 1 /\ call' = "read"

(* Any error ends reconcileBucket; the key is queued again.                *)
Abort == at' = 0 /\ call' = "read"

(* The object is read from the cache and its reconcile comes to            *)
(* reconcileBucket: after an event, a retry, or the periodic resync.       *)
Start ==
  /\ ~Running
  /\ at' = 1 /\ call' = "read" /\ want' = spec
  /\ disturbed' = FALSE /\ written' = {}
  /\ settled' = {f \in Features : Configured(f, spec, remote)}
  /\ UNCHANGED <<spec, remote, spent>>

(* The comparison of a setting: one that leaves a CORS configuration alone *)
(* that the spec has no more, one that compares the pointers to CORS       *)
(* configurations, and as it is.                                           *)
MatchesKeepingCors(f) ==
  remote.settings[f] = want.settings[f] \/ (f = "cors" /\ want.settings[f] = NONE)
MatchesByPointer(f) ==
  remote.settings[f] = want.settings[f] /\ (f = "cors" => want.settings[f] = NONE)
Matches(f) == remote.settings[f] = want.settings[f]

(* The Get call of a setting, and the comparison.                          *)
ReadSetting(f) ==
  /\ call = "read" /\ Feature = f
  /\ \/ /\ remote.exists /\ UNCHANGED spent
        /\ IF want.settings[f] = Malformed THEN Abort
           ELSE IF Matches(f) THEN NextFeature
           ELSE call' = "write" /\ UNCHANGED at
     \/ ~remote.exists /\ Abort /\ UNCHANGED spent
     \/ Fault /\ Abort
  /\ UNCHANGED <<spec, remote, want, written, history>>

ReadVersioning ==
  /\ call = "read" /\ Feature = "versioning"
  /\ \/ /\ remote.exists /\ UNCHANGED spent
        /\ IF CurrentlyEnabled(remote.versioning) = want.versioning THEN NextFeature
           ELSE call' = "write" /\ UNCHANGED at
     \/ ~remote.exists /\ Abort /\ UNCHANGED spent
     \/ Fault /\ Abort
  /\ UNCHANGED <<spec, remote, want, written, history>>

(* readBucketTags, DeepEqual and diffTagsS3.                               *)
ReadTags ==
  /\ call = "read" /\ Feature = "tags"
  /\ \/ /\ remote.exists /\ UNCHANGED spent
        /\ IF CurrentTags(remote.tags) = want.tags THEN NextFeature
           ELSE IF RemovedTags(CurrentTags(remote.tags), want.tags) # {}
           THEN call' = "write" /\ UNCHANGED at
           ELSE IF DOMAIN want.tags # {} THEN call' = "put" /\ UNCHANGED at
           ELSE NextFeature
     \/ ~remote.exists /\ Abort /\ UNCHANGED spent
     \/ Fault /\ Abort
  /\ UNCHANGED <<spec, remote, want, written, history>>

(* A call that writes: it takes effect or not, the bucket may be gone, and *)
(* the answer may be lost.                                                 *)
Write(bucket, done) ==
  /\ written' = written \cup {Feature}
  /\ \/ remote.exists /\ remote' = bucket /\ done /\ UNCHANGED spent
     \/ remote.exists /\ remote' = bucket /\ Abort /\ Fault
     \/ ~remote.exists /\ Abort /\ UNCHANGED <<remote, spent>>
     \/ Abort /\ Fault /\ UNCHANGED remote
  /\ UNCHANGED <<spec, want, history>>

(* DeleteBucketTagging: it removes every tag, those that stay included.    *)
DeleteTags ==
  /\ call = "write" /\ Feature = "tags"
  /\ Write([remote EXCEPT !.tags = Retagged(@, NoTags)],
           IF DOMAIN want.tags # {} THEN call' = "put" /\ UNCHANGED at
           ELSE NextFeature)

(* PutBucketTagging: it replaces the whole set.                            *)
PutTags ==
  /\ call = "put" /\ Feature = "tags"
  /\ Write([remote EXCEPT !.tags = Retagged(@, want.tags)], NextFeature)

(* The Put call of a setting, or its Delete call if the spec has none.     *)
WriteSetting(f) ==
  /\ call = "write" /\ Feature = f
  /\ Write([remote EXCEPT !.settings[f] = ReadBack(f, want.settings[f])], NextFeature)

PutVersioning ==
  /\ call = "write" /\ Feature = "versioning"
  /\ Write([remote EXCEPT !.versioning = VersioningStatus(want.versioning)],
           NextFeature)

ReconcileTags == ReadTags \/ DeleteTags \/ PutTags
ReconcilePolicy == ReadSetting("policy") \/ WriteSetting("policy")
ReconcileEncryption == ReadSetting("encryption") \/ WriteSetting("encryption")
ReconcileVersioning == ReadVersioning \/ PutVersioning
ReconcileLogging == ReadSetting("logging") \/ WriteSetting("logging")
ReconcileWebsite == ReadSetting("website") \/ WriteSetting("website")
ReconcileCORS == ReadSetting("cors") \/ WriteSetting("cors")

(* reconcileBucketAcl: its calls and its status are S3BucketController's.  *)
ReconcileAcl ==
  /\ call = "read" /\ Feature = "acl"
  /\ \/ NextFeature /\ UNCHANGED spent
     \/ Fault /\ Abort
  /\ UNCHANGED <<spec, remote, want, written, history>>

Worker ==
  \/ Start
  \/ /\ Running
     /\ \/ ReconcileTags \/ ReconcilePolicy \/ ReconcileAcl
        \/ ReconcileEncryption \/ ReconcileVersioning \/ ReconcileLogging
        \/ ReconcileWebsite \/ ReconcileCORS

-----------------------------------------------------------------------------
(* The environment.                                                        *)

(* A user edits one field of the spec.                                     *)
UserEdits ==
  /\ spent.edits < MaxEdits /\ spent' = [spent EXCEPT !.edits = @ + 1]
  /\ \/ \E tags \in TagSets : spec' = [spec EXCEPT !.tags = tags]
     \/ spec' = [spec EXCEPT !.versioning = ~@]
     \/ \E f \in Settings : \E w \in Wishes(f) :
          spec' = [spec EXCEPT !.settings[f] = w]
  /\ spec' # spec
  /\ UNCHANGED <<remote, at, call, want, written, history>>

(* Somebody else changes one feature of the bucket, or deletes it.         *)
OutsiderActs ==
  /\ spent.outsider < MaxOutsider
  /\ spent' = [spent EXCEPT !.outsider = @ + 1]
  /\ remote.exists
  /\ \/ remote' = [remote EXCEPT !.exists = FALSE]
     \/ \E tags \in TagSets : remote' = [remote EXCEPT !.tags = tags]
     \/ \E f \in Settings, v \in Values \cup {NONE} :
          remote' = [remote EXCEPT !.settings[f] = ReadBack(f, v)]
     \/ \E v \in {"Enabled", "Suspended"} : remote' = [remote EXCEPT !.versioning = v]
  /\ remote' # remote
  /\ disturbed' = TRUE
  /\ UNCHANGED <<spec, at, call, want, settled, written>>

(* The process dies in the middle of a reconcile.                          *)
Crash ==
  /\ Running /\ Fault /\ Abort
  /\ UNCHANGED <<spec, remote, want, written, history>>

Init ==
  /\ spec \in FirstSpecs
  /\ remote = PlainBucket
  /\ at = 0 /\ call = "read" /\ want = spec
  /\ disturbed = FALSE /\ settled = {} /\ written = {}
  /\ spent = [edits |-> 0, outsider |-> 0, faults |-> 0]

Next == Worker \/ UserEdits \/ OutsiderActs \/ Crash

Spec == Init /\ [][Next]_vars

(* The key is queued again after an error and by every resync, and the     *)
(* worker's goroutine runs.                                                *)
FairSpec == Spec /\ WF_vars(Worker)

-----------------------------------------------------------------------------
(* Properties.                                                             *)

(* Every variable has its type.                                            *)
TypeOK ==
  /\ spec \in Specs /\ want \in Specs /\ remote \in BucketConfigs
  /\ at \in 0..Len(Order) + 1 /\ call \in {"read", "write", "put"}
  /\ disturbed \in BOOLEAN
  /\ settled \subseteq Features /\ written \subseteq Features
  /\ spent \in [edits : 0..MaxEdits, outsider : 0..MaxOutsider,
                faults : 0..MaxFaults]

(* The features a reconcile has passed are configured, all of them once    *)
(* reconcileBucket has returned without an error, whatever earlier         *)
(* reconciles left behind when they failed half-way, as long as nobody     *)
(* else changes the bucket meanwhile: an early return never hides a write  *)
(* that is still missing.                                                  *)
PassedIsConfigured ==
  ~disturbed => \A i \in 1..Len(Order) :
    i < at => Configured(Order[i], want, remote)

(* reconcileBucket is idempotent, up to its last feature and however it    *)
(* ends: what is configured when it starts is not written again, except    *)
(* for what can never be read back as the spec has it: reserved tags, and  *)
(* routing rules in a spelling that is not S3's.                           *)
ConfiguredIsNotRewritten ==
  ~disturbed => \A f \in settled \cap written :
    \/ f = "tags" /\ DOMAIN want.tags \cap ReservedKeys # {}
    \/ f = "website" /\ ReadBack(f, want.settings[f]) # want.settings[f]

(* Drift is repaired and every edit arrives: each feature ends up as the   *)
(* spec asks, unless the bucket is gone or a malformed document of that    *)
(* feature or one before it in the order ends every reconcile there.       *)
EventuallyConfigured ==
  \A i \in 1..Len(Order) :
    <>[](\/ ~remote.exists
         \/ \E j \in 1..i : Order[j] \in Settings /\ spec.settings[Order[j]] = Malformed
         \/ Configured(Order[i], spec, remote))
=============================================================================
