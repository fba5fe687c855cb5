------------------------- MODULE S3BucketLifecycle -------------------------
(***************************************************************************)
(* What the S3Bucket operator promises of an object and its buckets,       *)
(* without the cache, the queue, the instance in memory, the calls and     *)
(* their failures: every write to an object is the one a controller would  *)
(* make that sees the object as the API server holds it at that moment,    *)
(* whatever the users have done since the controller last read it. An      *)
(* operator that takes an object to be as it once was may make a bucket    *)
(* for it all the same, but it does not write the object.                  *)
(* S3BucketController implements this specification.                       *)
(***************************************************************************)
CONSTANTS Keys, Buckets, Regions, Acls, DeleteStrategies, OwnershipStrategies,
          NONE

Specs == [bucket : Buckets, region : Regions, acl : Acls,
          deleteStrategy : DeleteStrategies,
          ownershipStrategy : OwnershipStrategies]

Statuses == [arn : Buckets \cup {NONE},
             location : Regions \cup {NONE},
             acl : Acls \cup {NONE}]

NoStatus == [arn |-> NONE, location |-> NONE, acl |-> NONE]

Objects == [phase : {"absent", "live", "terminating"}, finalizer : BOOLEAN,
            spec : Specs, status : Statuses]

VARIABLES
  objects,  \* [Keys -> Objects]: what the API server holds
  buckets,  \* the buckets of S3 that exist
  made,     \* <<k, b>> when the operator has created b for k
  recorded, \* <<k, b>> when k has been stored with the ARN of b
  released, \* keys whose bucket was deleted or found missing since the
            \* deletion of the object was requested
  mistaken  \* keys of objects the operator takes to be as they once were

vars == <<objects, buckets, made, recorded, released, mistaken>>

-----------------------------------------------------------------------------
(* The users.                                                              *)

Create(k, spec) ==
  /\ objects[k].phase = "absent"
  /\ objects' = [objects EXCEPT ![k] =
                   [phase |-> "live", finalizer |-> FALSE,
                    spec |-> spec, status |-> NoStatus]]
  /\ UNCHANGED <<buckets, made, recorded, released, mistaken>>

Edit(k, spec) ==
  /\ objects[k].phase # "absent"
  /\ objects' = [objects EXCEPT ![k].spec = spec]
  /\ UNCHANGED <<buckets, made, recorded, released, mistaken>>

RequestDeletion(k) ==
  /\ objects[k].phase = "live"
  /\ objects' = [objects EXCEPT ![k].phase =
                   IF objects[k].finalizer THEN "terminating" ELSE "absent"]
  /\ released' = released \ {k}
  /\ UNCHANGED <<buckets, made, recorded, mistaken>>

(* Others create and delete buckets as they please.                        *)
OthersChange(b) ==
  /\ buckets' = IF b \in buckets THEN buckets \ {b} ELSE buckets \cup {b}
  /\ UNCHANGED <<objects, made, recorded, released, mistaken>>

-----------------------------------------------------------------------------
(* The operator.                                                           *)

(* The operator is shown something it had gone beyond, or the present.     *)
Mislead ==
  /\ mistaken' \in SUBSET Keys
  /\ UNCHANGED <<objects, buckets, made, recorded, released>>

(* Under our finalizer the object cannot go without the operator.          *)
Held(k) == objects[k].phase # "absent" /\ objects[k].finalizer
LiveAndHeld(k) == objects[k].phase = "live" /\ objects[k].finalizer

Claim(k) ==
  /\ objects[k].phase = "live" /\ ~objects[k].finalizer /\ k \notin mistaken
  /\ objects' = [objects EXCEPT ![k].finalizer = TRUE]
  /\ UNCHANGED <<buckets, made, recorded, released, mistaken>>

(* The bucket may no longer be the one the object asks for.                *)
Make(k, b) ==
  /\ Held(k) \/ k \in mistaken
  /\ b \notin buckets
  /\ buckets' = buckets \cup {b}
  /\ made' = made \cup {<<k, b>>}
  /\ UNCHANGED <<objects, recorded, released, mistaken>>

(* A status that names the bucket the object asks for, where it asks for   *)
(* it, and that changes neither a bucket nor a region that it named.       *)
Places(k, location) ==
  /\ objects[k].status.arn \in {NONE, objects[k].spec.bucket}
  /\ objects[k].status.location \in {NONE, location}
  /\ recorded' = recorded \cup {<<k, objects[k].spec.bucket>>}

(* The status of a bucket that was created for this very specification.    *)
Own(k) ==
  /\ LiveAndHeld(k) /\ k \notin mistaken
  /\ <<k, objects[k].spec.bucket>> \in made
  /\ Places(k, objects[k].spec.region)
  /\ objects' = [objects EXCEPT ![k].status =
                   [arn |-> objects[k].spec.bucket,
                    location |-> objects[k].spec.region,
                    acl |-> objects[k].spec.acl]]
  /\ UNCHANGED <<buckets, made, released, mistaken>>

(* The status of a bucket that others made, at the object's request.       *)
Adopt(k) ==
  /\ LiveAndHeld(k) /\ k \notin mistaken
  /\ objects[k].status.arn = NONE
  /\ objects[k].spec.ownershipStrategy = "Acquire"
  /\ \E location \in {objects[k].status.location, objects[k].spec.region} :
       /\ Places(k, location)
       /\ objects' = [objects EXCEPT ![k].status.arn = objects[k].spec.bucket,
                                     ![k].status.location = location]
  /\ UNCHANGED <<buckets, made, released, mistaken>>

ObserveAcl(k) ==
  /\ LiveAndHeld(k) /\ k \notin mistaken
  /\ objects[k].status.arn = objects[k].spec.bucket
  /\ objects' = [objects EXCEPT ![k].status.acl = objects[k].spec.acl]
  /\ UNCHANGED <<buckets, made, recorded, released, mistaken>>

(* The deletion of a bucket that the object has named, or that there is    *)
(* nothing to delete.                                                      *)
Vacate(k, b) ==
  /\ <<k, b>> \in recorded
  /\ buckets' = buckets \ {b}
  /\ released' = released \cup {k}
  /\ UNCHANGED <<objects, made, recorded, mistaken>>

(* The object goes with its finalizer.                                     *)
Release(k) ==
  /\ objects[k].phase = "terminating" /\ objects[k].finalizer /\ k \notin mistaken
  /\ \/ objects[k].spec.deleteStrategy = "Skip"
     \/ objects[k].status.arn = NONE
     \/ k \in released
  /\ objects' = [objects EXCEPT ![k].phase = "absent", ![k].finalizer = FALSE]
  /\ UNCHANGED <<buckets, made, recorded, released, mistaken>>

-----------------------------------------------------------------------------
Init ==
  /\ objects \in [Keys -> [phase : {"absent"}, finalizer : {FALSE},
                           spec : Specs, status : {NoStatus}]]
  /\ buckets = {} /\ made = {} /\ recorded = {} /\ released = {}
  /\ mistaken = {}

Next ==
  \/ \E k \in Keys :
       \/ RequestDeletion(k) \/ Claim(k) \/ Own(k) \/ Adopt(k) \/ ObserveAcl(k)
       \/ Release(k)
       \/ \E spec \in Specs : Create(k, spec) \/ Edit(k, spec)
       \/ \E b \in Buckets : Make(k, b) \/ Vacate(k, b)
  \/ \E b \in Buckets : OthersChange(b)
  \/ Mislead

Spec == Init /\ [][Next]_vars

=============================================================================
