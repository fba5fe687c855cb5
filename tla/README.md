# Verification of the AWS resource operator

The operator keeps S3 buckets as Kubernetes objects of kind `S3Bucket` describe
them. This directory holds TLA+ models of its control logic, the TLC runs that
check them on small instances, and proofs for instances of any size.

    tlc -workers 2 -config Lifecycle.cfg S3BucketController.tla
    tlapm S3BucketRefinement_proof.tla

The module of each configuration is in the table of runs; every `*_proof.tla` is
checked the same way.

## The system

| Part | State it keeps | Operations | Where |
|---|---|---|---|
| S3Bucket controller | none of its own between reconciles: the object (spec, status, finalizer) in the API, the informer's cache of it, the bucket in S3 | `Reconcile`, `validateInstance`, `reconcileInstance`, `createBucket`, `acquireBucketOwnership`, `reconcileBucketAcl`, `deleteBucket`, `deleteBucketObjects`, `updateInstance` | `pkg/controller/s3bucket/s3bucket_controller.go` |
| Bucket configuration | eight features of a bucket in S3 | `reconcileBucket` and the read and write of each feature | the same file, lines 376-1136 |
| Tag helpers | none | `diffTagsS3`, `tagIgnoredS3`, `tagsToMapS3`, `tagsFromMapS3` | `s3bucket_tags.go` |
| Work queue and loop | queue, dirty, processing, delayed keys | `Add`, `Get`, `Done`, `AddRateLimited`, `processNextWorkItem` | vendored client-go and controller-runtime |
| Bucket names | none | `validateBucketName` | `s3bucket_controller.go:239-269` |
| AWS errors | none | `RetryableError`, `NonRetryableError`, `IsAWSErr`, `IsAWSCode` | `pkg/aws/awserr.go` |
| AWS client | account and partition, found once per process; the credentials in use | `newAWSClient`, `Client`, `ValidateRegion`, `ValidateAccountId`, `GetCredentials`, `GetAccountIDAndPartition` | `pkg/aws/config.go`, `auth_helpers.go`, `provider.go` |
| AWS calls | the attempts of one request | `Send`, the retry handlers, `ShouldRetry` | vendored aws-sdk-go, set up by `pkg/aws/config.go:180-209` |
| Deletion of objects | pages, batches, the errors of one pass | `deleteBucketObjects` | `s3bucket_controller.go:1235-1247`, vendored s3manager |
| JSON and string helpers | none | `NormalizeJsonString`, `ContainsString`, `RemoveString` | `pkg/helper/structure` |
| Manager, flags, webhooks, API registration, deepcopy | none | start-up | `cmd/manager`, `pkg/flags`, `pkg/webhook`, `pkg/apis` |

**How they interact.** A watch delivers versions of the objects to a cache and
puts their keys into the work queue; a resync does so periodically. When it starts,
and whenever the watch breaks, the informer lists the objects; it lists with
resource version "0" (`reflector.go:172-175`), so that the API server may answer from
a cache of its own that lags, and the informer takes what it is told, also when it
is older than what it had. One worker
(`add` sets no `MaxConcurrentReconciles`) takes a key, reads the object from the
cache, and keeps that instance in memory until the reconcile ends. It makes S3
calls and `Update` calls. An `Update` carries the whole object, status included
(the CRD has no status subresource), and the API server refuses it when the
object has changed. S3 calls are refused by nobody. A reconcile that fails puts
the key back with a delay.

**What is hard.** The instance may be old when it is read, and is older at each
call; after a stale list it may be older than what an earlier reconcile worked on.
Users change or delete the object between two calls, and the order of S3
call and `Update` decides what is lost then. Calls fail, or succeed and lose
their answer, and the SDK sends them again on its own. The process dies anywhere.
Other people own, fill and delete buckets, and several objects may name one.
What is left behind by a failure has to be found and completed by a later
reconcile, from the object and S3 alone. The listing of a bucket that others
fill spans several calls. Credentials change behind a process that has
validated them. `PROJECT.json` lists these hazards by line.

**What makes the parts correct.**

- Controller: the finalizer is stored before S3 is touched; no bucket is changed
  or deleted for an object that does not own it, or for an earlier object of the same
  name; ownership is taken only when
  it is asked for; name and region stay once stored; a deletion follows the
  strategy that is stored when it ends; deletions and creations end.
- Configuration: what a reconcile has passed is configured, everything when it has
  returned; what is configured is not written again; drift is repaired.
- Queue: no wake-up is lost, and a key waits once, however often its object
  changes.
- Names: what the validation accepts is what the rules for names accept (which it
  is, but for hyphens).
- Client: a running operator knows the account it works in, and it is permitted.
- Calls: a result is taken for a creation or a deletion only if it was one; to the
  controller, all attempts are one call.
- Deletion of objects: success means that what was there at its start is gone; to
  the controller, all pages and batches are one step.

## Modules

**`WorkQueue`** has the operators of the queue on one record, so that the
controller's module composes with it: `wq' = Add(wq, k)`. `pending` stands for
the timers of `AddRateLimited` and for the informer's initial list. `Stingy(q)` says
that a key waits in the queue at most once.

**`S3BucketController`** is the core. Its state and the code's:

| Variable | In the program |
|---|---|
| `versions[k]` | the versions of object `k`, from the newest one a cache of the operator has held to the one the API server holds (`Stored`); those between are watch events under way |
| `past[k]`, `behind[k]` | the last `MaxLag` versions before them, which a list may still say, and by how many the cache has gone back: 0 but after a stale list. `Cached` is what the cache holds |
| `s3[b]` | the bucket: whether it exists, its region, canned ACL, whether it has objects, and (history) who made it |
| `wq` | the work queue |
| `worker` | the call the worker makes next, the key it holds, the instance in its memory, and (history, `rewound`) whether the cache had gone back when that was read |
| `made`, `recorded`, `released` | history for the properties: who created which bucket, whose stored status named which bucket, whose bucket was deleted or missing since its deletion was requested |
| `spent` | what the environment has used of its bounds |

`TakeKey` is the read from the cache and the decisions up to the first remote
call (`StartReconcile`); then each remote call is one action, with the decisions
up to the next call: `AddFinalizer`, `HeadBucket`, `CreateBucket`,
`RecordCreated`, `GetBucketLocation`, `RecordAcquired`, `ConfigureTagsAndPolicy`,
`PutBucketAcl`, `RecordAcl`, `ConfigureRest`, `DeleteBucket`, `EmptyBucket`,
`DeleteEmptied`, `RemoveFinalizer`. `FinishItem` is `handleRetryError` and the
end of `processNextWorkItem`. Only the remote calls are visible to others, so
this granularity loses no interleaving. Each call has the outcomes the code
tells apart, a failure, and where it writes also a lost answer.

The environment: `Deliver` (one event, or several at once after a broken
watch), `Relist` (the watch broke, and the list says what the cache held some time
ago), `Resync`, `Enqueue`, users who create, edit and delete objects,
outsiders who create, fill, empty and delete buckets, and `Crash`, after which the
informer of the new process lists everything, of any age the API server's lag
allows. Lists say something of each object on its own: a real list is of one moment,
so the model has more of them. A `Relist` costs a fault; events that were replayed
come again in order (`Deliver`). The API server and S3 are modelled from how the
code uses them and are marked external in `PROJECT.json`: an accepted `Update`
needs the stored resource version; an `Update` that changes nothing raises no
event; an object under deletion is gone with its last finalizer.

**`BucketConfig`** is `reconcileBucket` for one owned bucket: `at` is the
feature in the code's order, one beyond the last when it has returned and 0 when an
error ended it, and `call` the next call for it. A setting is a
document that is there or not; policy and routing rules may also be malformed
JSON. Tags are maps, with reserved `aws:` keys that the helpers filter.
Versioning has S3's three states against the spec's two. Users edit, outsiders
make drift or delete the bucket, calls fail or lose their answer, the process
dies. In the core these calls are the two steps before and after the ACL.

**`S3BucketLifecycle`** is what the controller promises, without cache, queue,
instance, calls and failures: objects as the API server holds them, the set of
buckets that exist, and the three histories. Each of its actions is one write
that a controller would make which sees the object of that moment: `Claim` (the
finalizer), `Make`, `Own`, `Adopt`, `ObserveAcl`, `Vacate`, `Release`. Users and
others act freely. `mistaken` has the objects that the operator takes to be as they
once were (`Mislead`): for these it may make a bucket although they are gone, but it
writes none of them. `S3BucketController` implements it under the mapping
`objects <- Stored` (without the resource version), `buckets <- those that exist`;
`made`, `recorded` and `released` map to themselves, and `mistaken` is the object of a
worker that has read from a cache turned back. Reads, retries, refused updates,
deliveries and crashes are stutters, or `Mislead`.

**`ForceDelete`** refines the controller's steps `EmptyBucket` and `DeleteEmptied`
for one bucket: `ListObjects` with its marker, the page, the batch that is filled
over the ends of pages, partial failures of a batch, the last batch, and the
second `DeleteBucket`. Object names are numbers in the order of the listing.
`behind` is the set of objects that have old versions or a delete marker, which
the listing does not show and which keep S3 from deleting the bucket.

**`S3Deletion`** is that deletion as the controller takes it: a bucket has objects or
has none, and `deleteBucketObjects` is one step, which on success leaves only what
was put meanwhile, or old versions. `ForceDelete` implements it. The step of the
abstract pass is the one after which the pass has no call to make any more
(`Emptying`): up to there the bucket counts as filled, whatever has been deleted
of it, and its result is decided there. This is what the core leaves out of its
`EmptyBucket`, which is one action among those of others; old versions are what it
leaves out besides (its buckets are not versioned).

**`AwsClient`** is the process from `main` to its calls: `pc` follows
`Config.Client`; `chain` and `creds` are the credential providers and what they
gave; `sources` is where credentials can come from, and changes behind the
process. Credentials stand for the account they belong to. Every error of the
start exits, and Kubernetes restarts the process with the same flags. While it
runs, credentials expire and are fetched again from the chain; nobody validates
them again. **`MCAwsClient`** has the flags TLC starts it with.

**`ApiCall`** refines the controller's `CreateBucket` and `DeleteBucket` into the
SDK's attempts: an attempt is refused, fails on the network or loses its answer
after it took effect; the retry handlers and the count decide on another one;
others create and delete the bucket and credentials expire in between.

**`S3Call`** is such a call as the controller takes it: S3 does it in one step,
and the answer comes or is lost. `ApiCall` implements it, the call being done at
the attempt that takes effect; so the controller, which sees the result only, may
conclude from it what its steps `CreateBucket` and `DeleteBucket` do (with
`AnswerLost`).

**`BucketName`** is `validateBucketName` on names that a user writes character by
character; a character is its class, letters, digits and hyphens apart. The code tests the name as a whole; the
history `labels`, the name cut at its periods, is what the tests are compared with:
`IsLabel` is the rule of the page the code refers to (line 238), `HyphenAtEnd` what of
it the code does not test.

**`MCBucketConfig`** is for TLC. `RulesRead`, a constant of `BucketConfig`, says
how S3 gives back routing rules that were sent: through the SDK's types, so that
some texts come back in another spelling.

**Proof modules**: `S3BucketController_proof`, `S3BucketRefinement_proof` and
`S3BucketWakeups_proof` extend each other; `ForceDelete_proof`,
`AwsClient_proof`, `ApiCall_proof`, `BucketConfig_proof` and `BucketName_proof`
stand alone.

## Runs

| Run | Module, instance | What it shows |
|---|---|---|
| `lifecycle` | `S3BucketController`: 1 object, 1 bucket, Skip and Force; 3 user actions, 1 fault, 1 crash, 1 outsider, lists up to 4 versions old | `TypeOK`; `FinalizerGuardsProvisioning`; `QuietMeansSettled`: no lost wake-up; `DeletionHonoursStrategy`; `LiveBucketNotDeleted`; `ProvisioningCompletes`, `DeletionCompletes` |
| `shared_bucket` | `S3BucketController`: 2 objects, a valid and an invalid name, Created and Acquire; 3 user actions | `OnlyRecordedBucketsTouched`, `AdoptionOnlyOnRequest`, `QueuedOnce`, `QuietMeansSettled`; `ProvisioningCompletes` and `DeletionCompletes` for both objects |
| `places` | `S3BucketController`: 1 object, 2 buckets, 2 regions of which one is us-east-1, Acquire; 3 user actions, 1 fault, 1 outsider, lists up to 1 version old | `RecordedPlaceIsFinal`, `ImplementsLifecycle`, `ProvisioningCompletes` |
| `bucket_config` | `MCBucketConfig`: an ordinary and a reserved tag with 2 values, 2 documents for every setting; 2 edits, 1 outsider, 1 fault | `TypeOK`, `PassedIsConfigured`, `ConfiguredIsNotRewritten`, `EventuallyConfigured` |
| `force_delete` | `ForceDelete`: 4 objects, pages of 3, batches of 2; 2 puts, 2 faults | `TypeOK`, `SuccessLeavesOnlyNewObjects`, `NoObjectSentTwice`, `BatchWithinLimit`, `BucketGoes`; `ImplementsDeletion`, with and without versions |
| `operator_start` | `MCAwsClient`: 2 accounts, every combination of the flags; 2 changes of credentials, 2 faults | `TypeOK`, `AccountKnown`, `OnlyPermittedAccounts`, `ArnsStayValid`, `StartCompletes` |
| `api_call` | `ApiCall`: 4 retries, network threshold 2 | `TypeOK`, `CreatedMeansMade`, `DeletedMeansGone`, `PermanentFailureCutShort`, `ImplementsCall`, `CallReturns` |
| `bucket_name` | `BucketName`: all names of up to 8 characters | `NamesAreLabels`: six tests of the whole name accept just the names of labels, with hyphens anywhere in them; `PortableToEast` |
| `leaked_bucket`, `stale_acl`, `retried_anyway`, `versioned_bucket` | no faults | disagreements with the documentation, below |

**Bounds of the controller.** `MaxUser`, `MaxOutsider`, `MaxFaults` and
`MaxCrashes` bound the environment, never the operator. Three user actions are a
creation, an edit or deletion in the middle of the reconcile that follows, and a
deletion or re-creation on top of what that left behind, or two creations and a
change. A second fault meets the same state as the first, since a failed
reconcile keeps nothing in memory. One crash likewise. `MaxLag` bounds how old a list may be: four versions lie between an object under
deletion and one created anew that has its finalizer and its status, when each was
seen by the cache, so that a list may go back across a whole re-creation; in
`places` it is one, which is enough for a list to
be wrong about a finalizer or a status, and in `shared_bucket`, which is about the
queue, lists are fresh. `lifecycle` has one ACL: a status whose ACL lags is that of
`stale_acl`. One worker serves all
keys in turn, so that two keys show every way they can meet. The theorems hold
without these bounds. The system stops when no object is left and the
environment has used its bounds; deadlock is therefore not checked in the
controller's runs. us-east-1 occurs in `places` only.

**Other bounds.**

- `BucketConfig`: objects are created with nothing to configure
  (`BlankSpecs`); two edits set a document and change or remove it, or touch two
  features; the outsider's change is drift in either direction. The worker always
  has a next step, and deadlock is checked.
- `ForceDelete`: three and two do not divide each other, so that a batch is
  filled over the end of a page; four objects are two pages; two puts are one
  before and one behind the marker, two faults one batch that fails and one lost
  answer. The system stops when the bucket is gone.
- `AwsClient`: two accounts are the one that is meant and another; two changes
  let the host's role come and go, or two sources change between two starts. The
  region is one the SDK does not know and infers no partition from, where the
  partition depends most on the account. `RegionIsValid` with a partition is
  covered by the theorems.
- `ApiCall`: the retries lie on both sides of the threshold, as 25 and 9 do in
  the code; executions are counted up to `MaxExecutions`, one more than the code
  can reach.
- `BucketName`: the code's lengths 3, 63 and 255 are 2, 6 and 7, an address has
  three octets of two digits instead of four of three, and names go one character
  beyond the longest. The tests of the code compare lengths with these limits
  only and have no other use of them.

**Fairness.** `FairSpec` of the controller has weak fairness for the worker's step
(its goroutine runs, and every call returns or fails), for the delivery of each
object's events and for the expiry of each timer (client-go's goroutines run).
Users, outsiders, faults, crashes and the resync owe nothing: liveness needs no
resync. That every call returns is itself checked: `CallReturns`, which needs only
that attempts end and waits expire. In `BucketConfig` and `ForceDelete` weak
fairness of the worker stands for a queue that tries again after an error, which
the core shows. `AwsClient` has weak fairness for the steps of the start and for
Kubernetes restarting the container; nobody has to provide credentials, and
failures of the start are bounded by `MaxFaults`.

## What the runs found

1. **`leaked_bucket`.** `README.md` lists `Skip` as the one reason not to
   delete a bucket. When the user changes or deletes the object between
   `CreateBucket` and the `Update` that stores its ARN, that `Update` is refused.
   The deletion then reads an object without ARN, skips the bucket and removes the
   finalizer. The bucket stays, without a fault or a crash.
2. **`stale_acl`.** `s3bucket_types.go:87` calls the status the observed state.
   The ACL is compared with the status and written to it after `PutBucketAcl`.
   A user who changes the ACL back in between makes that `Update` fail; spec and
   status then agree and the bucket keeps the other ACL.
3. **`retried_anyway`.** `awserr.go:64` describes errors that are not retryable.
   `handleRetryError` returns them as errors, and the loop queues every error
   again. The liveness of the operator depends on it: `RequeuedIfRetryable`, a
   mutant that does what the comment says, breaks `QuietMeansSettled`,
   `DeletionCompletes` and `ProvisioningCompletes`.
4. **`versioned_bucket`.** `s3bucket_types.go:74` says that with `Force` all objects
   are deleted "so that the bucket can be deleted without error".
   `deleteBucketObjects` lists current objects and deletes them without a version;
   in a bucket that was ever versioned, which the spec itself can ask for, delete
   markers and old versions remain, and the second `DeleteBucket` fails at every
   retry. `BucketGoes` holds for all other buckets.

**What the models show besides.** These have no run of their own; the properties
that hold name them as exceptions.

- `FinalizerGuardsProvisioning` and `LiveBucketNotDeleted` except a worker that read
  its object from a cache turned back by a stale list (`worker.rewound`). Such a
  worker may see the live object with its finalizer of before a deletion that has
  ended, and create a bucket that nobody will delete; or see the object under
  deletion, with its ARN, of before one that was created anew under the same name,
  and delete the bucket of the live one. Every `Update` it makes is refused; S3
  calls are not. Without the exception TLC finds both in the instance of
  `lifecycle`, with lists that are one version old and two.
- `ProvisioningCompletes` excepts a missing bucket in us-east-1: `createBucket` sends
  the region as `LocationConstraint` always (`s3bucket_controller.go:1150-1152`), S3
  takes none for us-east-1, and the SDK, which knows (`bucket_location.go:95-105`),
  is not asked. The operator tries for ever.
- `NamesAreLabels` names the one rule that `validateBucketName` does not test: labels
  begin and end with a letter or a digit. `-abc`, `a-.b` and `---` pass, and S3
  refuses them.
- `ProvisioningCompletes`: an object with `Created` whose bucket exists without
  being recorded never gets it. A lost answer of `CreateBucket` leads there.
- `AdoptionOnlyOnRequest` is about storing an ARN. Once it is stored, a bucket
  that somebody else made under the name after the operator's was deleted is
  configured, and later deleted, like the operator's own
  (`s3bucket_controller.go:306`), although `s3bucket_types.go:81` says that with
  `Created` only buckets created by the operator are reconciled.
- `OnlyPermittedAccounts` excludes two cases that `flagset.go:66-67` does not: with
  both checks skipped the account is empty, and `ValidateAccountId` compares the
  empty string with the lists; and credentials that are fetched again after they
  expired may belong to another account, which nobody validates.
- `PermanentFailureCutShort` counts `MaxRetries + 1` executions: `flagset.go:59`
  calls the flag the maximum number of executions, and the SDK counts the
  attempts after the first.
- `ConfiguredIsNotRewritten` excludes reserved tags and routing rules whose JSON
  is not the SDK's spelling (`RulesRead`): those are written again by every
  reconcile.

## Proofs

The proof modules show, for all constants that satisfy
`ConstantsAssumption` (distinct names for absent values and outsiders, non-empty
sets, bounds in `Nat`):

- `TypeCorrect`: `Spec => []TypeOK`.
- `FinalizerGuards`: `Spec => []FinalizerGuardsProvisioning`.
- `RecordedFirst`: `Spec => []OnlyRecordedBucketsTouched`.

`FinalizerGuardsProvisioning` is not inductive: it speaks of what the API server
stores, and the worker decides from an instance of any age. The inductive
invariant `IInv` adds

- `VersionsInv`: along `versions[k]` resource versions increase, and whatever
  version, however old, shows the object live under the finalizer, the object
  that is stored is still there under the finalizer;
- `InstanceInv`: the worker's instance is not newer than what is stored, and
  agrees with it on phase and finalizer when it is not older; until the first
  `Update` of a reconcile nothing under way is older than the instance, and one that
  shows the object live under the finalizer is right about the stored object, unless
  it came from a cache turned back, when it is older than all of `versions[k]`
  (`Read`); a provisioning worker's instance is live under the finalizer, a deleting
  worker's is terminating under it.

`PastInv` stands beside it: whatever a list may still say is older than what a cache
has held.

The argument: only `RemoveFinalizer` takes the finalizer away, and its `Update`
is accepted only when the instance is as new as the stored object. That
instance was read from the cache, so the cache is as new too, and no version
that shows the object live is left in the cache, under way, or in the memory of
the one worker; it may be left in `past`, and only there, from where a stale list can
bring it back. An object created anew under the same name has a higher
resource version and starts without the finalizer. Each action has a lemma that
it preserves `IInv`; `Invariance` combines them. TLC has checked the
invariants of the three modules on the instance of `lifecycle`.

`OnlyRecordedBucketsTouched` does not follow from the worker's step either: the
worker sets the ARN in memory before it stores it, and a later reconcile reads
it from a version of any age. `Ownership`, proved on top of `IInv`, adds

- `VersionsKnown` and `PastKnown`: the ARN of every version, old or new, under way or
  in `past`, is in `recorded`;
- `CallInv`: at every call but the two that store a new ARN, the ARN in memory
  is in `recorded`; from the first `Update` on it names the bucket the spec
  names, and a deleting worker has one.

Edits copy the status they find, so users cannot break `VersionsKnown`, and
only a successful `Update` lets the worker go on with a new ARN. That the ARN
names the spec's bucket is `validateInstance`'s doing, and stays so because the
spec in memory never changes within a reconcile.

**The refinement** (`Implementation`: `Spec => ImplementsLifecycle`). A refused
`Update` is a stutter, so what has to be shown is that an accepted one is lawful
for the object as stored, although the instance was read long before. `Sync`, on
top of `IInv` and `Ownership`, says that an instance as new as the stored object

- has its spec, and its status but for what the last call found out (`Agrees`):
  the three calls that store a status differ from the stored object in exactly
  the fields of `CreatedStatus`, `AcquiredStatus` or the ACL;
- has passed what the earlier calls test (`Established`): the place fits the
  status, the strategy asks for the acquisition, the bucket about to be recorded
  is in `made`;
- may release the object, when it is about to remove the finalizer.

`Sync` cannot ask this of an older instance, and need not, since its `Update` is
refused. Each accepted `Update` is then `Claim`, `Own`, `Adopt`, `ObserveAcl` or
`Release`, and never of a `mistaken` object, since an instance that came from a
cache turned back is older than the stored object at every call that writes it
(`Read`). `Make` is the one action that is allowed for such an object; for any other
it needs `Held`, which is `FinalizerGuardsProvisioning`. From the same invariant follow `AdoptsOnRequest`
(`AdoptionOnlyOnRequest`), `PlacesFinal` (`RecordedPlaceIsFinal`) and
`DeletionLawful` (`DeletionHonoursStrategy`).

**`S3BucketWakeups_proof`** has the two properties about what the worker has not
seen yet.

`QuietSettled` (`QuietMeansSettled`). `Wakeful` says that an object that is not
settled has an event under way, a dirty or delayed key, or the worker
(`WakeupKept`), that a dirty key nobody holds is in the queue (`QueueComplete`),
and that an instance that is not the stored object any more has been `Noticed`:
another event is under way or has marked the key dirty (`StaleNoticed`). A
reconcile that ends without error has worked either on the stored object, which
`Sync` and `Ownership` then show settled, or on one whose key `Done` queues again.

`KeysQueuedOnce` (`QueuedOnce`). `Stingy` alone is not inductive: `Done` puts a key
back that was marked while the worker had it, and would queue it twice if it were
in the queue already. It is not, because a key that is processed is never queued,
and because the worker of `Wakeful` is the one that processes.

`LiveOwnersKeep` (`LiveBucketNotDeleted`). `CacheCaughtUp`: once an object is live
under the finalizer, no version in `versions[k]` shows an earlier state of its name,
because the reconcile that set the finalizer had read the object itself, and its
`Update` was accepted. Lists leave that as it is (`MovesCaughtUp`): they may turn the
cache back behind `versions[k]`, into `past`, and `CacheCaughtUp` says nothing of
`past`. So a worker that deletes, and had not read from there, does not do it for
such an object (`DeletesTheDead`), and an object without the finalizer has no ARN.

**`ForceDelete_proof`**: the types, `SuccessLeavesOnlyNewObjects`,
`NoObjectSentTwice` and `BatchWithinLimit`, for all objects, sizes of pages and
batches. `MarkerInv`: all that was listed lies before the marker, and page, batch
and what was sent are disjoint. `CoverInv`: unless something failed, an object
that was there at the start is in the page, in the batch, or behind the marker
with pages to come.
`ForceImplements` (`Spec => ImplementsDeletion`): the steps of a pass are stutters
but the one that decides it (`PassSimulated`, `CallsSimulated`); where it decides for
success, `CoverInv` says that what is left was put meanwhile, and `VersionsInv`
that only a versioned bucket has anything behind its objects. A pass cut short by
a failure may have deleted anything.

**`AwsClient_proof`**: the types, `AccountKnown`, `OnlyPermittedAccounts` and
`ArnsStayValid`, for all accounts, partitions and flags. `CredsInv` relates the credentials
to the step of the process and the flags, `ClientInv` says what of the account is
known at each step (nothing is known at the end only if nothing was asked for),
`HistoryInv` carries it to the calls made and the ARNs stored.

**`ApiCall_proof`**: the types, `CreatedMeansMade`, `DeletedMeansGone` and
`PermanentFailureCutShort`, for all numbers of retries. The count of retries and
that of executions go together (`RetriesInv`); while no endpoint was found the
error is always the one that Client's handler looks for (`UnreachableInv`); an
answer without error is that of an attempt that took effect (`OutcomeInv`).
`CallImplements` (`Spec => ImplementsCall`): an attempt that is going to be
followed by another is a step of `S3Call` that leaves the call open, or a stutter;
the one whose answer is taken is the step it answers for.

**`BucketConfig_proof`**: `TypeOK`, `PassedIsConfigured` and
`ConfiguredIsNotRewritten`, for all tags and values. What was configured at the
start is configured until its turn (`AheadInv`); what has been passed is
configured, up to the last feature once the reconcile has returned (`BehindInv`); a
write is under way, or was sent, for a feature that
was configured only if it can never be read back as asked (`WriteInv`,
`WrittenInv`). A write to one feature leaves the others alone, which is shown
once (`OthersKept`).

**`BucketName_proof`**: `NamesAreLabels` and `PortableToEast`, for all lengths of
names and addresses. The labels have the characters of the name without its
periods (`SameCharacters`), one more than it has periods (`OneMore`); between two
neighbouring periods there is a label as long as their distance says
(`GapsAreLabels`), each label but the last is between two (`LabelsAreGaps`), and the
last is the rest (`LastIsRest`). With these, each test of the code is one about the
labels: `CharactersOfLabels`, `PeriodsOfLabels`, `AddressOfLabels`. That a label may
have a hyphen at an end is in the statement.

Assumptions: the named `ASSUME`s of the modules, which TLC evaluates in the runs.
Every safety property that a run shows, and every refinement, is proved. Only
model-checked: the liveness properties (`ProvisioningCompletes`,
`DeletionCompletes`, `EventuallyConfigured`, `BucketGoes`, `StartCompletes`,
`CallReturns`), since fairness is out of the prover's reach. That `S3Call` and
`S3Deletion` are the steps of the core is by reading: their actions are the core's
for one bucket; a put during the pass is an action of its own in `S3Deletion`, and
`OutsiderMeanwhile` in the core.

## Not modelled

- Documents inside the features (CORS rules, policies): values. Their comparison
  by a normal form is that a value stands for all texts of one form.
- Features that `validateInstance` refuses: an invalid name (`InvalidBuckets`)
  stands for every spec it refuses by itself; which names those are is
  `BucketName`'s question.
- Several workers: `add()` sets no `MaxConcurrentReconciles`, so one is all the
  program can start. Queue shutdown, back-off times, metrics.
- Two processes: `config/manager/manager.yaml` runs a `StatefulSet` of one pod, and
  Kubernetes starts the next one when the last is gone, so the models have one.
  Leader election is off by default (`main.go:44`): run as a `Deployment`, two
  would overlap, and their S3 calls would be serialised by nothing.
- The endpoints of the AWS services. The STS client that assumes the role is made
  without the endpoint of `aws-sts-endpoint` (`auth_helpers.go:253`); whether a
  call succeeds is a free choice in `AwsClient` either way.
- Credentials that expire during the start, which takes seconds.
- The answers of us-east-1 to `CreateBucket`: `ApiCall` is for the other regions, and
  the core has the call fail there, as the `LocationConstraint` makes it.
- A region that the endpoint the operator speaks to does not create buckets for:
  that is a failure that stays, and the runs' other regions have none.
- The delays between retries, TLS, debug logging, keys and tokens.
- The webhook registry (an empty list), API registration, generated copies, the
  version, test helpers and manifests: no state, or not the operator's code.
- Kubernetes events and logs.

## Plan

Done: all of the controller, its queue, the configuration, the deletion of
objects, the AWS client with its retries, the names, the refinements, and proofs of
every safety property. What is left:

1. A proof that the core's steps are those of `S3Call` and `S3Deletion`. The core
   has no history of what a call concluded and of puts during a pass (its
   `EmptyBucket` has `OutsiderMeanwhile` for them), which the mapping would need.
2. Two processes that share S3 and the API, if the operator is ever deployed so.
