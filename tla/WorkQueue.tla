----------------------------- MODULE WorkQueue -----------------------------
(***************************************************************************)
(* The rate limiting work queue a controller takes its keys from (package  *)
(* k8s.io/client-go/util/workqueue, vendored): operators on a queue record *)
(*                                                                         *)
(*   queue       the keys waiting, in order                                *)
(*   dirty       the keys that need processing                             *)
(*   processing  the keys a worker holds                                   *)
(*   pending     the keys whose Add is under way: AddRateLimited timers,   *)
(*               and the informer's initial list after a start             *)
(***************************************************************************)
EXTENDS Naturals, Sequences

WorkQueues(K) == [queue : Seq(K), dirty : SUBSET K,
                  processing : SUBSET K, pending : SUBSET K]

EmptyQueue(listed) == [queue |-> << >>, dirty |-> {}, processing |-> {},
                       pending |-> listed]

(* Add that takes no notice of what waits already. *)
AddAgain(q, k) ==
  [q EXCEPT !.dirty = @ \cup {k},
            !.queue = IF k \in q.processing THEN @ ELSE Append(@, k)]

(* Type.Add: a key being processed is only marked dirty. *)
Add(q, k) ==
  IF k \in q.dirty THEN q
  ELSE [q EXCEPT !.dirty = @ \cup {k},
                 !.queue = IF k \in q.processing THEN @ ELSE Append(@, k)]

(* Type.Get, for a queue that is not empty. *)
Get(q) ==
  LET k == Head(q.queue)
  IN  [q EXCEPT !.queue = Tail(@), !.dirty = @ \ {k},
                !.processing = @ \cup {k}]

(* Done that forgets what was added meanwhile. *)
DoneForgetful(q, k) == [q EXCEPT !.processing = @ \ {k}]

(* Type.Done: what was added while the key was processed is queued now. *)
Done(q, k) ==
  [q EXCEPT !.processing = @ \ {k},
            !.queue = IF k \in q.dirty THEN Append(@, k) ELSE @]

(* rateLimitingType.AddRateLimited, and the expiry of its timer. *)
AddRateLimited(q, k) == [q EXCEPT !.pending = @ \cup {k}]
AddPending(q, k) == Add([q EXCEPT !.pending = @ \ {k}], k)

(* What waits is dirty, is held by no worker, and waits once. *)
Stingy(q) ==
  \A i \in 1..Len(q.queue) :
    /\ q.queue[i] \in q.dirty \ q.processing
    /\ \A j \in 1..Len(q.queue) : q.queue[j] = q.queue[i] => j = i
=============================================================================
