------------------------------ MODULE ApiCall ------------------------------
(***************************************************************************)
(* One CreateBucket or DeleteBucket of the S3Bucket controller, as the AWS *)
(* SDK carries it out: every attempt may be refused, fail on the network   *)
(* or lose its answer after S3 has done what it asked for, and the SDK     *)
(* attempts again what may be transient, within the retries that           *)
(* pkg/aws/config.go sets up. Others create and delete the bucket between  *)
(* two attempts, and the credentials expire.                               *)
(*                                                                         *)
(* S3BucketController makes such a call in one step, which is that of      *)
(* S3Call; whether it may, and what the controller may conclude from the   *)
(* result, is the question here.                                           *)
(***************************************************************************)
EXTENDS Naturals

CONSTANTS
  MaxRetries,    \* aws-max-retries
  NetworkRetries \* the lower threshold for permanent network errors: 9

ASSUME RetriesAssumption == MaxRetries \in Nat /\ NetworkRetries \in Nat

(* The errors of an attempt: an endpoint that cannot be found or refuses   *)
(* the connection, another network error, a server error or throttling, an *)
(* expired token, any other refusal, and what S3 says of the bucket.       *)
Network == {"unreachable", "broken"}
Errors == Network \cup {"unavailable", "expired", "refused", "exists", "noSuchBucket"}

MaxExecutions == MaxRetries + 2 \* executions are counted up to here

VARIABLES
  bucket,      \* "none", or whose bucket has the name: "ours", "others"
  credentials, \* what S3 thinks of those the next attempt is signed with
  call,        \* the request: Error, Retryable, RetryCount and its next step
  history      \* what happened since the call began

vars == <<bucket, credentials, call, history>>

Calls == [pc : {"idle", "attempt", "retry", "returned"},
          op : {"create", "delete"},
          error : Errors \cup {"none"},
          retryable : {"nil", "true", "false"},
          retries : 0..MaxRetries]

Histories == [executions : 0..MaxExecutions, \* attempts that were sent
              unreachable : BOOLEAN, \* every one of them found no endpoint
              made : BOOLEAN,        \* one of them made the bucket
              gone : BOOLEAN]        \* there was a moment without a bucket

-----------------------------------------------------------------------------
(* The controller calls.                                                   *)
Start(op) ==
  /\ call.pc \in {"idle", "returned"}
  /\ call' = [pc |-> "attempt", op |-> op, error |-> "none",
              retryable |-> "nil", retries |-> 0]
  /\ history' = [executions |-> 0, unreachable |-> TRUE, made |-> FALSE,
                 gone |-> bucket = "none"]
  /\ UNCHANGED <<bucket, credentials>>

(* S3 does what the attempt asks for, or says why it does not.             *)
Served == IF call.op = "create" THEN "ours" ELSE "none"
Answer ==
  CASE call.op = "create" /\ bucket # "none" -> "exists"
    [] call.op = "delete" /\ bucket = "none" -> "noSuchBucket"
    [] OTHER -> "none"

(* The end of an attempt: an error goes to the retry handlers, those of    *)
(* the network already marked as retryable (handleSendError).              *)
Ended(error) ==
  call' = [call EXCEPT !.pc = IF error = "none" THEN "returned" ELSE "retry",
                       !.error = error,
                       !.retryable = IF error \in Network THEN "true" ELSE "nil"]

Sent(error, made) ==
  history' = [history EXCEPT
    !.executions = IF @ < MaxExecutions THEN @ + 1 ELSE @,
    !.unreachable = @ /\ error = "unreachable",
    !.made = @ \/ made,
    !.gone = @ \/ bucket' = "none"]

(* The body of Send's loop: sign, send, and read the answer.               *)
Attempt ==
  /\ call.pc = "attempt"
  /\ UNCHANGED credentials
  /\ \/ \* the credentials cannot be fetched again: Send returns at once
        /\ call' = [call EXCEPT !.pc = "returned", !.error = "refused"]
        /\ UNCHANGED <<bucket, history>>
     \/ \E error \in Network \cup {"unavailable", "refused"} :
          UNCHANGED bucket /\ Ended(error) /\ Sent(error, FALSE)
     \/ /\ credentials = "stale" /\ UNCHANGED bucket
        /\ Ended("expired") /\ Sent("expired", FALSE)
     \/ /\ credentials = "valid"
        /\ bucket' = IF Answer = "none" THEN Served ELSE bucket
        /\ \E error \in {Answer, "broken", "unavailable"} : \* the answer may be lost
             Ended(error) /\ Sent(error, Answer = "none" /\ call.op = "create")

-----------------------------------------------------------------------------
(* The Retry handlers.                                                     *)

(* config.go's handler has no say, or one that gives up.                   *)
AfterHandlerUnlimited == call.retryable
AfterHandler ==
  IF call.retries >= NetworkRetries /\ call.error = "unreachable"
  THEN "false" ELSE call.retryable

(* DefaultRetryer.ShouldRetry decides what no handler has decided.         *)
Retryable ==
  \/ AfterHandler = "true"
  \/ AfterHandler = "nil" /\ call.error \in {"unavailable", "expired"}

(* Request.WillRetry, and with one retry too many.                         *)
WillRetryOnceMore == Retryable /\ call.retries <= MaxRetries
WillRetry == Retryable /\ call.retries < MaxRetries

(* AfterRetryHandler's RetryCount, and one that throttling does not count. *)
CountUnlessThrottled ==
  IF call.error = "unavailable" THEN call.retries ELSE call.retries + 1
Count == call.retries + 1

(* The wait is over and Send's loop goes on, with credentials that are     *)
(* fetched again when they were the cause; or the call returns the error.  *)
Retry ==
  /\ call.pc = "retry"
  /\ call' = IF WillRetry
             THEN [call EXCEPT !.pc = "attempt", !.error = "none",
                               !.retryable = "nil", !.retries = Count]
             ELSE [call EXCEPT !.pc = "returned"]
  /\ credentials' = IF WillRetry /\ call.error = "expired" THEN "valid" ELSE credentials
  /\ UNCHANGED <<bucket, history>>

-----------------------------------------------------------------------------
(* The others.                                                             *)

OthersChangeBucket ==
  /\ bucket' = IF bucket = "none" THEN "others" ELSE "none"
  /\ history' = [history EXCEPT !.gone = @ \/ bucket' = "none"]
  /\ UNCHANGED <<credentials, call>>

CredentialsExpire ==
  /\ credentials = "valid" /\ credentials' = "stale"
  /\ UNCHANGED <<bucket, call, history>>

-----------------------------------------------------------------------------
Init ==
  /\ bucket \in {"none", "ours", "others"}
  /\ credentials = "valid"
  /\ call = [pc |-> "idle", op |-> "create", error |-> "none",
             retryable |-> "nil", retries |-> 0]
  /\ history = [executions |-> 0, unreachable |-> TRUE, made |-> FALSE,
                gone |-> FALSE]

Next ==
  \/ \E op \in {"create", "delete"} : Start(op)
  \/ Attempt \/ Retry
  \/ OthersChangeBucket \/ CredentialsExpire

Spec == Init /\ [][Next]_vars

(* The goroutine runs on, and the network gives an answer or an error. The *)
(* call need never succeed.                                                *)
FairSpec == Spec /\ WF_vars(Attempt \/ Retry)

-----------------------------------------------------------------------------
(* What the controller concludes from a call that has returned: createBucket *)
(* from no error, deleteBucket from no error or NoSuchBucket.              *)
ConcludedLenient ==
  CASE call.op = "create" /\ call.error \in {"none", "exists"} -> "made"
    [] call.op = "delete" /\ call.error \in {"none", "noSuchBucket", "refused"} -> "gone"
    [] OTHER -> "failed"

Concluded ==
  CASE call.op = "create" /\ call.error = "none" -> "made"
    [] call.op = "delete" /\ call.error \in {"none", "noSuchBucket"} -> "gone"
    [] OTHER -> "failed"

-----------------------------------------------------------------------------
(* Properties.                                                             *)

(* The request stays within its retries.                                   *)
TypeOK ==
  /\ bucket \in {"none", "ours", "others"}
  /\ credentials \in {"valid", "stale"}
  /\ call \in Calls /\ history \in Histories

(* createBucket records the ARN of a bucket that this very call has made:  *)
(* when an attempt made it and the answer was lost, the next one does not  *)
(* succeed, and a bucket that others made meanwhile is not taken for it.   *)
CreatedMeansMade ==
  (call.pc = "returned" /\ Concluded = "made") => history.made

(* deleteBucket lets the finalizer go only when there was a moment since   *)
(* the call began without a bucket, whichever attempt brought it about.    *)
DeletedMeansGone ==
  (call.pc = "returned" /\ Concluded = "gone") => history.gone

(* A permanently wrong endpoint is found out after the network retries,    *)
(* however many retries the flags allow (the Retry handler of Client).     *)
PermanentFailureCutShort ==
  (history.executions > 0 /\ history.unreachable) =>
    history.executions <= MaxRetries + 1 /\ history.executions <= NetworkRetries + 1

(* The call is decided once its retry handlers let it go.                  *)
Outcome ==
  CASE call.pc = "idle" -> "none"
    [] call.pc = "returned" \/ (call.pc = "retry" /\ ~WillRetry) -> Concluded
    [] OTHER -> "calling"

Call == INSTANCE S3Call WITH op <- call.op, outcome <- Outcome

(* S3BucketController's step for a call is enough: with all its attempts,  *)
(* waits and lost answers, a call has its effect in the step that decides  *)
(* its result, or in a try whose answer was lost and that is made again,   *)
(* and what the controller concludes is true at the step that decides it.  *)
ImplementsCall == Call!Spec

(* A call returns, whatever the network, S3 and the credentials do: the    *)
(* one worker of the controller is not lost to it.                         *)
CallReturns == call.pc \in {"attempt", "retry"} ~> call.pc = "returned"
=============================================================================
