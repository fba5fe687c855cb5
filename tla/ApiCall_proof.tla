---------------------------- MODULE ApiCall_proof ----------------------------
(***************************************************************************)
(* Proofs about ApiCall, for every number of retries and every threshold   *)
(* for permanent network errors.                                           *)
(***************************************************************************)
EXTENDS ApiCall, TLAPS

-----------------------------------------------------------------------------
(* The inductive invariant.                                                *)

(* RetryCount and the number of attempts go together.                      *)
RetriesInv ==
  /\ call.pc = "idle" => history.executions = 0
  /\ call.pc = "attempt" => history.executions = call.retries /\ call.error = "none"
  /\ call.pc = "retry" => history.executions = call.retries + 1 /\ call.error # "none"
  /\ call.pc = "returned" => history.executions \in {call.retries, call.retries + 1}

(* While no endpoint was found the threshold is not passed, for the error  *)
(* that Client's handler looks at is always the same.                      *)
UnreachableInv ==
  history.unreachable =>
    /\ call.retries <= NetworkRetries
    /\ call.pc = "retry" => call.error = "unreachable"

(* What the error of an attempt says of the bucket is true.                *)
OutcomeInv ==
  call.pc \in {"retry", "returned"} =>
    /\ call.op = "create" /\ call.error = "none" => history.made
    /\ call.op = "delete" /\ call.error \in {"none", "noSuchBucket"} => history.gone

IInv == TypeOK /\ RetriesInv /\ UnreachableInv /\ OutcomeInv

-----------------------------------------------------------------------------
LEMMA InitInv == Init => IInv
  BY RetriesAssumption
  DEF Init, IInv, TypeOK, Calls, Histories, RetriesInv, UnreachableInv,
      OutcomeInv, MaxExecutions, RetriesAssumption

LEMMA StartInv ==
  ASSUME IInv, NEW op \in {"create", "delete"}, Start(op)
  PROVE  IInv'
  BY RetriesAssumption
  DEF Start, IInv, TypeOK, Calls, Histories, RetriesInv, UnreachableInv,
      OutcomeInv, MaxExecutions, RetriesAssumption

(* An attempt that was sent, with what came of it.                         *)
LEMMA SentInv ==
  ASSUME IInv, call.pc = "attempt", UNCHANGED credentials,
         bucket' \in {"none", "ours", "others"},
         NEW error \in Errors \cup {"none"}, NEW m \in BOOLEAN,
         Ended(error), Sent(error, m),
         call.op = "create" /\ error = "none" => m,
         call.op = "delete" /\ error \in {"none", "noSuchBucket"} => bucket' = "none"
  PROVE  IInv'
<1> USE DEF IInv
<1>1. /\ call'.pc = IF error = "none" THEN "returned" ELSE "retry"
      /\ call'.op = call.op /\ call'.error = error /\ call'.retries = call.retries
      /\ call' \in Calls
  BY DEF Ended, TypeOK, Calls
<1>2. history.executions = call.retries /\ history.executions < MaxExecutions
  BY RetriesAssumption DEF RetriesInv, TypeOK, Calls, MaxExecutions, RetriesAssumption
<1>3. history.executions + 1 \in 0..MaxExecutions
  BY <1>2, RetriesAssumption DEF TypeOK, Histories, MaxExecutions, RetriesAssumption
<1>4. /\ history'.executions = call.retries + 1
      /\ history'.unreachable = (history.unreachable /\ error = "unreachable")
      /\ history'.made = (history.made \/ m)
      /\ history'.gone = (history.gone \/ bucket' = "none")
  BY <1>2 DEF Sent, TypeOK, Histories
<1>5. history' \in Histories
  BY <1>2, <1>3 DEF Sent, TypeOK, Histories
<1>6. TypeOK' BY <1>1, <1>5 DEF TypeOK
<1>7. RetriesInv' BY <1>1, <1>4 DEF RetriesInv
<1>8. UnreachableInv' BY <1>1, <1>4 DEF UnreachableInv
<1>9. OutcomeInv' BY <1>1, <1>4, Zenon DEF OutcomeInv
<1> QED BY <1>6, <1>7, <1>8, <1>9

LEMMA AttemptInv ==
  ASSUME IInv, Attempt
  PROVE  IInv'
<1>1. call.pc = "attempt" /\ UNCHANGED credentials BY DEF Attempt
<1>2. bucket \in {"none", "ours", "others"} BY DEF IInv, TypeOK
<1>3. CASE call' = [call EXCEPT !.pc = "returned", !.error = "refused"]
           /\ UNCHANGED <<bucket, history>>
  BY <1>1, <1>3 DEF IInv, TypeOK, Calls, Errors, Network, RetriesInv, UnreachableInv, OutcomeInv
<1>4. CASE \E error \in Network \cup {"unavailable", "refused"} :
             UNCHANGED bucket /\ Ended(error) /\ Sent(error, FALSE)
  <2>1. PICK error \in Network \cup {"unavailable", "refused"} :
          UNCHANGED bucket /\ Ended(error) /\ Sent(error, FALSE)
    BY <1>4
  <2>2. error \in Errors /\ error \notin {"none", "noSuchBucket"}
    BY DEF Errors, Network
  <2> QED BY <1>1, <1>2, <2>1, <2>2, SentInv
<1>5. CASE UNCHANGED bucket /\ Ended("expired") /\ Sent("expired", FALSE)
  <2>1. "expired" \in Errors /\ "expired" \notin {"none", "noSuchBucket"}
    BY DEF Errors
  <2> QED BY <1>1, <1>2, <1>5, <2>1, SentInv
<1>6. CASE /\ bucket' = IF Answer = "none" THEN Served ELSE bucket
           /\ \E error \in {Answer, "broken", "unavailable"} :
                Ended(error) /\ Sent(error, Answer = "none" /\ call.op = "create")
  <2>1. PICK error \in {Answer, "broken", "unavailable"} :
          Ended(error) /\ Sent(error, Answer = "none" /\ call.op = "create")
    BY <1>6
  <2>2. call.op \in {"create", "delete"} BY DEF IInv, TypeOK, Calls
  <2>3. Answer \in {"none", "exists", "noSuchBucket"} BY <2>2 DEF Answer
  <2>4. error \in Errors \cup {"none"} BY <2>3 DEF Errors, Network
  <2>5. bucket' \in {"none", "ours", "others"} BY <1>2, <1>6 DEF Served
  <2>6. call.op = "create" /\ error = "none" => Answer = "none" BY <2>3
  <2>7. call.op = "delete" /\ error \in {"none", "noSuchBucket"} => bucket' = "none"
    BY <1>2, <1>6, <2>3 DEF Answer, Served
  <2> DEFINE m == Answer = "none" /\ call.op = "create"
  <2>8. m \in BOOLEAN /\ Sent(error, m) BY <2>1
  <2>9. call.op = "create" /\ error = "none" => m BY <2>6
  <2> HIDE DEF m
  <2> QED BY <1>1, <2>1, <2>4, <2>5, <2>7, <2>8, <2>9, SentInv
<1> QED BY <1>3, <1>4, <1>5, <1>6 DEF Attempt

LEMMA RetryInv ==
  ASSUME IInv, Retry
  PROVE  IInv'
<1> USE DEF IInv
<1>1. call.pc = "retry" /\ call.retries \in 0..MaxRetries /\ UNCHANGED <<bucket, history>>
  BY DEF Retry, TypeOK, Calls
<1>2. credentials' \in {"valid", "stale"} BY DEF Retry, TypeOK
<1>3. CASE WillRetry
  <2>1. call.retries + 1 \in 0..MaxRetries
    BY <1>1, <1>3, RetriesAssumption DEF WillRetry, RetriesAssumption
  <2>2. call' = [call EXCEPT !.pc = "attempt", !.error = "none",
                             !.retryable = "nil", !.retries = call.retries + 1]
    BY <1>3 DEF Retry, Count
  <2>3. /\ call' \in Calls /\ call'.pc = "attempt" /\ call'.error = "none"
        /\ call'.retries = call.retries + 1
    BY <2>1, <2>2 DEF TypeOK, Calls
  <2>4. history.unreachable => call.retries < NetworkRetries
    <3>1. SUFFICES ASSUME history.unreachable, call.retries >= NetworkRetries PROVE FALSE
      BY <1>1, RetriesAssumption DEF RetriesAssumption
    <3>2. AfterHandler = "false" BY <1>1, <3>1 DEF AfterHandler, UnreachableInv
    <3> QED BY <1>3, <3>2 DEF WillRetry, Retryable
  <2>5. call.retries + 1 = history.executions BY <1>1 DEF RetriesInv
  <2>6. TypeOK' BY <1>1, <1>2, <2>3 DEF TypeOK
  <2>7. RetriesInv' BY <1>1, <2>3, <2>5 DEF RetriesInv
  <2>8. UnreachableInv'
    BY <1>1, <2>3, <2>4, RetriesAssumption DEF UnreachableInv, RetriesAssumption
  <2>9. OutcomeInv' BY <2>3 DEF OutcomeInv
  <2> QED BY <2>6, <2>7, <2>8, <2>9
<1>4. CASE ~WillRetry
  <2>1. call' = [call EXCEPT !.pc = "returned"] BY <1>4 DEF Retry
  <2> QED BY <1>1, <1>2, <2>1
          DEF TypeOK, Calls, RetriesInv, UnreachableInv, OutcomeInv
<1> QED BY <1>3, <1>4

LEMMA OthersInv ==
  ASSUME IInv, OthersChangeBucket
  PROVE  IInv'
<1> USE DEF IInv
<1>1. /\ bucket' \in {"none", "others"} /\ UNCHANGED <<credentials, call>>
      /\ history' = [history EXCEPT !.gone = @ \/ bucket' = "none"]
  BY DEF OthersChangeBucket
<1>2. /\ history' \in Histories
      /\ history'.executions = history.executions
      /\ history'.unreachable = history.unreachable
      /\ history'.made = history.made
      /\ history.gone => history'.gone
  BY <1>1 DEF TypeOK, Histories
<1>3. TypeOK' BY <1>1, <1>2 DEF TypeOK
<1>4. RetriesInv' BY <1>1, <1>2 DEF RetriesInv
<1>5. UnreachableInv' BY <1>1, <1>2 DEF UnreachableInv
<1>6. OutcomeInv' BY <1>1, <1>2, Zenon DEF OutcomeInv
<1> QED BY <1>3, <1>4, <1>5, <1>6

LEMMA NextInv == IInv /\ [Next]_vars => IInv'
<1> SUFFICES ASSUME IInv, [Next]_vars PROVE IInv' OBVIOUS
<1>1. CASE \E op \in {"create", "delete"} : Start(op) BY <1>1, StartInv
<1>2. CASE Attempt BY <1>2, AttemptInv
<1>3. CASE Retry BY <1>3, RetryInv
<1>4. CASE OthersChangeBucket BY <1>4, OthersInv
<1>5. CASE CredentialsExpire
  BY <1>5 DEF CredentialsExpire, IInv, TypeOK, RetriesInv, UnreachableInv, OutcomeInv
<1>6. CASE UNCHANGED vars
  BY <1>6 DEF vars, IInv, TypeOK, RetriesInv, UnreachableInv, OutcomeInv
<1> QED BY <1>1, <1>2, <1>3, <1>4, <1>5, <1>6 DEF Next

-----------------------------------------------------------------------------
LEMMA Consequences ==
  ASSUME IInv
  PROVE  CreatedMeansMade /\ DeletedMeansGone /\ PermanentFailureCutShort
<1>1. call.op \in {"create", "delete"} BY DEF IInv, TypeOK, Calls
<1>2. CreatedMeansMade BY <1>1 DEF CreatedMeansMade, Concluded, IInv, OutcomeInv
<1>3. DeletedMeansGone BY <1>1 DEF DeletedMeansGone, Concluded, IInv, OutcomeInv
<1>4. PermanentFailureCutShort
  <2>1. call.retries \in 0..MaxRetries /\ call.pc \in {"idle", "attempt", "retry", "returned"}
    BY DEF IInv, TypeOK, Calls
  <2>2. history.executions \in {0, call.retries, call.retries + 1}
    BY <2>1 DEF IInv, RetriesInv
  <2> QED
    BY <2>1, <2>2, RetriesAssumption
    DEF PermanentFailureCutShort, IInv, UnreachableInv, RetriesAssumption
<1> QED BY <1>2, <1>3, <1>4

(* IInv holds in every state of a call.                                    *)
THEOREM CallInvariance == Spec => []IInv
  BY InitInv, NextInv, PTL DEF Spec

(* The call's counters stay within the two thresholds of its retries.      *)
THEOREM CallTypeCorrect == Spec => []TypeOK
<1>1. IInv => TypeOK BY DEF IInv
<1> QED BY <1>1, CallInvariance, PTL

(* Whatever answers are lost and whatever others do to the bucket between  *)
(* the attempts, createBucket takes no bucket for its own that no attempt  *)
(* of its call has made.                                                   *)
THEOREM CallMakes == Spec => []CreatedMeansMade
  BY CallInvariance, Consequences, PTL

(* deleteBucket lets the finalizer go only when the name was free at some  *)
(* moment of the call.                                                     *)
THEOREM CallFrees == Spec => []DeletedMeansGone
  BY CallInvariance, Consequences, PTL

(* An endpoint that never answers is tried as often as the smaller of the  *)
(* two thresholds allows, whatever aws-max-retries says.                   *)
THEOREM CallGivesUp == Spec => []PermanentFailureCutShort
  BY CallInvariance, Consequences, PTL

-----------------------------------------------------------------------------
(* The refinement of S3Call: an attempt is a step of the abstract call or  *)
(* of nobody, and waiting for the next one changes no outcome.             *)

(* An answer that no handler takes for transient decides the call.         *)
LEMMA Settled ==
  ASSUME call'.pc = "retry", call'.retryable = "nil",
         call'.error \in {"exists", "noSuchBucket"}
  PROVE  Outcome' = Concluded'
BY DEF Outcome, WillRetry, Retryable, AfterHandler

(* Every other error is followed by another try, or fails the call.        *)
LEMMA Unsettled ==
  ASSUME \/ call'.pc = "retry"
         \/ call'.pc = "returned" /\ call'.error = "refused",
         call'.error \in Errors \ {"noSuchBucket"}
  PROVE  Outcome' \in {"calling", "failed"}
BY DEF Outcome, Concluded, Errors, Network

LEMMA CallInit == Init => Call!Init
BY DEF Init, Call!Init, Outcome

LEMMA CallStart ==
  ASSUME IInv, NEW op \in {"create", "delete"}, Start(op)
  PROVE  Call!Start(op)
<1>1. call'.pc = "attempt" /\ call'.op = op /\ UNCHANGED bucket BY DEF Start
<1>2. Outcome' = "calling" BY <1>1 DEF Outcome
<1>3. Outcome # "calling" BY DEF Start, Outcome, Concluded
<1> QED BY <1>1, <1>2, <1>3 DEF Call!Start

(* An attempt that S3 has not carried out.                                 *)
LEMMA CallFails ==
  ASSUME IInv, call.pc = "attempt", UNCHANGED bucket, call'.op = call.op,
         call'.error \in Errors \ {"noSuchBucket"},
         \/ call'.pc = "retry"
         \/ call'.pc = "returned" /\ call'.error = "refused"
  PROVE  Call!Next \/ UNCHANGED Call!vars
<1>1. Outcome' \in {"calling", "failed"} BY Unsettled
<1>2. Outcome = "calling" BY DEF Outcome
<1>3. CASE Outcome' = "calling" BY <1>2, <1>3 DEF Call!vars
<1>4. CASE Outcome' = "failed"
  <2>1. call.op \in {"create", "delete"} BY DEF IInv, TypeOK, Calls
  <2> QED BY <1>2, <1>4, <2>1 DEF Call!Next, Call!CreateBucket, Call!DeleteBucket, Call!Fail
<1> QED BY <1>1, <1>3, <1>4

(* An attempt that reaches S3.                                             *)
LEMMA CallAnswered ==
  ASSUME IInv, IInv', call.pc = "attempt",
         bucket' = IF Answer = "none" THEN Served ELSE bucket,
         NEW error \in {Answer, "broken", "unavailable"}, Ended(error)
  PROVE  Call!Next \/ UNCHANGED Call!vars
<1>1. /\ call.op \in {"create", "delete"} /\ bucket \in {"none", "ours", "others"}
      /\ Outcome = "calling"
  BY DEF IInv, TypeOK, Calls, Outcome
<1>2. /\ call'.pc = IF error = "none" THEN "returned" ELSE "retry"
      /\ call'.op = call.op /\ call'.error = error
      /\ error \notin Network => call'.retryable = "nil"
  BY DEF Ended, IInv, TypeOK, Calls
<1>3. CASE error # Answer
  <2>1. call'.pc = "retry" /\ error \in {"broken", "unavailable"}
    BY <1>2, <1>3
  <2>2. call'.error \in Errors \ {"noSuchBucket"} BY <1>2, <2>1 DEF Errors, Network
  <2>3. Outcome' \in {"calling", "failed"} BY <2>1, <2>2, Unsettled
  <2>4. CASE Answer = "none"
    <3>1. bucket' = Served BY <2>4
    <3>2. CASE call.op = "create"
      <4>1. bucket = "none" /\ bucket' = "ours" BY <1>1, <2>4, <3>1, <3>2 DEF Answer, Served
      <4> QED BY <1>1, <1>2, <2>3, <3>2, <4>1 DEF Call!Next, Call!CreateBucket, Call!Answered
    <3>3. CASE call.op = "delete"
      <4>1. bucket # "none" /\ bucket' = "none" BY <1>1, <2>4, <3>1, <3>3 DEF Answer, Served
      <4> QED BY <1>1, <1>2, <2>3, <3>3, <4>1 DEF Call!Next, Call!DeleteBucket, Call!Answered
    <3> QED BY <1>1, <3>2, <3>3
  <2>5. CASE Answer # "none" BY <1>2, <2>1, <2>2, <2>5, CallFails
  <2> QED BY <2>4, <2>5
<1>4. CASE error = Answer /\ Answer = "none"
  <2>1. call'.pc = "returned" /\ call'.error = "none" /\ bucket' = Served
    BY <1>2, <1>4
  <2>2. CASE call.op = "create"
    <3>1. bucket = "none" /\ bucket' = "ours" BY <1>1, <1>4, <2>1, <2>2 DEF Answer, Served
    <3>2. Outcome' = "made" BY <1>2, <2>1, <2>2 DEF Outcome, Concluded
    <3> QED BY <1>1, <1>2, <2>2, <3>1, <3>2 DEF Call!Next, Call!CreateBucket, Call!Answered
  <2>3. CASE call.op = "delete"
    <3>1. bucket # "none" /\ bucket' = "none" BY <1>1, <1>4, <2>1, <2>3 DEF Answer, Served
    <3>2. Outcome' = "gone" BY <1>2, <2>1, <2>3 DEF Outcome, Concluded
    <3> QED BY <1>1, <1>2, <2>3, <3>1, <3>2 DEF Call!Next, Call!DeleteBucket, Call!Answered
  <2> QED BY <1>1, <2>2, <2>3
<1>5. CASE error = Answer /\ Answer = "exists"
  <2>1. call'.pc = "retry" /\ call'.error \in Errors \ {"noSuchBucket"} /\ UNCHANGED bucket
    BY <1>2, <1>5 DEF Errors
  <2> QED BY <1>2, <2>1, CallFails
<1>6. CASE error = Answer /\ Answer = "noSuchBucket"
  <2>1. call.op = "delete" /\ bucket = "none" /\ UNCHANGED bucket
    BY <1>1, <1>6 DEF Answer
  <2>2. call'.pc = "retry" /\ call'.error = "noSuchBucket" /\ call'.retryable = "nil"
    BY <1>2, <1>6 DEF Network
  <2>3. Outcome' = Concluded' BY <2>2, Settled
  <2>4. Outcome' = "gone" BY <1>2, <2>1, <2>2, <2>3 DEF Concluded
  <2> QED BY <1>1, <1>2, <2>1, <2>4 DEF Call!Next, Call!DeleteBucket
<1> QED BY <1>3, <1>4, <1>5, <1>6 DEF Answer

LEMMA CallAttempt ==
  ASSUME IInv, IInv', Attempt
  PROVE  Call!Next \/ UNCHANGED Call!vars
<1>1. call.pc = "attempt" BY DEF Attempt
<1>2. CASE call' = [call EXCEPT !.pc = "returned", !.error = "refused"] /\ UNCHANGED bucket
  <2>1. /\ call'.pc = "returned" /\ call'.error = "refused" /\ call'.op = call.op
        /\ "refused" \in Errors \ {"noSuchBucket"}
    BY <1>2 DEF IInv, TypeOK, Calls, Errors
  <2> QED BY <1>1, <1>2, <2>1, CallFails
<1>3. CASE \E error \in Network \cup {"unavailable", "refused", "expired"} :
             UNCHANGED bucket /\ Ended(error)
  <2>1. PICK error \in Network \cup {"unavailable", "refused", "expired"} :
          UNCHANGED bucket /\ Ended(error)
    BY <1>3
  <2>2. error \in Errors \ {"noSuchBucket"} /\ error # "none" BY DEF Errors, Network
  <2>3. call'.pc = "retry" /\ call'.error = error /\ call'.op = call.op
    BY <2>1, <2>2 DEF Ended, IInv, TypeOK, Calls
  <2> QED BY <1>1, <2>1, <2>2, <2>3, CallFails
<1>4. CASE /\ bucket' = IF Answer = "none" THEN Served ELSE bucket
           /\ \E error \in {Answer, "broken", "unavailable"} : Ended(error)
  BY <1>1, <1>4, CallAnswered
<1> QED BY <1>2, <1>3, <1>4 DEF Attempt

LEMMA CallRetry ==
  ASSUME IInv, Retry
  PROVE  UNCHANGED Call!vars
<1>1. call.pc = "retry" /\ UNCHANGED bucket BY DEF Retry
<1>2. CASE WillRetry
  <2>1. call'.pc = "attempt" /\ call'.op = call.op
    BY <1>2 DEF Retry, IInv, TypeOK, Calls
  <2> QED BY <1>1, <1>2, <2>1 DEF Outcome, Call!vars
<1>3. CASE ~WillRetry
  <2>1. call'.pc = "returned" /\ call'.op = call.op /\ call'.error = call.error
    BY <1>3 DEF Retry, IInv, TypeOK, Calls
  <2> QED BY <1>1, <1>3, <2>1 DEF Outcome, Concluded, Call!vars
<1> QED BY <1>2, <1>3

LEMMA CallOthers ==
  ASSUME OthersChangeBucket
  PROVE  Call!OthersChangeBucket
<1>1. Outcome' = Outcome
  BY DEF OthersChangeBucket, Outcome, Concluded, WillRetry, Retryable, AfterHandler
<1> QED BY <1>1 DEF OthersChangeBucket, Call!OthersChangeBucket

LEMMA CallStep ==
  ASSUME IInv, IInv', [Next]_vars
  PROVE  Call!Next \/ UNCHANGED Call!vars
<1>1. ASSUME NEW op \in {"create", "delete"}, Start(op)
      PROVE  Call!Next
  BY <1>1, CallStart DEF Call!Next
<1>2. CASE Attempt BY <1>2, CallAttempt
<1>3. CASE Retry BY <1>3, CallRetry
<1>4. CASE OthersChangeBucket BY <1>4, CallOthers DEF Call!Next
<1>5. CASE CredentialsExpire \/ UNCHANGED vars
  <2>1. UNCHANGED <<bucket, call>> BY <1>5 DEF CredentialsExpire, vars
  <2>2. Outcome' = Outcome
    BY <2>1 DEF Outcome, Concluded, WillRetry, Retryable, AfterHandler
  <2> QED BY <2>1, <2>2 DEF Call!vars
<1> QED BY <1>1, <1>2, <1>3, <1>4, <1>5 DEF Next

(* A call with all its attempts, waits and lost answers is the one step    *)
(* that S3BucketController takes for it, and what the controller concludes *)
(* is true at the step that decides it, for every number of retries.       *)
THEOREM CallImplements == Spec => ImplementsCall
<1>1. Init => Call!Init BY CallInit
<1>2. IInv /\ IInv' /\ [Next]_vars => [Call!Next]_(Call!vars)
  BY CallStep
<1> QED BY <1>1, <1>2, CallInvariance, PTL DEF Spec, ImplementsCall, Call!Spec
=============================================================================
