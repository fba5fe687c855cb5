---------------------------- MODULE MCAwsClient ----------------------------
(* AwsClient for TLC: accounts and the flags the process is started with.  *)
EXTENDS AwsClient

CONSTANTS ours, theirs, aws

OnePartition == [a \in Accounts |-> aws]

(* Every way of checking, skipping and excluding.                          *)
AnyFlags ==
  [skipRegion : BOOLEAN, skipCreds : BOOLEAN, skipAccount : BOOLEAN,
   skipMetadata : BOOLEAN, profile : BOOLEAN, role : {NONE, theirs},
   allowed : {{}, {ours}}, forbidden : {{}, {theirs}}]
=============================================================================
