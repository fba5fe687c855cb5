--------------------------- MODULE MCBucketConfig ---------------------------
(* BucketConfig for TLC: objects are created with nothing to configure, so *)
(* that edits make their specs; w is v in another spelling of its routing  *)
(* rules.                                                                  *)
EXTENDS BucketConfig

CONSTANTS v, w

AsSpelled == [x \in Values |-> IF x = w THEN v ELSE x]

BlankSpecs ==
  {[tags |-> NoTags, versioning |-> FALSE, settings |-> [f \in Settings |-> NONE]]}
=============================================================================
