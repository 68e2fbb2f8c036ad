---------------------------- MODULE MCTaskEngine ----------------------------
(* TaskEngine on small instances. *)
EXTENDS TaskLifecycle, TLC

Config(onSuccess, onFailure, stalls, relationships, task, result, terminal, dead) ==
    [onSuccessPolicy |-> onSuccess, onFailurePolicy |-> onFailure,
     maxStalledCount |-> stalls, maxRelationships |-> relationships,
     taskRecordRetentionMs |-> task, resultRetentionMs |-> result,
     terminalIndexRetentionMs |-> terminal, deadLetterRetentionMs |-> dead]

\* Records that outlive their results, and records that are deleted at once; one
\* kind of task may stall once, the other, whose failures are listed as
\* successes, never.
LeaseConfigs ==
    {Config("delete", "mark-as-failure", 1, 1, 1, 0, 1, 0),
     Config("keep", "mark-as-success", 0, 1, 0, 0, 0, 0)}

\* Tasks that retain each other, one relationship each, so that an offer can be
\* refused for want of room; deleted on success, kept on failure.
HoldConfigs ==
    {Config("delete", "keep", 0, 1, 0, 0, 0, 0)}

\* Tasks that pass through every index that a sweep looks at.
SweepConfigs ==
    {Config("delete", "mark-as-failure", 0, 2, 0, 0, 0, 0)}

Interchangeable == Permutations(Ids)
=============================================================================
