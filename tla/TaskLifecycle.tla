--------------------------- MODULE TaskLifecycle ---------------------------
(***************************************************************************)
(* The task engine implements the life cycle of the tests' reference model *)
(* (TaskStateModel): the refinement mapping, and the claim.                *)
(***************************************************************************)
EXTENDS TaskEngine

\* executionState: what the lists of the engine say of a task.  A completion
\* policy may put a failed task on the success list, or the reverse.
ExecutionState(s, i) ==
    LET t == s.task[i]
    IN CASE t.currentList = "wait" -> "waiting"
         [] t.currentList = "active" -> "leased"
         [] t.currentList = "success" -> "succeeded"
         [] t.currentList = "failed" -> "failed"
         [] t.currentList = "scheduled" ->
              IF t.handlerFailureCount + t.stalledAttemptCount > 0 THEN "retry-scheduled" ELSE "delayed"
         [] t.outcome = "success" -> "succeeded"
         [] t.outcome = "failure" -> "failed"
         [] OTHER -> "waiting"

\* The state of a task for the model: settled as its outcome says, and
\* otherwise where its list says.
StateOf(s, i) ==
    CASE s.task[i].outcome = "success" -> "succeeded"
      [] s.task[i].outcome = "failure" -> "failed"
      [] OTHER -> ExecutionState(s, i)

\* A lease that has lapsed is the task's still, until a sweep ends the attempt:
\* the token is then the newest one of those in L that was handed out for it.
TokenOf(s, L, i) ==
    LET handed == {k \in DOMAIN L : L[k] = Current(s, i)}
    IN IF StateOf(s, i) # "leased" THEN 0
       ELSE IF IsLocked(s, i) THEN s.lock[i].token
       ELSE CHOOSE k \in handed : \A n \in handed : n <= k

\* A task of the model; an id without a record is not in the model's map.
TaskOf(s, L, i) ==
    IF Exists(s, i)
    THEN [generation |-> s.task[i].generation,
          state |-> StateOf(s, i),
          leaseToken |-> TokenOf(s, L, i),
          handlerFailureCount |-> s.task[i].handlerFailureCount,
          stalledAttemptCount |-> s.task[i].stalledAttemptCount,
          maxStalledCount |-> s.task[i].config.maxStalledCount,
          retainedBy |-> {h \in Members : <<Current(s, i), h>> \in s.retainedBy}]
    ELSE [generation |-> 0, state |-> "waiting", leaseToken |-> 0,
          handlerFailureCount |-> 0, stalledAttemptCount |-> 0,
          maxStalledCount |-> 0, retainedBy |-> {}]

ModelTasks == [i \in Ids |-> TaskOf(db, leases, i)]

Model == INSTANCE TaskStateModel WITH
    Generations <- Gens, Holders <- Members, Tokens <- 1..MaxLeases, NoToken <- 0,
    StallBudgets <- {c.maxStalledCount : c \in Configs}, tasks <- ModelTasks

(***************************************************************************)
(* Whatever the batch, the order of the syncers, late tokens and holds do, *)
(* every script call moves each task along the model's life cycle: by one  *)
(* operation at most, what a sweep may do, and nothing else.  A settled    *)
(* task stays settled until it is removed, a report is counted once and    *)
(* only under the current lease, and a stall is charged to the budget that *)
(* the task was offered with.                                              *)
(***************************************************************************)
RefinesTaskModel == Model!Spec
=============================================================================
