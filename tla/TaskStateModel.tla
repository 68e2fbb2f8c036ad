--------------------------- MODULE TaskStateModel ---------------------------
(***************************************************************************)
(* The repository's own reference model of a task's life                   *)
(* (src/testing/TaskStateModel.ts), which its property tests run beside    *)
(* the engine one call at a time.  An operation maps a task to the set of  *)
(* tasks it may become: the empty set where the model answers an error.    *)
(*                                                                         *)
(* Here the operations are put together the way the engine performs them:  *)
(* one script call is a bounded sweep over every task, one operation on one *)
(* task, and what follows from that.  Three operations of the engine that  *)
(* the model has no name for are added, and marked.                        *)
(***************************************************************************)
EXTENDS Integers

CONSTANTS
    Ids, Generations, Holders, Tokens,
    NoToken,            \* leaseToken undefined
    StallBudgets        \* the maxStalledCount a task may be offered with

\* What the constants must be.
Parameters ==
    NoToken \notin Tokens /\ Generations \subseteq Nat \ {0} /\ StallBudgets \subseteq Nat

VARIABLE tasks

ExecutionStates == {"delayed", "waiting", "leased", "retry-scheduled", "succeeded", "failed"}

ModelTask ==
    [generation : Generations \cup {0}, state : ExecutionStates, leaseToken : Tokens \cup {NoToken},
     handlerFailureCount : Nat, stalledAttemptCount : Nat,
     maxStalledCount : StallBudgets \cup {0}, retainedBy : SUBSET Holders]

\* What stands for an id that is not in the map of tasks.
Absent ==
    [generation |-> 0, state |-> "waiting", leaseToken |-> NoToken,
     handlerFailureCount |-> 0, stalledAttemptCount |-> 0,
     maxStalledCount |-> 0, retainedBy |-> {}]

Present(t) == t.generation # 0
SettledTask(t) == Present(t) /\ t.state \in {"succeeded", "failed"}

offer(t, generation, budget) ==
    {[Absent EXCEPT !.generation = generation, !.state = s, !.maxStalledCount = budget] :
        s \in IF Present(t) THEN {} ELSE {"delayed", "waiting"}}

acquire(t, token) ==
    IF Present(t) /\ t.state \in {"waiting", "retry-scheduled"}
    THEN {[t EXCEPT !.state = "leased", !.leaseToken = token]} ELSE {}

currentLease(t, token) == Present(t) /\ t.state = "leased" /\ t.leaseToken = token

renew(t, token) == IF currentLease(t, token) THEN {t} ELSE {}

\* A retry that is due at once is "retry-scheduled" for the model and
\* "waiting" for the engine; the tests take the two for the same.
fail(t, token, retry) ==
    {[t EXCEPT !.state = s, !.leaseToken = NoToken, !.handlerFailureCount = @ + 1] :
        s \in IF ~currentLease(t, token) THEN {}
              ELSE IF retry THEN {"retry-scheduled", "waiting"} ELSE {"failed"}}

succeed(t, token) ==
    IF currentLease(t, token)
    THEN {[t EXCEPT !.state = "succeeded", !.leaseToken = NoToken]} ELSE {}

expire(t) ==
    IF Present(t) /\ t.state = "leased"
    THEN {[t EXCEPT !.state = IF t.stalledAttemptCount + 1 > t.maxStalledCount
                              THEN "failed" ELSE "waiting",
                    !.leaseToken = NoToken, !.stalledAttemptCount = @ + 1]}
    ELSE {}

retain(t, holder) ==
    IF Present(t) THEN {[t EXCEPT !.retainedBy = @ \cup {holder}]} ELSE {}

remove(t) == IF SettledTask(t) /\ t.retainedBy = {} THEN {Absent} ELSE {}

-----------------------------------------------------------------------------
\* What the engine does besides: a delayed task becomes due (syncDelayed), an
\* attempt is given back (removeLock), a task is removed unsettled or by force.

promote(t) ==
    IF Present(t) /\ t.state \in {"delayed", "retry-scheduled"}
    THEN {[t EXCEPT !.state = "waiting"]} ELSE {}

giveBack(t, token) ==
    IF currentLease(t, token)
    THEN {[t EXCEPT !.state = "waiting", !.leaseToken = NoToken]} ELSE {}

withdraw(t) == {Absent}

-----------------------------------------------------------------------------
\* release, of any number of holds at once.
Releases(t) ==
    IF Present(t) THEN {[t EXCEPT !.retainedBy = H] : H \in SUBSET t.retainedBy} ELSE {t}

\* A task after a sweep, or after another task's settlement: due, stalled,
\* freed of holds, and gone if nothing keeps it.
Swept(t) ==
    LET freed == UNION {Releases(u) : u \in {t} \cup promote(t) \cup expire(t)}
    IN freed \cup UNION {remove(u) : u \in freed}

\* One operation; an offer may name a holder that retains the task from the start.
Offered(t) == UNION {offer(t, g, b) : g \in Generations, b \in StallBudgets}
Retained(t) == UNION {retain(u, h) : u \in Offered(t) \cup {t}, h \in Holders}
Presented(t, k) ==
    acquire(t, k) \cup renew(t, k) \cup fail(t, k, TRUE) \cup fail(t, k, FALSE)
      \cup succeed(t, k) \cup giveBack(t, k)

Operate(t) ==
    Offered(t) \cup Retained(t) \cup remove(t) \cup withdraw(t)
      \cup UNION {Presented(t, k) : k \in Tokens}

\* May a call make u of t?  It sweeps, operates, and sweeps what follows.
\* (Most calls just operate; that is looked for first.)
Called(t, u) ==
    \E v \in Swept(t) : \/ u \in Operate(v)
                       \/ u \in Swept(v)
                       \/ \E w \in Operate(v) : u \in Swept(w)

Init == tasks = [i \in Ids |-> Absent]

\* One call of the engine: it operates on one task and sweeps all of them.
Next ==
    \E i \in Ids : \A j \in Ids :
       \/ tasks'[j] = tasks[j]
       \/ j # i /\ tasks'[j] \in Swept(tasks[j])
       \/ j = i /\ Called(tasks[j], tasks'[j])

Spec == Init /\ [][Next]_tasks

-----------------------------------------------------------------------------
\* assertInvariants: a lease token is held exactly by a leased task,
\* generations count from 1 and the attempt counters never go below zero.
Invariant(t) ==
    /\ t \in ModelTask
    /\ Present(t) /\ t.state = "leased" <=> t.leaseToken # NoToken

Invariants == \A i \in Ids : Invariant(tasks[i])

=============================================================================
