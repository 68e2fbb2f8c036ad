-------------------------------- MODULE Worker --------------------------------
(***************************************************************************)
(* One worker process over the lease protocol of a queue: the acquisition  *)
(* slots, their heartbeats, reports and retry decisions, and the drain on  *)
(* shutdown (src/Worker.ts run, src/TaskQueue.ts completeOne and           *)
(* processAttempt).                                                        *)
(*                                                                         *)
(* A request to Redis is sent, runs there and is answered in separate      *)
(* steps; it may never arrive, and its answer may be lost.  Requests, the  *)
(* event loop and sweeps take any time they like, unless the run is prompt *)
(* (below), and no assumption but that is made about them.                 *)
(*                                                                         *)
(* Of the task engine only what slots can tell apart is kept (TaskEngine   *)
(* has the rest).  Time is kept as what is left of each duration.          *)
(***************************************************************************)
EXTENDS Integers, FiniteSets

CONSTANTS
    Slots,              \* acquisition loops (concurrency)
    Tasks,              \* tasks of the queue, all waiting at first
    Nobody,             \* no slot, or no task
    LockTimeout,        \* duration of a lease
    LockRefresh,        \* from a renewal to the next one
    RetryDelay,         \* heartbeatRetryDelay
    RetryCount,         \* heartbeatRetryCount, as configured
    PollInterval,       \* after an attempt that failed or found nothing
    DrainTimeout,       \* for handlers that run when the worker is stopped
    MaxRetries,         \* failures of a handler that may be retried
    MaxStalledCount     \* lost attempts that are given back

\* resolveWorkerOptions refuses anything else.
ValidOptions ==
    /\ {LockTimeout, LockRefresh, RetryDelay, PollInterval} \subseteq Nat \ {0}
    /\ LockRefresh < LockTimeout
    /\ {RetryCount, DrainTimeout, MaxRetries, MaxStalledCount} \subseteq Nat
ASSUME OptionsAssumption == ValidOptions
ASSUME NobodyAssumption == Nobody \notin Slots \cup Tasks

VARIABLES
    task,       \* what Redis holds of each task
    slot,       \* where each slot is
    worker,     \* the process: running, draining or closed
    prompt,     \* this run's requests are answered, or known to be lost, at once
    mishap      \* ghost: a request was lost, or a handler's result not reported

vars == <<task, slot, worker, prompt, mishap>>

-----------------------------------------------------------------------------
(* State. *)

Gone == -1      \* what is left of a lock whose key Redis has dropped

Task == [list : {"wait", "scheduled", "active", "settled"},
         owner : Slots \cup {Nobody},     \* whose token the lock holds
         lock : Gone..LockTimeout,
         attempt : Nat, handlerFailureCount : Nat, stalledAttemptCount : Nat]
Unowned(t, list) == [task[t] EXCEPT !.list = list, !.owner = Nobody, !.lock = Gone]

\* At "idle" a slot is about to look at accepting; "handle" is the race of the
\* handler with the heartbeat.
Slot == [pc : {"idle", "take", "handle", "report", "sleep",
               "stopped", "died", "interrupted"},
         task : Tasks \cup {Nobody},
         failures : Nat,                  \* of the task, when it was taken
         asks : {"nothing", "take", "renew", "report"},     \* on its way to Redis
         reply : {"none", "done", "empty", "refused", "failed"},
         report : {"none", "success", "retry", "failure"},
         timer : 0..(LockTimeout + RetryDelay + PollInterval),
         tries : Nat]                     \* renewals that failed in a row

Fresh == [pc |-> "idle", task |-> Nobody, failures |-> 0, asks |-> "nothing",
          reply |-> "none", report |-> "none", timer |-> 0, tries |-> 0]

Worker == [phase : {"running", "draining", "closed"}, timer : 0..DrainTimeout,
           forced : BOOLEAN]              \* the drain was cut short

Init ==
    /\ task = [t \in Tasks |-> [list |-> "wait", owner |-> Nobody, lock |-> Gone, attempt |-> 0,
                                handlerFailureCount |-> 0, stalledAttemptCount |-> 0]]
    /\ slot = [s \in Slots |-> Fresh]
    /\ worker = [phase |-> "running", timer |-> 0, forced |-> FALSE]
    /\ prompt \in BOOLEAN
    /\ mishap = FALSE

Accepting == worker.phase = "running"
Ended(s) == slot[s].pc \in {"stopped", "died", "interrupted"}
Least(m, n) == IF m < n THEN m ELSE n

\* isLockedBy.
Owns(s, t) == t \in Tasks /\ task[t].owner = s /\ task[t].lock # Gone

\* Retries are cut down to those that fit in what a refresh leaves of a lease.
HeartbeatRetries_AsConfigured == RetryCount
HeartbeatRetries == Least(RetryCount, (LockTimeout - LockRefresh) \div RetryDelay)

-----------------------------------------------------------------------------
(* Redis: the engine's operations, as far as a slot can tell them apart.    *)

\* Nobody listens to the answer of a slot that was interrupted.
Told(s, reply) == [slot[s] EXCEPT !.asks = "nothing",
                                  !.reply = IF Ended(s) THEN "none" ELSE reply]
Answered(s, reply) == slot' = [slot EXCEPT ![s] = Told(s, reply)]

\* The reply names the task and carries its failure count.
TakeTask(s) ==
    /\ slot[s].asks = "take"
    /\ \E t \in Tasks :
          /\ task[t].list = "wait"
          /\ task' = [task EXCEPT ![t] = [task[t] EXCEPT
                !.list = "active", !.owner = s, !.lock = LockTimeout, !.attempt = @ + 1]]
          /\ slot' = [slot EXCEPT ![s] = [Told(s, "done") EXCEPT
                !.task = t, !.failures = task[t].handlerFailureCount]]
    /\ UNCHANGED <<worker, prompt, mishap>>

TakeNothing(s) ==
    /\ slot[s].asks = "take"
    /\ \A t \in Tasks : task[t].list # "wait"
    /\ Answered(s, "empty")
    /\ UNCHANGED <<task, worker, prompt, mishap>>

Extended(s) == [task EXCEPT ![slot[s].task].lock =
                    IF Owns(s, slot[s].task) THEN LockTimeout ELSE @]
ExtendLock(s) ==
    /\ slot[s].asks = "renew"
    /\ Answered(s, IF Owns(s, slot[s].task) THEN "done" ELSE "refused")
    /\ task' = Extended(s)
    /\ UNCHANGED <<worker, prompt, mishap>>

\* writeSuccess, or writeError without a retry, with one that is due, or with a
\* later one.  Success settles the task; so does a failure that is not retried.
Outcome(s, t) ==
    CASE slot[s].report = "success" -> {Unowned(t, "settled")}
      [] slot[s].report = "failure" ->
            {[Unowned(t, "settled") EXCEPT !.handlerFailureCount = @ + 1]}
      [] OTHER -> {[Unowned(t, list) EXCEPT !.handlerFailureCount = @ + 1] :
                       list \in {"wait", "scheduled"}}
Write(s) ==
    /\ slot[s].asks = "report"
    /\ LET t == slot[s].task
       IN \/ /\ Owns(s, t)
             /\ \E r \in Outcome(s, t) : task' = [task EXCEPT ![t] = r]
             /\ Answered(s, "done")
          \/ /\ ~Owns(s, t)
             /\ UNCHANGED task
             /\ Answered(s, "refused")
    /\ UNCHANGED <<worker, prompt, mishap>>

\* A sweep of any client finds an active task whose lock is gone (syncLocks).
Stall(t) ==
    /\ task[t].list = "active" /\ task[t].lock = Gone
    /\ LET again == task[t].stalledAttemptCount + 1 <= MaxStalledCount
       IN task' = [task EXCEPT ![t] =
             [Unowned(t, IF again THEN "wait" ELSE "settled")
                 EXCEPT !.stalledAttemptCount = @ + 1]]
    /\ UNCHANGED <<slot, worker, prompt, mishap>>

\* A sweep of any client finds that a retry is due (syncDelayed).
Promote(t) ==
    /\ task[t].list = "scheduled"
    /\ task' = [task EXCEPT ![t].list = "wait"]
    /\ UNCHANGED <<slot, worker, prompt, mishap>>

\* A request that never arrives, and a reply that is lost: the client is told of
\* a transport failure in both cases.  A reply that cannot be decoded is lost.
Lose(s) ==
    /\ \/ slot[s].asks # "nothing"
       \/ slot[s].reply \notin {"none", "failed"}
    /\ Answered(s, "failed")
    /\ mishap' = TRUE
    /\ UNCHANGED <<task, worker, prompt>>

-----------------------------------------------------------------------------
(* A slot. *)

Goes(s, to) == slot' = [slot EXCEPT ![s] = to]
SleepFor(n) == [Fresh EXCEPT !.pc = "sleep", !.timer = n]

\* The top of the loop; WorkerSlotStopped ends it.
Iterate(s) ==
    /\ slot[s].pc = "idle"
    /\ Goes(s, IF Accepting THEN [Fresh EXCEPT !.pc = "take", !.asks = "take"]
               ELSE [Fresh EXCEPT !.pc = "stopped"])
    /\ UNCHANGED <<task, worker, prompt, mishap>>

\* completeOne answered false, or failed and was logged.
Unprocessed_EndsLoop == [Fresh EXCEPT !.pc = "stopped"]
Unprocessed == SleepFor(PollInterval)

\* The handler starts together with the heartbeat, which renews at once.
Taken(s) ==
    /\ slot[s].pc = "take" /\ slot[s].reply # "none"
    /\ Goes(s, IF slot[s].reply = "done"
               THEN [slot[s] EXCEPT !.pc = "handle", !.reply = "none", !.asks = "renew"]
               ELSE Unprocessed)
    /\ UNCHANGED <<task, worker, prompt, mishap>>

\* A renewal is repeated after its delay, and again as long as it succeeds.
Beat(s) ==
    /\ slot[s].pc = "handle" /\ slot[s].asks = "nothing" /\ slot[s].reply = "none"
    /\ slot[s].timer = 0
    /\ slot' = [slot EXCEPT ![s].asks = "renew"]
    /\ UNCHANGED <<task, worker, prompt, mishap>>

Spaced(s) == [slot[s] EXCEPT !.reply = "none", !.timer = LockRefresh, !.tries = 0]
Renewed(s) ==
    /\ slot[s].pc = "handle" /\ slot[s].reply = "done"
    /\ Goes(s, Spaced(s))
    /\ UNCHANGED <<task, worker, prompt, mishap>>

CanRenewAgain_Always(s) == TRUE
CanRenewAgain(s) == slot[s].tries < HeartbeatRetries
RenewFailed(s) ==
    /\ slot[s].pc = "handle" /\ slot[s].reply = "failed" /\ CanRenewAgain(s)
    /\ Goes(s, [slot[s] EXCEPT !.reply = "none", !.timer = RetryDelay, !.tries = @ + 1])
    /\ UNCHANGED <<task, worker, prompt, mishap>>

\* LeaseLost, or no retry left: the heartbeat wins the race, the handler is
\* interrupted, and nothing is reported.
GiveUp_KeepsBeating(s) == Goes(s, Spaced(s))
GiveUp(s) == Goes(s, Unprocessed)
HeartbeatFails(s) ==
    /\ slot[s].pc = "handle"
    /\ \/ slot[s].reply = "refused"
       \/ slot[s].reply = "failed" /\ ~CanRenewAgain(s)
    /\ GiveUp(s)
    /\ UNCHANGED <<task, worker, prompt, mishap>>

\* The handler wins the race and the heartbeat is interrupted; a renewal that is
\* on its way may still reach Redis.
HandlerEnds(s, to) ==
    /\ slot[s].pc = "handle"
    /\ Goes(s, to)
    /\ \/ UNCHANGED task
       \/ slot[s].asks = "renew" /\ task' = Extended(s)
    /\ UNCHANGED <<worker, prompt>>

Reports(s, what) == [Fresh EXCEPT !.pc = "report", !.task = slot[s].task,
                                  !.asks = "report", !.report = what]
Succeeds(s) == HandlerEnds(s, Reports(s, "success")) /\ UNCHANGED mishap

\* fail: the snapshot's failure count decides, and then the retry schedule, which
\* may be over (and whose failure is as good as that).
CanRetry_OneMore(s) == slot[s].failures <= MaxRetries
CanRetry(s) == slot[s].failures < MaxRetries
Fails(s) ==
    /\ \/ CanRetry(s) /\ HandlerEnds(s, Reports(s, "retry"))
       \/ HandlerEnds(s, Reports(s, "failure"))
    /\ UNCHANGED mishap

\* A result or an error that cannot be stored, or a ProgressWriteError: the
\* attempt fails without a report, and keeps its lease.
Unreported(s) == HandlerEnds(s, Unprocessed) /\ mishap' = TRUE

\* A defect of the handler is not a failure: it ends the slot's fiber.
Dies(s) == HandlerEnds(s, [Fresh EXCEPT !.pc = "died"]) /\ mishap' = TRUE

\* No report is sent twice.  A failure whose retry schedule broke is reported, and
\* then still counts as a failed iteration.
Reported(s) ==
    /\ slot[s].pc = "report" /\ slot[s].reply # "none"
    /\ \/ slot[s].reply = "done" /\ Goes(s, Fresh)
       \/ slot[s].reply # "done" /\ Goes(s, Unprocessed)
       \/ slot[s].report = "failure" /\ Goes(s, Unprocessed)
    /\ UNCHANGED <<task, worker, prompt, mishap>>

Wake(s) ==
    /\ slot[s].pc = "sleep" /\ slot[s].timer = 0
    /\ Goes(s, Fresh)
    /\ UNCHANGED <<task, worker, prompt, mishap>>

-----------------------------------------------------------------------------
(* Shutdown: the scope's finalizers, in reverse order of registration. *)

Stop ==
    /\ Accepting
    /\ worker' = [worker EXCEPT !.phase = "draining", !.timer = DrainTimeout]
    /\ UNCHANGED <<task, slot, prompt, mishap>>

\* FiberSet.awaitEmpty.
Empty_OfHandlers == \A s \in Slots : slot[s].pc # "handle"
Empty == \A s \in Slots : Ended(s)
Drained ==
    /\ worker.phase = "draining" /\ Empty
    /\ worker' = [worker EXCEPT !.phase = "closed", !.timer = 0]
    /\ UNCHANGED <<task, slot, prompt, mishap>>

\* The timeout, and FiberSet.clear: requests that were sent stay sent.
TimedOut_Never == FALSE
TimedOut == worker.timer = 0
Interrupt ==
    /\ worker.phase = "draining" /\ TimedOut /\ ~Empty
    /\ slot' = [s \in Slots |-> IF Ended(s) THEN slot[s]
                                ELSE [slot[s] EXCEPT !.pc = "interrupted", !.timer = 0,
                                                     !.reply = "none", !.tries = 0]]
    /\ worker' = [worker EXCEPT !.phase = "closed", !.forced = TRUE]
    /\ UNCHANGED <<task, prompt, mishap>>

-----------------------------------------------------------------------------
(* Time. *)

\* Something of this slot that takes no time when the run is prompt.
Busy(s) == \/ slot[s].asks # "nothing"
           \/ slot[s].reply # "none"
           \/ slot[s].pc = "idle"
           \/ slot[s].pc \in {"handle", "sleep"} /\ slot[s].timer = 0

Down(n, floor) == IF n > floor THEN n - 1 ELSE floor
Tick ==
    /\ prompt => \A s \in Slots : ~Busy(s)
    /\ task' = [t \in Tasks |-> [task[t] EXCEPT !.lock = Down(@, Gone)]]
    /\ slot' = [s \in Slots |-> [slot[s] EXCEPT !.timer = Down(@, 0)]]
    /\ worker' = [worker EXCEPT !.timer = Down(@, 0)]
    /\ UNCHANGED <<prompt, mishap>>

-----------------------------------------------------------------------------
(* Specification. *)

Redis(s) == TakeTask(s) \/ TakeNothing(s) \/ ExtendLock(s) \/ Write(s)
Heartbeat(s) == Beat(s) \/ Renewed(s) \/ RenewFailed(s) \/ HeartbeatFails(s)
Handler(s) == Succeeds(s) \/ Fails(s) \/ Unreported(s) \/ Dies(s)
Loop(s) == Iterate(s) \/ Taken(s) \/ Reported(s) \/ Wake(s)

Next ==
    \/ \E s \in Slots : Redis(s) \/ Heartbeat(s) \/ Handler(s) \/ Loop(s) \/ Lose(s)
    \/ \E t \in Tasks : Stall(t) \/ Promote(t)
    \/ Stop \/ Drained \/ Interrupt \/ Tick

Spec == Init /\ [][Next]_vars

\* Fibers go on, requests that were sent are answered or lost, time passes, and
\* somebody sweeps.  No handler has to end and nobody has to stop the worker.
\* Redis is not out of reach for ever: of the requests for a task, one arrives.
FairSpec ==
    /\ Spec
    /\ \A s \in Slots : /\ WF_vars(Loop(s)) /\ WF_vars(Heartbeat(s))
                        /\ WF_vars(Redis(s) \/ Lose(s)) /\ SF_vars(TakeTask(s))
    /\ \A t \in Tasks : WF_vars(Stall(t)) /\ WF_vars(Promote(t))
    /\ WF_vars(Drained) /\ WF_vars(Interrupt) /\ WF_vars(Tick)

-----------------------------------------------------------------------------
(* Properties. *)

\* Each part of the state stays in its domain; no renewal is retried more often
\* than the lease has room for (resolveProcessingOptions).
TypeOK ==
    /\ task \in [Tasks -> Task]
    /\ slot \in [Slots -> Slot]
    /\ \A s \in Slots : slot[s].tries <= HeartbeatRetries
    /\ worker \in Worker
    /\ {prompt, mishap} \subseteq BOOLEAN

\* While requests are answered at once, a handler whose heartbeat has not given
\* up owns its task, however many renewals were lost: the retries that are left
\* fit into what is left of the lease (processAttempt, resolveProcessingOptions).
BeatingMeansOwned ==
    prompt => \A s \in Slots : slot[s].pc = "handle" => Owns(s, slot[s].task)

\* However attempts end (lost reports, stale leases, interrupted handlers), a task
\* is not attempted more often than its retries and its stalls allow (fail, syncLocks).
AttemptsBounded ==
    \A t \in Tasks : task[t].attempt <= MaxRetries + MaxStalledCount + 1

\* A worker that drained in time, and to whose requests and results nothing
\* happened, leaves no live lease behind: what its slots took while it was being
\* stopped is settled too (run's finalizer).
CleanDrain ==
    worker.phase = "closed" /\ ~worker.forced /\ ~mishap =>
        \A t \in Tasks : task[t].list = "active" => task[t].lock = Gone

\* A handler that has lost its task, also one that never ends by itself, is
\* interrupted (processAttempt's race).
ZombieStops ==
    \A s \in Slots :
        (slot[s].pc = "handle" /\ ~Owns(s, slot[s].task)) ~> slot[s].pc # "handle"

\* A worker that is stopped closes, even if handlers hang and Redis is slow.
DrainEnds == worker.phase = "draining" ~> worker.phase = "closed"

\* If no handler runs for ever, every task is settled, unless the worker is
\* stopped or all of its slots have died: failed attempts do not end a slot.
TasksSettle ==
    (\A s \in Slots : []<>(slot[s].pc # "handle")) =>
        \A t \in Tasks : <>(\/ task[t].list = "settled"
                            \/ ~Accepting
                            \/ \A s \in Slots : slot[s].pc = "died")
===============================================================================
