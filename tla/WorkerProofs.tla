---------------------------- MODULE WorkerProofs ----------------------------
(***************************************************************************)
(* Proofs about Worker, for all slots, tasks, durations and budgets.       *)
(*                                                                         *)
(* The inductive invariant relates what a slot does to what Redis holds    *)
(* of its task:                                                            *)
(*   Coherent   the requests and replies that a place in the loop allows;  *)
(*   Leased     in a prompt run, what is left of the lease of a handler's  *)
(*              task is enough for every retry its heartbeat has left;     *)
(*   Snapshot   the failure count an attempt was taken with is its task's  *)
(*              for as long as it owns it, also on the way to Redis;       *)
(*   Charged    each attempt but the last has been charged to one of two   *)
(*              budgets.                                                   *)
(* A second one is about shutdown:                                         *)
(*   Attended   a live lease has a slot that sees to it, unless something   *)
(*              was lost or the drain was cut short.                       *)
(***************************************************************************)
EXTENDS Worker, TLAPS

-----------------------------------------------------------------------------
(* The invariant. *)

\* The time that a heartbeat with k failed renewals may still spend on retries.
Room(k) == (HeartbeatRetries - k) * RetryDelay

Coherent(s) ==
    /\ slot[s].asks # "nothing" => slot[s].reply = "none"
    /\ slot[s].asks = "take" => slot[s].pc \in {"take", "interrupted"}
    /\ slot[s].asks = "renew" => slot[s].pc \in {"handle", "interrupted"}
    /\ slot[s].asks = "report" => /\ slot[s].pc \in {"report", "interrupted"}
                                  /\ slot[s].task \in Tasks
                                  /\ slot[s].report # "none"
    /\ slot[s].pc = "take" => /\ slot[s].timer = 0 /\ slot[s].tries = 0
                              /\ slot[s].asks # "nothing" \/ slot[s].reply # "none"
                              /\ slot[s].reply = "done" => slot[s].task \in Tasks
    /\ slot[s].pc = "handle" => /\ slot[s].task \in Tasks
                                /\ (slot[s].asks # "nothing" \/ slot[s].reply # "none")
                                       => slot[s].timer = 0
    /\ slot[s].asks = "renew" => slot[s].task \in Tasks

\* A slot at work on a task that it was given.
AtWork(s) == slot[s].pc = "handle" \/ (slot[s].pc = "take" /\ slot[s].reply = "done")
Holds(s) == task[slot[s].task].owner = s /\ task[slot[s].task].list = "active"

Leased(s) ==
    prompt /\ AtWork(s) =>
        /\ Holds(s)
        /\ task[slot[s].task].lock >= slot[s].timer + Room(slot[s].tries)
        /\ slot[s].reply = "done" => task[slot[s].task].lock = LockTimeout

Snapshot(s) ==
    /\ AtWork(s) /\ task[slot[s].task].owner = s
           => task[slot[s].task].handlerFailureCount = slot[s].failures
    /\ slot[s].asks = "report" =>
           (slot[s].report = "retry" /\ task[slot[s].task].owner = s
               => task[slot[s].task].handlerFailureCount < MaxRetries)

Charged(t) ==
    LET k == task[t]
    IN /\ k.list # "settled" => /\ k.handlerFailureCount <= MaxRetries
                                /\ k.stalledAttemptCount <= MaxStalledCount
       /\ k.list \in {"wait", "scheduled"} =>
             k.attempt <= k.handlerFailureCount + k.stalledAttemptCount
       /\ k.list = "active" =>
             k.attempt <= k.handlerFailureCount + k.stalledAttemptCount + 1
       /\ k.list = "settled" => k.attempt <= MaxRetries + MaxStalledCount + 1
       /\ k.list # "active" => k.owner = Nobody

Inv ==
    /\ TypeOK
    /\ \A s \in Slots : Coherent(s) /\ Leased(s) /\ Snapshot(s)
    /\ \A t \in Tasks : Charged(t)

-----------------------------------------------------------------------------
(* The heartbeat's arithmetic. *)

\* All the retries of a renewal fit between a renewal that is due and the end of the lease.
LEMMA RetriesFit ==
    /\ HeartbeatRetries \in Nat
    /\ HeartbeatRetries * RetryDelay <= LockTimeout - LockRefresh
<1> DEFINE w == LockTimeout - LockRefresh
           q == w \div RetryDelay
<1>1. w \in Nat /\ RetryDelay \in Nat \ {0} /\ RetryCount \in Nat
  BY OptionsAssumption DEF ValidOptions
<1>2. q \in Nat /\ q * RetryDelay <= w
  BY <1>1
<1>3. HeartbeatRetries = Least(RetryCount, q)
  BY DEF HeartbeatRetries
<1>4. HeartbeatRetries \in Nat /\ HeartbeatRetries <= q
  BY <1>1, <1>2, <1>3 DEF Least
<1>5. ASSUME NEW a \in Nat, NEW b \in Nat, NEW d \in Nat, a <= b
      PROVE  a * d <= b * d
  BY <1>5
<1>6. HeartbeatRetries * RetryDelay <= q * RetryDelay
  BY <1>1, <1>2, <1>4, <1>5
<1>7. HeartbeatRetries * RetryDelay \in Nat /\ q * RetryDelay \in Nat
  BY <1>1, <1>2, <1>4
<1> QED
  BY <1>1, <1>2, <1>4, <1>6, <1>7

\* A heartbeat's room shrinks by one delay with each failed renewal, and is never
\* more than what a refresh leaves of a lease.
LEMMA RoomFacts ==
    ASSUME NEW k \in 0..HeartbeatRetries
    PROVE  /\ Room(k) \in Nat
           /\ LockRefresh + Room(k) <= LockTimeout
           /\ k < HeartbeatRetries => Room(k) = Room(k + 1) + RetryDelay
<1> DEFINE h == HeartbeatRetries
<1>1. h \in Nat /\ h * RetryDelay <= LockTimeout - LockRefresh
  BY RetriesFit
<1>2. /\ LockTimeout \in Nat /\ LockRefresh \in Nat /\ RetryDelay \in Nat
  BY OptionsAssumption DEF ValidOptions
<1> HIDE DEF h
<1>3. ASSUME NEW n \in Nat, NEW d \in Nat, NEW j \in 0..n
      PROVE  /\ (n - j) * d \in Nat /\ (n - j) * d <= n * d
             /\ j < n => (n - j) * d = (n - (j + 1)) * d + d
  BY <1>3
<1>4. k \in 0..h
  BY DEF h
<1>5. /\ (h - k) * RetryDelay \in Nat /\ (h - k) * RetryDelay <= h * RetryDelay
      /\ k < h => (h - k) * RetryDelay = (h - (k + 1)) * RetryDelay + RetryDelay
  BY <1>1, <1>2, <1>3, <1>4
<1>6. h * RetryDelay \in Nat
  BY <1>1, <1>2
<1>7. LockRefresh + (h - k) * RetryDelay <= LockTimeout
  BY <1>1, <1>2, <1>5, <1>6
<1> QED
  BY <1>5, <1>7 DEF Room, h

-----------------------------------------------------------------------------
(* Typing of the operators that the actions are built from. *)

\* A slot at rest is a slot.
LEMMA FreshTyped ==
    /\ Fresh \in Slot
    /\ Unprocessed \in Slot
<1>1. 0 \in 0..(LockTimeout + RetryDelay + PollInterval)
  BY OptionsAssumption DEF ValidOptions
<1>2. PollInterval \in 0..(LockTimeout + RetryDelay + PollInterval)
  BY OptionsAssumption DEF ValidOptions
<1>3. Fresh \in Slot
  BY <1>1 DEF Fresh, Slot
<1>4. Unprocessed = [Fresh EXCEPT !.pc = "sleep", !.timer = PollInterval]
  BY DEF Unprocessed, SleepFor
<1> QED
  BY <1>2, <1>3, <1>4 DEF Slot

\* So is one that was answered; a request that nobody waits for any more leaves no reply.
LEMMA ToldTyped ==
    ASSUME NEW s \in Slots, slot[s] \in Slot,
           NEW reply \in {"none", "done", "empty", "refused", "failed"}
    PROVE  /\ Told(s, reply) \in Slot
           /\ Told(s, reply) = [slot[s] EXCEPT !.asks = "nothing",
                                   !.reply = IF Ended(s) THEN "none" ELSE reply]
  BY DEF Told, Slot

-----------------------------------------------------------------------------
(* What a step must show of what it changes for Inv to be kept of the rest. *)

Rest == worker' \in Worker /\ prompt' = prompt /\ mishap' \in BOOLEAN

\* A step of one slot that leaves Redis alone.
LEMMA LocalStep ==
    ASSUME Inv, Rest, UNCHANGED task,
           NEW s \in Slots, NEW to \in Slot, to.tries <= HeartbeatRetries,
           slot' = [slot EXCEPT ![s] = to],
           Coherent(s)', Leased(s)', Snapshot(s)'
    PROVE  Inv'
<1>1. /\ slot \in [Slots -> Slot] /\ task \in [Tasks -> Task]
      /\ \A r \in Slots : slot[r].tries <= HeartbeatRetries
      /\ prompt \in BOOLEAN
  BY DEF Inv, TypeOK
<1>2. /\ slot' \in [Slots -> Slot]
      /\ slot'[s] = to
      /\ \A r \in Slots : r # s => slot'[r] = slot[r]
  BY <1>1
<1>3. HeartbeatRetries' = HeartbeatRetries
  BY DEF HeartbeatRetries
<1>4. TypeOK'
  BY <1>1, <1>2, <1>3 DEF TypeOK, Rest
<1>5. ASSUME NEW r \in Slots, r # s
      PROVE  Coherent(r)' /\ Leased(r)' /\ Snapshot(r)'
  <2>1. Coherent(r) /\ Leased(r) /\ Snapshot(r)
    BY DEF Inv
  <2>2. slot'[r] = slot[r]
    BY <1>2, <1>5
  <2>3. Room(slot[r].tries)' = Room(slot[r].tries)
    BY <2>2, <1>3 DEF Room
  <2>4. Coherent(r)'
    BY <2>1, <2>2 DEF Coherent
  <2>5. Leased(r)'
    BY <2>1, <2>2, <2>3 DEF Leased, AtWork, Holds, Rest
  <2>6. Snapshot(r)'
    BY <2>1, <2>2 DEF Snapshot, AtWork
  <2> QED
    BY <2>4, <2>5, <2>6
<1>6. ASSUME NEW t \in Tasks
      PROVE  Charged(t)'
  BY DEF Inv, Charged
<1> QED
  BY <1>4, <1>5, <1>6 DEF Inv

\* A step of one slot on a task that no other slot owns before or after it.
LEMMA TaskStep ==
    ASSUME Inv, Rest,
           NEW s \in Slots, NEW to \in Slot, to.tries <= HeartbeatRetries,
           slot' = [slot EXCEPT ![s] = to],
           NEW t \in Tasks, NEW k \in Task, task' = [task EXCEPT ![t] = k],
           task[t].owner \in {s, Nobody}, k.owner \in {s, Nobody},
           Charged(t)', Coherent(s)', Leased(s)', Snapshot(s)'
    PROVE  Inv'
<1>1. /\ slot \in [Slots -> Slot] /\ task \in [Tasks -> Task]
      /\ \A r \in Slots : slot[r].tries <= HeartbeatRetries
      /\ prompt \in BOOLEAN
  BY DEF Inv, TypeOK
<1>2. /\ slot' \in [Slots -> Slot]
      /\ slot'[s] = to
      /\ \A r \in Slots : r # s => slot'[r] = slot[r]
      /\ task' \in [Tasks -> Task]
      /\ task'[t] = k
      /\ \A u \in Tasks : u # t => task'[u] = task[u]
  BY <1>1
<1>3. HeartbeatRetries' = HeartbeatRetries
  BY DEF HeartbeatRetries
<1>4. TypeOK'
  BY <1>1, <1>2, <1>3 DEF TypeOK, Rest
<1>5. ASSUME NEW r \in Slots, r # s
      PROVE  Coherent(r)' /\ Leased(r)' /\ Snapshot(r)'
  <2>1. Coherent(r) /\ Leased(r) /\ Snapshot(r)
    BY DEF Inv
  <2>2. slot'[r] = slot[r]
    BY <1>2, <1>5
  <2>3. Room(slot[r].tries)' = Room(slot[r].tries)
    BY <2>2, <1>3 DEF Room
  <2>4. task[t].owner # r /\ task'[t].owner # r
    BY <1>2, <1>5, NobodyAssumption
  <2>5. Coherent(r)'
    BY <2>1, <2>2 DEF Coherent
  <2>6. AtWork(r) => slot[r].task \in Tasks
    BY <2>1 DEF AtWork, Coherent
  <2>7. Leased(r)'
    BY <1>2, <2>1, <2>2, <2>3, <2>4, <2>6 DEF Leased, AtWork, Holds, Rest
  <2>8. Snapshot(r)'
    <3>1. slot[r].asks = "report" => slot[r].task \in Tasks
      BY <2>1 DEF Coherent
    <3> QED
      BY <1>2, <2>1, <2>2, <2>4, <2>6, <3>1 DEF Snapshot, AtWork
  <2> QED
    BY <2>5, <2>7, <2>8
<1>6. ASSUME NEW u \in Tasks
      PROVE  Charged(u)'
  <2>1. CASE u = t
    BY <2>1
  <2>2. CASE u # t
    BY <1>2, <2>2 DEF Inv, Charged
  <2> QED
    BY <2>1, <2>2
<1> QED
  BY <1>4, <1>5, <1>6 DEF Inv

\* A sweep's step on a task that no slot of a prompt run is at work on.
LEMMA SweepStep ==
    ASSUME Inv, Rest, UNCHANGED slot,
           NEW t \in Tasks, NEW k \in Task, task' = [task EXCEPT ![t] = k],
           k.owner = Nobody, Charged(t)',
           \A r \in Slots : prompt /\ AtWork(r) => slot[r].task # t
    PROVE  Inv'
<1>1. slot \in [Slots -> Slot] /\ task \in [Tasks -> Task] /\ prompt \in BOOLEAN
  BY DEF Inv, TypeOK
<1>2. /\ task' \in [Tasks -> Task]
      /\ task'[t] = k
      /\ \A u \in Tasks : u # t => task'[u] = task[u]
  BY <1>1
<1>3. HeartbeatRetries' = HeartbeatRetries
  BY DEF HeartbeatRetries
<1>4. TypeOK'
  BY <1>2, <1>3 DEF Inv, TypeOK, Rest
<1>5. ASSUME NEW r \in Slots
      PROVE  Coherent(r)' /\ Leased(r)' /\ Snapshot(r)'
  <2>1. Coherent(r) /\ Leased(r) /\ Snapshot(r)
    BY DEF Inv
  <2>2. Room(slot[r].tries)' = Room(slot[r].tries)
    BY <1>3 DEF Room
  <2>3. task'[t].owner # r
    BY <1>2, NobodyAssumption
  <2>4. Coherent(r)'
    BY <2>1 DEF Coherent
  <2>5. AtWork(r) => slot[r].task \in Tasks
    BY <2>1 DEF AtWork, Coherent
  <2>6. Leased(r)'
    BY <1>2, <2>1, <2>2, <2>5 DEF Leased, AtWork, Holds, Rest
  <2>7. Snapshot(r)'
    <3>1. slot[r].asks = "report" => slot[r].task \in Tasks
      BY <2>1 DEF Coherent
    <3> QED
      BY <1>2, <2>1, <2>3, <2>5, <3>1 DEF Snapshot, AtWork
  <2> QED
    BY <2>4, <2>6, <2>7
<1>6. ASSUME NEW u \in Tasks
      PROVE  Charged(u)'
  <2>1. CASE u = t
    BY <2>1
  <2>2. CASE u # t
    BY <1>2, <2>2 DEF Inv, Charged
  <2> QED
    BY <2>1, <2>2
<1> QED
  BY <1>4, <1>5, <1>6 DEF Inv

\* What a renewal does to Redis: to the lease of the task, if the slot owns it.
LEMMA ExtendedFacts ==
    ASSUME Inv, NEW s \in Slots, slot[s].task \in Tasks
    PROVE  LET t == slot[s].task
               k == [task[t] EXCEPT !.lock = LockTimeout]
           IN /\ k \in Task
              /\ Owns(s, t) => Extended(s) = [task EXCEPT ![t] = k]
              /\ ~Owns(s, t) => Extended(s) = task
<1> DEFINE t == slot[s].task
           k == [task[t] EXCEPT !.lock = LockTimeout]
<1>1. task \in [Tasks -> Task] /\ task[t] \in Task
  BY DEF Inv, TypeOK
<1>2. LockTimeout \in Gone..LockTimeout
  BY OptionsAssumption DEF ValidOptions, Gone
<1>3. k \in Task
  BY <1>1, <1>2 DEF Task
<1>4. Owns(s, t) => Extended(s) = [task EXCEPT ![t] = k]
  BY DEF Extended
<1>5. ~Owns(s, t) => Extended(s) = task
  <2>1. ~Owns(s, t) => Extended(s) = [task EXCEPT ![t].lock = task[t].lock]
    BY DEF Extended
  <2>2. [task[t] EXCEPT !.lock = task[t].lock] = task[t]
    BY <1>1 DEF Task
  <2> QED
    BY <1>1, <2>1, <2>2
<1> QED
  BY <1>3, <1>4, <1>5

-----------------------------------------------------------------------------
(* The steps of a slot that leave Redis alone. *)

\* A slot that is sent where it neither has nor asks for anything.
LEMMA AtRest ==
    ASSUME Inv, Rest, task' = task,
           NEW s \in Slots, NEW to \in Slot, to.tries <= HeartbeatRetries,
           slot' = [slot EXCEPT ![s] = to],
           to.asks = "nothing", to.pc \notin {"take", "handle"}
    PROVE  Inv'
<1>1. slot'[s] = to
  BY DEF Inv, TypeOK
<1>2. Coherent(s)' /\ ~AtWork(s)'
  BY <1>1 DEF Coherent, AtWork
<1>3. Leased(s)' /\ Snapshot(s)'
  BY <1>1, <1>2 DEF Leased, Snapshot
<1> QED
  BY <1>2, <1>3, LocalStep

\* The targets of most of these steps.
LEMMA RestingTyped ==
    ASSUME NEW pc \in {"stopped", "died"}
    PROVE  LET to == [Fresh EXCEPT !.pc = pc]
           IN to \in Slot /\ to.tries = 0 /\ to.asks = "nothing" /\ to.pc = pc
<1>1. 0 \in 0..(LockTimeout + RetryDelay + PollInterval)
  BY OptionsAssumption DEF ValidOptions
<1> QED
  BY <1>1 DEF Fresh, Slot

\* The number of retries is not negative.
LEMMA NoRetriesFit == 0 <= HeartbeatRetries
  BY RetriesFit

\* What a step that leaves the worker alone keeps of the invariant.
LEMMA RestFacts ==
    ASSUME Inv, worker' = worker, prompt' = prompt, mishap' = mishap
    PROVE  Rest
  BY DEF Inv, TypeOK, Rest

\* The loop of a slot keeps the invariant.
LEMMA LoopStep ==
    ASSUME Inv, NEW s \in Slots, Loop(s)
    PROVE  Inv'
<1>1. /\ slot \in [Slots -> Slot] /\ slot[s] \in Slot
      /\ slot[s].tries <= HeartbeatRetries
      /\ Coherent(s) /\ Leased(s) /\ Snapshot(s)
  BY DEF Inv, TypeOK
<1>2. /\ Fresh \in Slot /\ Fresh.tries = 0 /\ Fresh.asks = "nothing" /\ Fresh.pc = "idle"
      /\ Unprocessed \in Slot /\ Unprocessed.tries = 0
      /\ Unprocessed.asks = "nothing" /\ Unprocessed.pc = "sleep"
  BY FreshTyped DEF Fresh, Unprocessed, SleepFor
<1>3. Rest /\ task' = task
  BY RestFacts DEF Loop, Iterate, Taken, Reported, Wake
<1>4. CASE Iterate(s)
  <2> DEFINE go == [Fresh EXCEPT !.pc = "take", !.asks = "take"]
             stop == [Fresh EXCEPT !.pc = "stopped"]
  <2>1. CASE slot' = [slot EXCEPT ![s] = go]
    <3>1. go \in Slot /\ go.tries = 0
      BY <1>2 DEF Slot
    <3>2. slot'[s] = go
      BY <1>1, <2>1
    <3>3. Coherent(s)' /\ Leased(s)' /\ Snapshot(s)'
      BY <3>2 DEF Coherent, Leased, Snapshot, AtWork, Fresh
    <3> QED
      BY <1>3, <2>1, <3>1, <3>3, NoRetriesFit, LocalStep
  <2>2. CASE slot' = [slot EXCEPT ![s] = stop]
    <3>1. stop \in Slot /\ stop.tries = 0 /\ stop.asks = "nothing" /\ stop.pc = "stopped"
      BY RestingTyped
    <3> QED
      BY <1>3, <2>2, <3>1, NoRetriesFit, AtRest
  <2> QED
    BY <1>4, <2>1, <2>2 DEF Iterate, Goes
<1>5. CASE Taken(s)
  <2> DEFINE to == [slot[s] EXCEPT !.pc = "handle", !.reply = "none", !.asks = "renew"]
  <2>1. CASE slot[s].reply = "done" /\ slot' = [slot EXCEPT ![s] = to]
    <3>1. to \in Slot /\ to.tries <= HeartbeatRetries
      BY <1>1 DEF Slot
    <3>2. /\ slot'[s] = to
          /\ to = [slot[s] EXCEPT !.pc = "handle", !.reply = "none", !.asks = "renew"]
      BY <1>1, <2>1
    <3>3. slot[s].pc = "take" /\ AtWork(s)
      BY <1>5, <2>1 DEF Taken, AtWork
    <3>4. /\ slot'[s].pc = "handle" /\ slot'[s].reply = "none" /\ slot'[s].asks = "renew"
          /\ slot'[s].task = slot[s].task /\ slot'[s].timer = slot[s].timer
          /\ slot'[s].tries = slot[s].tries /\ slot'[s].failures = slot[s].failures
      BY <1>1, <3>2 DEF Slot
    <3>5. Coherent(s)'
      BY <1>1, <2>1, <3>3, <3>4 DEF Coherent
    <3>6. Room(slot[s].tries)' = Room(slot[s].tries)
      BY <3>4 DEF Room, HeartbeatRetries
    <3>7. Leased(s)'
      BY <1>1, <1>3, <3>3, <3>4, <3>6 DEF Leased, AtWork, Holds, Rest
    <3>8. Snapshot(s)'
      BY <1>1, <1>3, <3>3, <3>4 DEF Snapshot, AtWork
    <3> QED
      BY <1>3, <2>1, <3>1, <3>5, <3>7, <3>8, LocalStep
  <2>2. CASE slot' = [slot EXCEPT ![s] = Unprocessed]
    BY <1>2, <1>3, <2>2, NoRetriesFit, AtRest
  <2> QED
    BY <1>5, <2>1, <2>2 DEF Taken, Goes
<1>6. CASE slot' = [slot EXCEPT ![s] = Fresh]
  BY <1>2, <1>3, <1>6, NoRetriesFit, AtRest
<1>7. CASE slot' = [slot EXCEPT ![s] = Unprocessed]
  BY <1>2, <1>3, <1>7, NoRetriesFit, AtRest
<1> QED
  BY <1>4, <1>5, <1>6, <1>7 DEF Loop, Reported, Wake, Goes

\* A slot that stays where it is, and may be told of a lost message.
LEMMA LoseStep ==
    ASSUME Inv, NEW s \in Slots, Lose(s)
    PROVE  Inv'
<1> DEFINE to == Told(s, "failed")
<1>1. /\ slot \in [Slots -> Slot] /\ slot[s] \in Slot
      /\ slot[s].tries <= HeartbeatRetries
      /\ Coherent(s) /\ Leased(s) /\ Snapshot(s)
      /\ worker \in Worker
  BY DEF Inv, TypeOK
<1>2. to \in Slot
      /\ to = [slot[s] EXCEPT !.asks = "nothing",
                              !.reply = IF Ended(s) THEN "none" ELSE "failed"]
  BY <1>1, ToldTyped
<1>3. slot' = [slot EXCEPT ![s] = to] /\ task' = task
  BY DEF Lose, Answered
<1>4. Rest
  BY <1>1 DEF Lose, Rest
<1>5. /\ slot'[s].asks = "nothing" /\ slot'[s].reply \in {"none", "failed"}
      /\ slot'[s].pc = slot[s].pc /\ slot'[s].task = slot[s].task
      /\ slot'[s].timer = slot[s].timer /\ slot'[s].tries = slot[s].tries
      /\ slot'[s].failures = slot[s].failures
      /\ slot[s].pc = "take" => slot'[s].reply = "failed"
      /\ to.tries = slot[s].tries
  BY <1>1, <1>2, <1>3 DEF Slot, Ended
<1>6. slot[s].asks # "nothing" \/ slot[s].reply # "none"
  BY DEF Lose
<1>7. Coherent(s)'
  BY <1>1, <1>5, <1>6 DEF Coherent
<1>8. Room(slot[s].tries)' = Room(slot[s].tries)
  BY <1>5 DEF Room, HeartbeatRetries
<1>9. AtWork(s)' => AtWork(s)
  BY <1>5 DEF AtWork
<1>10. Leased(s)'
  BY <1>1, <1>3, <1>4, <1>5, <1>8, <1>9 DEF Leased, Holds, Rest
<1>11. Snapshot(s)'
  BY <1>1, <1>3, <1>5, <1>9 DEF Snapshot
<1> QED
  BY <1>1, <1>2, <1>3, <1>4, <1>5, <1>7, <1>10, <1>11, LocalStep

\* A heartbeat that has its answer is set to the next renewal, or to a retry.
LEMMA RenewalTyped ==
    ASSUME NEW k \in Slot, NEW d \in {LockRefresh, RetryDelay}, NEW n \in Nat
    PROVE  LET to == [k EXCEPT !.reply = "none", !.timer = d, !.tries = n]
           IN to \in Slot /\ to.tries = n
<1>1. d \in 0..(LockTimeout + RetryDelay + PollInterval)
  BY OptionsAssumption DEF ValidOptions
<1> QED
  BY <1>1 DEF Slot

\* The heartbeat keeps it: a retry takes its delay from the room that the lease has left.
LEMMA HeartbeatStep ==
    ASSUME Inv, NEW s \in Slots, Heartbeat(s)
    PROVE  Inv'
<1>1. /\ slot \in [Slots -> Slot] /\ slot[s] \in Slot /\ task \in [Tasks -> Task]
      /\ slot[s].tries <= HeartbeatRetries
      /\ Coherent(s) /\ Leased(s) /\ Snapshot(s)
  BY DEF Inv, TypeOK
<1>2. Rest /\ task' = task
  BY RestFacts DEF Heartbeat, Beat, Renewed, RenewFailed, HeartbeatFails
<1>3. slot[s].pc = "handle" /\ slot[s].task \in Tasks /\ AtWork(s)
  BY <1>1 DEF Heartbeat, Beat, Renewed, RenewFailed, HeartbeatFails, Coherent, AtWork
<1>4. RetryDelay \in Nat
  BY OptionsAssumption DEF ValidOptions
<1>5. Room(slot[s].tries)' = Room(slot'[s].tries)
  BY DEF Room, HeartbeatRetries
<1>6. slot[s].tries \in 0..HeartbeatRetries /\ HeartbeatRetries \in Nat
  BY <1>1, RetriesFit DEF Slot
<1>7. CASE Beat(s)
  <2> DEFINE to == [slot[s] EXCEPT !.asks = "renew"]
  <2>1. to \in Slot /\ to.tries <= HeartbeatRetries
    BY <1>1 DEF Slot
  <2>2. slot' = [slot EXCEPT ![s] = to]
    BY <1>1, <1>7 DEF Beat
  <2>3. /\ slot'[s].pc = "handle" /\ slot'[s].reply = "none" /\ slot'[s].asks = "renew"
        /\ slot'[s].task = slot[s].task /\ slot'[s].timer = 0
        /\ slot'[s].tries = slot[s].tries /\ slot'[s].failures = slot[s].failures
        /\ slot[s].timer = 0
    BY <1>1, <1>7, <2>2 DEF Slot, Beat
  <2>4. Coherent(s)'
    BY <1>3, <2>3 DEF Coherent
  <2>5. Leased(s)'
    BY <1>1, <1>2, <1>3, <1>5, <2>3 DEF Leased, Holds, Rest
  <2>6. Snapshot(s)'
    BY <1>1, <1>2, <1>3, <2>3 DEF Snapshot
  <2> QED
    BY <1>2, <2>1, <2>2, <2>4, <2>5, <2>6, LocalStep
<1>8. CASE Renewed(s)
  <2>1. Spaced(s) \in Slot /\ Spaced(s).tries <= HeartbeatRetries
    <3>1. /\ LockRefresh \in {LockRefresh, RetryDelay}
          /\ 0 \in Nat /\ 0 <= HeartbeatRetries
      BY <1>6
    <3>2. Spaced(s) \in Slot /\ Spaced(s).tries = 0
      BY <1>1, <3>1, RenewalTyped DEF Spaced
    <3> QED
      BY <3>1, <3>2
  <2>2. slot' = [slot EXCEPT ![s] = Spaced(s)] /\ slot[s].reply = "done"
    BY <1>8 DEF Renewed, Goes
  <2>3. /\ slot'[s].pc = "handle" /\ slot'[s].reply = "none" /\ slot'[s].asks = "nothing"
        /\ slot'[s].task = slot[s].task /\ slot'[s].timer = LockRefresh
        /\ slot'[s].tries = 0 /\ slot'[s].failures = slot[s].failures
    BY <1>1, <1>3, <2>2 DEF Slot, Spaced, Coherent
  <2>4. Coherent(s)'
    BY <1>3, <2>3 DEF Coherent
  <2>5. LockRefresh + Room(0) <= LockTimeout
    BY <1>6, RoomFacts
  <2>6. Leased(s)'
    BY <1>1, <1>2, <1>3, <1>5, <2>2, <2>3, <2>5 DEF Leased, Holds, Rest
  <2>7. Snapshot(s)'
    BY <1>1, <1>2, <1>3, <2>3 DEF Snapshot
  <2> QED
    BY <1>2, <2>1, <2>2, <2>4, <2>6, <2>7, LocalStep
<1>9. CASE RenewFailed(s)
  <2> DEFINE to == [slot[s] EXCEPT !.reply = "none", !.timer = RetryDelay, !.tries = @ + 1]
  <2>1. to \in Slot /\ to.tries <= HeartbeatRetries
    <3>1. slot[s].tries + 1 \in Nat /\ slot[s].tries + 1 <= HeartbeatRetries
      BY <1>6, <1>9 DEF RenewFailed, CanRenewAgain
    <3> QED
      BY <1>1, <3>1, RenewalTyped
  <2>2. slot' = [slot EXCEPT ![s] = to]
    BY <1>9 DEF RenewFailed, Goes
  <2>3. /\ slot'[s].pc = "handle" /\ slot'[s].reply = "none" /\ slot'[s].asks = "nothing"
        /\ slot'[s].task = slot[s].task /\ slot'[s].timer = RetryDelay
        /\ slot'[s].tries = slot[s].tries + 1 /\ slot'[s].failures = slot[s].failures
        /\ slot[s].timer = 0
    BY <1>1, <1>3, <1>9, <2>2 DEF Slot, RenewFailed, Coherent
  <2>4. Coherent(s)'
    BY <1>3, <2>3 DEF Coherent
  <2>5. /\ Room(slot[s].tries) = Room(slot[s].tries + 1) + RetryDelay
        /\ Room(slot[s].tries + 1) \in Nat /\ RetryDelay \in Nat
    <3>1. slot[s].tries + 1 \in 0..HeartbeatRetries
      BY <1>6, <1>9 DEF RenewFailed, CanRenewAgain
    <3> QED
      BY <1>4, <1>6, <1>9, <3>1, RoomFacts DEF RenewFailed, CanRenewAgain
  <2>6. Leased(s)'
    <3>1. slot'[s].timer + Room(slot[s].tries)' = slot[s].timer + Room(slot[s].tries)
      BY <1>5, <2>3, <2>5
    <3> QED
      BY <1>1, <1>2, <1>3, <2>3, <3>1 DEF Leased, Holds, Rest
  <2>7. Snapshot(s)'
    BY <1>1, <1>2, <1>3, <2>3 DEF Snapshot
  <2> QED
    BY <1>2, <2>1, <2>2, <2>4, <2>6, <2>7, LocalStep
<1>10. CASE HeartbeatFails(s)
  <2>1. slot' = [slot EXCEPT ![s] = Unprocessed]
    BY <1>10 DEF HeartbeatFails, GiveUp, Goes
  <2>2. Unprocessed.tries = 0 /\ Unprocessed.asks = "nothing" /\ Unprocessed.pc = "sleep"
    BY DEF Unprocessed, SleepFor, Fresh
  <2> QED
    BY <1>2, <2>1, <2>2, FreshTyped, NoRetriesFit, AtRest
<1> QED
  BY <1>7, <1>8, <1>9, <1>10 DEF Heartbeat

-----------------------------------------------------------------------------
(* The end of a handler. *)

\* The handler keeps it: its end is reported under the lease that it ran with.
LEMMA HandlerStep ==
    ASSUME Inv, NEW s \in Slots, Handler(s)
    PROVE  Inv'
<1> DEFINE t == slot[s].task
           k == [task[t] EXCEPT !.lock = LockTimeout]
<1>1. /\ slot \in [Slots -> Slot] /\ task \in [Tasks -> Task]
      /\ Coherent(s) /\ Snapshot(s)
      /\ slot[s].pc = "handle" /\ t \in Tasks /\ AtWork(s)
      /\ worker \in Worker /\ prompt \in BOOLEAN /\ mishap \in BOOLEAN
  BY DEF Inv, TypeOK, Handler, Succeeds, Fails, Unreported, Dies, HandlerEnds, Coherent, AtWork
<1>2. Rest
  BY <1>1 DEF Handler, Succeeds, Fails, Unreported, Dies, HandlerEnds, Rest
<1>3. task' = task \/ (Owns(s, t) /\ task' = [task EXCEPT ![t] = k])
  <2>1. task' = task \/ task' = Extended(s)
    BY DEF Handler, Succeeds, Fails, Unreported, Dies, HandlerEnds
  <2> QED
    BY <1>1, <2>1, ExtendedFacts
<1>4. ASSUME NEW to \in Slot, slot' = [slot EXCEPT ![s] = to], to.tries = 0,
             Coherent(s)', ~AtWork(s)', Snapshot(s)'
      PROVE  Inv'
  <2>1. Leased(s)' /\ to.tries <= HeartbeatRetries
    BY <1>4, NoRetriesFit DEF Leased
  <2>2. CASE task' = task
    BY <1>2, <1>4, <2>1, <2>2, LocalStep
  <2>3. CASE Owns(s, t) /\ task' = [task EXCEPT ![t] = k]
    <3>1. PICK u \in Tasks : u = slot[s].task
      BY <1>1
    <3>2. PICK r \in Task : r = k
      BY <1>1, ExtendedFacts
    <3>3. task[u] \in Task /\ task[u].owner = s /\ task' = [task EXCEPT ![u] = r]
      BY <1>1, <2>3, <3>1, <3>2 DEF Owns
    <3>4. /\ r.owner = task[u].owner /\ r.list = task[u].list
          /\ r.attempt = task[u].attempt
          /\ r.handlerFailureCount = task[u].handlerFailureCount
          /\ r.stalledAttemptCount = task[u].stalledAttemptCount
      BY <3>1, <3>2, <3>3 DEF Task
    <3>5. task'[u] = r
      BY <1>1, <3>3
    <3>6. Charged(u)
      BY DEF Inv
    <3>7. Charged(u)'
      BY <3>4, <3>5, <3>6 DEF Charged
    <3> QED
      BY <1>2, <1>4, <2>1, <3>3, <3>4, <3>7, TaskStep
  <2> QED
    BY <1>3, <2>2, <2>3
<1>5. ASSUME NEW what \in {"success", "retry", "failure"},
             slot' = [slot EXCEPT ![s] = Reports(s, what)],
             what = "retry" => CanRetry(s)
      PROVE  Inv'
  <2> DEFINE to == Reports(s, what)
  <2>1. /\ to \in Slot /\ to.tries = 0 /\ to.pc = "report" /\ to.asks = "report"
        /\ to.task = t /\ to.report = what /\ to.reply = "none"
    BY <1>1, FreshTyped DEF Reports, Slot, Fresh
  <2>2. slot'[s] = to
    BY <1>1, <1>5
  <2>3. Coherent(s)' /\ ~AtWork(s)'
    BY <1>1, <2>1, <2>2 DEF Coherent, AtWork
  <2>4. task'[t].owner = task[t].owner
        /\ task'[t].handlerFailureCount = task[t].handlerFailureCount
    BY <1>1, <1>3 DEF Task
  <2>5. Snapshot(s)'
    BY <1>1, <1>5, <2>1, <2>2, <2>3, <2>4 DEF Snapshot, CanRetry
  <2> QED
    BY <1>4, <1>5, <2>1, <2>3, <2>5
<1>6. ASSUME NEW to \in Slot, slot' = [slot EXCEPT ![s] = to], to.tries = 0,
             to.asks = "nothing", to.pc \notin {"take", "handle"}
      PROVE  Inv'
  <2>1. slot'[s] = to
    BY <1>1, <1>6
  <2>2. Coherent(s)' /\ ~AtWork(s)' /\ Snapshot(s)'
    BY <1>6, <2>1 DEF Coherent, AtWork, Snapshot
  <2> QED
    BY <1>4, <1>6, <2>2
<1>7. CASE Succeeds(s)
  BY <1>5, <1>7 DEF Succeeds, HandlerEnds, Goes
<1>8. CASE Fails(s)
  BY <1>5, <1>8 DEF Fails, HandlerEnds, Goes
<1>9. CASE Unreported(s)
  <2>1. Unprocessed \in Slot /\ Unprocessed.tries = 0 /\ Unprocessed.asks = "nothing"
        /\ Unprocessed.pc = "sleep"
    BY FreshTyped DEF Unprocessed, SleepFor, Fresh
  <2> QED
    BY <1>6, <1>9, <2>1 DEF Unreported, HandlerEnds, Goes
<1>10. CASE Dies(s)
  <2> DEFINE to == [Fresh EXCEPT !.pc = "died"]
  <2>1. to \in Slot /\ to.tries = 0 /\ to.asks = "nothing" /\ to.pc = "died"
    BY RestingTyped
  <2> QED
    BY <1>6, <1>10, <2>1 DEF Dies, HandlerEnds, Goes
<1> QED
  BY <1>7, <1>8, <1>9, <1>10 DEF Handler

-----------------------------------------------------------------------------
(* Redis. *)

\* What an answer leaves of a slot.
LEMMA AnsweredFacts ==
    ASSUME Inv, NEW s \in Slots, slot[s].asks # "nothing",
           NEW reply \in {"done", "empty", "refused"}
    PROVE  LET to == Told(s, reply)
           IN /\ to \in Slot /\ to.asks = "nothing" /\ to.reply \in {"none", reply}
              /\ to.pc = slot[s].pc /\ to.task = slot[s].task /\ to.timer = slot[s].timer
              /\ to.tries = slot[s].tries /\ to.failures = slot[s].failures
              /\ slot[s].pc = "take" => to.reply = reply
<1>1. slot[s] \in Slot
  BY DEF Inv, TypeOK
<1>2. /\ Told(s, reply) \in Slot
      /\ Told(s, reply) = [slot[s] EXCEPT !.asks = "nothing",
                              !.reply = IF Ended(s) THEN "none" ELSE reply]
  BY <1>1, ToldTyped
<1>3. slot[s].pc = "take" => ~Ended(s)
  BY DEF Ended
<1> QED
  BY <1>1, <1>2, <1>3 DEF Slot

\* A request that finds no task keeps it.
LEMMA TakeNothingStep ==
    ASSUME Inv, NEW s \in Slots, TakeNothing(s)
    PROVE  Inv'
<1>1. /\ slot \in [Slots -> Slot] /\ slot[s].tries <= HeartbeatRetries
      /\ Coherent(s) /\ Leased(s) /\ Snapshot(s)
      /\ slot[s].asks = "take" /\ slot[s].pc \in {"take", "interrupted"}
  BY DEF Inv, TypeOK, TakeNothing, Coherent
<1>2. Rest /\ task' = task
  BY RestFacts DEF TakeNothing
<1>3. PICK to \in Slot :
        /\ slot' = [slot EXCEPT ![s] = to]
        /\ to.asks = "nothing" /\ to.reply \in {"none", "empty"}
        /\ to.pc = slot[s].pc /\ to.task = slot[s].task /\ to.timer = slot[s].timer
        /\ to.tries = slot[s].tries
        /\ slot[s].pc = "take" => to.reply = "empty"
  BY <1>1, AnsweredFacts DEF TakeNothing, Answered
<1>4. slot'[s] = to
  BY <1>1, <1>3
<1>5. Coherent(s)' /\ ~AtWork(s)'
  BY <1>1, <1>3, <1>4 DEF Coherent, AtWork
<1>6. Leased(s)' /\ Snapshot(s)'
  BY <1>3, <1>4, <1>5 DEF Leased, Snapshot
<1> QED
  BY <1>1, <1>2, <1>3, <1>5, <1>6, LocalStep

\* A request that finds one charges an attempt and starts a whole lease.
LEMMA TakeTaskStep ==
    ASSUME Inv, NEW s \in Slots, TakeTask(s)
    PROVE  Inv'
<1>1. /\ slot \in [Slots -> Slot] /\ task \in [Tasks -> Task]
      /\ slot[s].tries <= HeartbeatRetries
      /\ Coherent(s) /\ slot[s].asks = "take" /\ slot[s].pc \in {"take", "interrupted"}
  BY DEF Inv, TypeOK, TakeTask, Coherent
<1>2. Rest
  BY RestFacts DEF TakeTask
<1>3. PICK u \in Tasks :
        /\ task[u].list = "wait"
        /\ task' = [task EXCEPT ![u] = [task[u] EXCEPT
              !.list = "active", !.owner = s, !.lock = LockTimeout, !.attempt = @ + 1]]
        /\ slot' = [slot EXCEPT ![s] = [Told(s, "done") EXCEPT
              !.task = u, !.failures = task[u].handlerFailureCount]]
  BY DEF TakeTask
<1>4. task[u] \in Task /\ Charged(u) /\ task[u].owner = Nobody
  BY <1>1, <1>3 DEF Inv, Charged
<1>5. /\ LockTimeout \in Gone..LockTimeout
      /\ task[u].attempt \in Nat /\ task[u].handlerFailureCount \in Nat
      /\ task[u].stalledAttemptCount \in Nat
  BY <1>4, OptionsAssumption DEF ValidOptions, Gone, Task
<1>6. PICK r \in Task :
        /\ task' = [task EXCEPT ![u] = r]
        /\ r.list = "active" /\ r.owner = s /\ r.lock = LockTimeout
        /\ r.attempt = task[u].attempt + 1
        /\ r.handlerFailureCount = task[u].handlerFailureCount
        /\ r.stalledAttemptCount = task[u].stalledAttemptCount
  <2> DEFINE k == [task[u] EXCEPT !.list = "active", !.owner = s, !.lock = LockTimeout,
                                  !.attempt = @ + 1]
  <2>1. task' = [task EXCEPT ![u] = k]
    BY <1>3
  <2>2. task[u].attempt + 1 \in Nat
    BY <1>5
  <2>3. k \in Task
    BY <1>4, <1>5, <2>2 DEF Task
  <2>4. /\ k.list = "active" /\ k.owner = s /\ k.lock = LockTimeout
        /\ k.attempt = task[u].attempt + 1
        /\ k.handlerFailureCount = task[u].handlerFailureCount
        /\ k.stalledAttemptCount = task[u].stalledAttemptCount
    BY <1>4 DEF Task
  <2> QED
    BY <2>1, <2>3, <2>4
<1>7. task'[u] = r
  BY <1>1, <1>6
<1>8. PICK to \in Slot :
        /\ slot' = [slot EXCEPT ![s] = to]
        /\ to.asks = "nothing" /\ to.reply \in {"none", "done"}
        /\ to.pc = slot[s].pc /\ to.task = u /\ to.timer = slot[s].timer
        /\ to.tries = slot[s].tries /\ to.failures = task[u].handlerFailureCount
        /\ slot[s].pc = "take" => to.reply = "done"
  <2>1. task[u].handlerFailureCount \in Nat
    BY <1>4 DEF Task
  <2>2. ASSUME NEW told \in Slot
        PROVE  LET to == [told EXCEPT !.task = u, !.failures = task[u].handlerFailureCount]
               IN /\ to \in Slot /\ to.asks = told.asks /\ to.reply = told.reply
                  /\ to.pc = told.pc /\ to.task = u /\ to.timer = told.timer
                  /\ to.tries = told.tries /\ to.failures = task[u].handlerFailureCount
    BY <2>1 DEF Slot
  <2>3. /\ Told(s, "done") \in Slot /\ Told(s, "done").asks = "nothing"
        /\ Told(s, "done").reply \in {"none", "done"} /\ Told(s, "done").pc = slot[s].pc
        /\ Told(s, "done").timer = slot[s].timer /\ Told(s, "done").tries = slot[s].tries
        /\ slot[s].pc = "take" => Told(s, "done").reply = "done"
    BY <1>1, AnsweredFacts
  <2> QED
    BY <1>3, <2>2, <2>3
<1>9. slot'[s] = to
  BY <1>1, <1>8
<1>11. Charged(u)'
  BY <1>3, <1>4, <1>5, <1>6, <1>7 DEF Charged
<1>12. Coherent(s)'
  BY <1>1, <1>8, <1>9 DEF Coherent
<1>13. Leased(s)'
  <2>1. slot[s].pc = "take" => slot[s].timer = 0 /\ slot[s].tries = 0
    BY <1>1 DEF Coherent
  <2>2. Room(slot[s].tries)' = Room(to.tries)
    BY <1>8, <1>9 DEF Room, HeartbeatRetries
  <2>3. LockRefresh + Room(0) <= LockTimeout /\ Room(0) \in Nat
        /\ LockRefresh \in Nat /\ LockTimeout \in Nat
    BY RoomFacts, RetriesFit, OptionsAssumption DEF ValidOptions
  <2>4. AtWork(s)' => slot[s].pc = "take"
    BY <1>1, <1>8, <1>9 DEF AtWork
  <2> QED
    <3>1. slot'[s].task = u /\ slot'[s].timer = slot[s].timer
      BY <1>8, <1>9
    <3>2. slot[s].pc = "take" => task'[u].lock >= slot'[s].timer + Room(slot[s].tries)'
      BY <1>6, <1>7, <1>8, <2>1, <2>2, <2>3, <3>1
    <3> QED
      BY <1>6, <1>7, <2>4, <3>1, <3>2 DEF Leased, Holds
<1>14. Snapshot(s)'
  BY <1>6, <1>7, <1>8, <1>9 DEF Snapshot
<1> QED
  BY <1>1, <1>2, <1>4, <1>6, <1>8, <1>11, <1>12, <1>13, <1>14, TaskStep

\* A renewal is never refused in a prompt run, and then fills up the lease.
LEMMA ExtendLockStep ==
    ASSUME Inv, NEW s \in Slots, ExtendLock(s)
    PROVE  Inv'
<1>1. /\ slot \in [Slots -> Slot] /\ slot[s] \in Slot /\ task \in [Tasks -> Task]
      /\ slot[s].tries <= HeartbeatRetries
      /\ Coherent(s) /\ Leased(s) /\ Snapshot(s)
      /\ slot[s].asks = "renew" /\ slot[s].pc \in {"handle", "interrupted"}
  BY DEF Inv, TypeOK, ExtendLock, Coherent
<1>2. Rest
  BY RestFacts DEF ExtendLock
<1>3. PICK u \in Tasks : u = slot[s].task
  BY <1>1 DEF Coherent
<1>4. PICK reply \in {"done", "refused"} :
        /\ reply = "done" <=> Owns(s, u)
        /\ slot' = [slot EXCEPT ![s] = Told(s, reply)]
  BY <1>3 DEF ExtendLock, Answered
<1>5. PICK to \in Slot :
        /\ slot' = [slot EXCEPT ![s] = to]
        /\ to.asks = "nothing" /\ to.reply \in {"none", reply}
        /\ to.pc = slot[s].pc /\ to.task = u /\ to.timer = slot[s].timer
        /\ to.tries = slot[s].tries /\ to.failures = slot[s].failures
  BY <1>1, <1>3, <1>4, AnsweredFacts
<1>6. slot'[s] = to
  BY <1>1, <1>5
<1>7. Coherent(s)'
  BY <1>1, <1>3, <1>5, <1>6 DEF Coherent
<1>8. AtWork(s)' <=> slot[s].pc = "handle"
  BY <1>1, <1>5, <1>6 DEF AtWork
<1>9. AtWork(s) <=> slot[s].pc = "handle"
  BY <1>1 DEF AtWork
<1>10. Room(slot[s].tries)' = Room(slot[s].tries)
  BY <1>5, <1>6 DEF Room, HeartbeatRetries
<1>11. CASE ~Owns(s, u)
  <2>1. task' = task
    BY <1>1, <1>3, <1>11, ExtendedFacts DEF ExtendLock
  <2>2. Leased(s)'
    BY <1>1, <1>2, <1>3, <1>4, <1>5, <1>6, <1>8, <1>9, <1>10, <1>11, <2>1 DEF Leased, Holds, Rest
  <2>3. Snapshot(s)'
    BY <1>1, <1>3, <1>5, <1>6, <1>8, <1>9, <2>1 DEF Snapshot
  <2> QED
    BY <1>1, <1>2, <1>5, <1>7, <2>1, <2>2, <2>3, LocalStep
<1>12. CASE Owns(s, u)
  <2>1. PICK r \in Task : /\ r = [task[u] EXCEPT !.lock = LockTimeout]
                          /\ task' = [task EXCEPT ![u] = r]
    BY <1>1, <1>3, <1>12, ExtendedFacts DEF ExtendLock
  <2>2. task[u] \in Task /\ task[u].owner = s /\ task'[u] = r /\ Charged(u)
    BY <1>1, <1>12, <2>1 DEF Owns, Inv
  <2>3. /\ r.lock = LockTimeout
        /\ r.owner = task[u].owner /\ r.list = task[u].list
        /\ r.attempt = task[u].attempt
        /\ r.handlerFailureCount = task[u].handlerFailureCount
        /\ r.stalledAttemptCount = task[u].stalledAttemptCount
    BY <2>1, <2>2 DEF Task
  <2>4. Charged(u)'
    BY <2>2, <2>3 DEF Charged
  <2>5. slot[s].pc = "handle" => slot[s].timer = 0
    BY <1>1 DEF Coherent
  <2>6. LockTimeout >= 0 + Room(slot[s].tries)
    <3>1. slot[s].tries \in 0..HeartbeatRetries
      BY <1>1, RetriesFit DEF Slot
    <3> QED
      BY <3>1, RoomFacts, OptionsAssumption DEF ValidOptions
  <2>7. Leased(s)'
    BY <1>1, <1>2, <1>3, <1>5, <1>6, <1>8, <1>9, <1>10, <2>2, <2>3, <2>5, <2>6
       DEF Leased, Holds, Rest
  <2>8. Snapshot(s)'
    BY <1>1, <1>3, <1>5, <1>6, <1>8, <1>9, <2>2, <2>3 DEF Snapshot
  <2> QED
    BY <1>1, <1>2, <1>5, <1>7, <2>1, <2>2, <2>3, <2>4, <2>7, <2>8, TaskStep
<1> QED
  BY <1>11, <1>12

\* A task leaves a slot when the slot's report is written: each outcome pays for
\* the attempt.
LEMMA UnownedFacts ==
    ASSUME NEW u \in Tasks, task[u] \in Task,
           NEW list \in {"wait", "scheduled", "active", "settled"}
    PROVE  /\ Unowned(u, list) \in Task
           /\ Unowned(u, list).list = list /\ Unowned(u, list).owner = Nobody
           /\ Unowned(u, list).attempt = task[u].attempt
           /\ Unowned(u, list).handlerFailureCount = task[u].handlerFailureCount
           /\ Unowned(u, list).stalledAttemptCount = task[u].stalledAttemptCount
<1>1. Gone \in Gone..LockTimeout
  BY OptionsAssumption DEF ValidOptions, Gone
<1> QED
  BY <1>1 DEF Unowned, Task

\* A report keeps it, accepted or refused.
LEMMA WriteStep ==
    ASSUME Inv, NEW s \in Slots, Write(s)
    PROVE  Inv'
<1>1. /\ slot \in [Slots -> Slot] /\ slot[s] \in Slot /\ task \in [Tasks -> Task]
      /\ slot[s].tries <= HeartbeatRetries
      /\ Coherent(s) /\ Snapshot(s)
      /\ slot[s].asks = "report" /\ slot[s].pc \in {"report", "interrupted"}
  BY DEF Inv, TypeOK, Write, Coherent
<1>2. Rest
  BY RestFacts DEF Write
<1>3. PICK u \in Tasks : u = slot[s].task
  BY <1>1 DEF Coherent
<1>4. PICK to \in Slot :
        /\ slot' = [slot EXCEPT ![s] = to]
        /\ to.asks = "nothing" /\ to.pc = slot[s].pc /\ to.tries = slot[s].tries
  BY <1>1, AnsweredFacts DEF Write, Answered
<1>5. slot'[s] = to
  BY <1>1, <1>4
<1>6. Coherent(s)' /\ ~AtWork(s)'
  BY <1>1, <1>4, <1>5 DEF Coherent, AtWork
<1>7. Leased(s)' /\ Snapshot(s)'
  BY <1>4, <1>5, <1>6 DEF Leased, Snapshot
<1>8. CASE task' = task
  BY <1>1, <1>2, <1>4, <1>6, <1>7, <1>8, LocalStep
<1>9. CASE Owns(s, u) /\ \E r \in Outcome(s, u) : task' = [task EXCEPT ![u] = r]
  <2>1. PICK r \in Outcome(s, u) : task' = [task EXCEPT ![u] = r]
    BY <1>9
  <2>2. /\ task[u] \in Task /\ task[u].owner = s /\ task[u].list = "active" /\ Charged(u)
    BY <1>1, <1>9, NobodyAssumption DEF Owns, Inv, Charged
  <2>3. /\ task[u].handlerFailureCount \in Nat /\ task[u].stalledAttemptCount \in Nat
        /\ task[u].attempt \in Nat /\ MaxRetries \in Nat /\ MaxStalledCount \in Nat
    BY <2>2, OptionsAssumption DEF ValidOptions, Task
  <2>4. ASSUME NEW k \in Task
        PROVE  LET e == [k EXCEPT !.handlerFailureCount = @ + 1]
               IN /\ e \in Task /\ e.list = k.list /\ e.owner = k.owner
                  /\ e.attempt = k.attempt
                  /\ e.handlerFailureCount = k.handlerFailureCount + 1
                  /\ e.stalledAttemptCount = k.stalledAttemptCount
    BY DEF Task
  <2>5. /\ r \in Task /\ r.owner = Nobody
        /\ r.attempt = task[u].attempt
        /\ r.stalledAttemptCount = task[u].stalledAttemptCount
        /\ \/ r.list = "settled"
           \/ /\ r.list \in {"wait", "scheduled"} /\ slot[s].report = "retry"
              /\ r.handlerFailureCount = task[u].handlerFailureCount + 1
    <3>1. CASE r = Unowned(u, "settled")
      BY <2>2, <3>1, UnownedFacts
    <3>2. CASE r = [Unowned(u, "settled") EXCEPT !.handlerFailureCount = @ + 1]
      BY <2>2, <2>4, <3>2, UnownedFacts
    <3>3. ASSUME NEW list \in {"wait", "scheduled"}, slot[s].report = "retry",
                 r = [Unowned(u, list) EXCEPT !.handlerFailureCount = @ + 1]
          PROVE  /\ r \in Task /\ r.owner = Nobody
                 /\ r.attempt = task[u].attempt
                 /\ r.stalledAttemptCount = task[u].stalledAttemptCount
                 /\ r.list \in {"wait", "scheduled"}
                 /\ r.handlerFailureCount = task[u].handlerFailureCount + 1
      BY <2>2, <2>4, <3>3, UnownedFacts
    <3>4. slot[s].report \in {"success", "retry", "failure"}
      BY <1>1 DEF Coherent, Slot
    <3> QED
      BY <3>1, <3>2, <3>3, <3>4 DEF Outcome
  <2>6. task'[u] = r
    BY <1>1, <2>1
  <2>7. slot[s].report = "retry" => task[u].handlerFailureCount < MaxRetries
    BY <1>1, <1>3, <2>2 DEF Snapshot
  <2>8. Charged(u)'
    BY <2>2, <2>3, <2>5, <2>6, <2>7 DEF Charged
  <2> QED
    BY <1>1, <1>2, <1>4, <1>6, <1>7, <2>1, <2>2, <2>5, <2>8, TaskStep
<1> QED
  BY <1>3, <1>8, <1>9 DEF Write

-----------------------------------------------------------------------------
(* Sweeps. *)

\* Only a lease that ran out is taken from its owner, and no prompt slot at work
\* has one.
LEMMA StallStep ==
    ASSUME Inv, NEW u \in Tasks, Stall(u)
    PROVE  Inv'
<1>1. /\ slot \in [Slots -> Slot] /\ task \in [Tasks -> Task] /\ task[u] \in Task
      /\ Charged(u) /\ task[u].list = "active" /\ task[u].lock = Gone
  BY DEF Inv, TypeOK, Stall
<1>2. Rest /\ slot' = slot
  BY RestFacts DEF Stall
<1>3. PICK list \in {"wait", "settled"} :
        /\ list = "wait" => task[u].stalledAttemptCount + 1 <= MaxStalledCount
        /\ task' = [task EXCEPT ![u] =
                       [Unowned(u, list) EXCEPT !.stalledAttemptCount = @ + 1]]
  BY DEF Stall
<1>4. /\ task[u].handlerFailureCount \in Nat /\ task[u].stalledAttemptCount \in Nat
      /\ task[u].attempt \in Nat /\ MaxRetries \in Nat /\ MaxStalledCount \in Nat
  BY <1>1, OptionsAssumption DEF ValidOptions, Task
<1>5. ASSUME NEW k \in Task
      PROVE  LET e == [k EXCEPT !.stalledAttemptCount = @ + 1]
             IN /\ e \in Task /\ e.list = k.list /\ e.owner = k.owner
                /\ e.attempt = k.attempt
                /\ e.handlerFailureCount = k.handlerFailureCount
                /\ e.stalledAttemptCount = k.stalledAttemptCount + 1
  BY DEF Task
<1>6. PICK r \in Task :
        /\ task' = [task EXCEPT ![u] = r]
        /\ r.list = list /\ r.owner = Nobody
        /\ r.attempt = task[u].attempt
        /\ r.handlerFailureCount = task[u].handlerFailureCount
        /\ r.stalledAttemptCount = task[u].stalledAttemptCount + 1
  <2> DEFINE r == [Unowned(u, list) EXCEPT !.stalledAttemptCount = @ + 1]
  <2>1. task' = [task EXCEPT ![u] = r]
    BY <1>3
  <2>2. /\ Unowned(u, list) \in Task
        /\ Unowned(u, list).list = list /\ Unowned(u, list).owner = Nobody
        /\ Unowned(u, list).attempt = task[u].attempt
        /\ Unowned(u, list).handlerFailureCount = task[u].handlerFailureCount
        /\ Unowned(u, list).stalledAttemptCount = task[u].stalledAttemptCount
    BY <1>1, UnownedFacts
  <2>3. /\ r \in Task /\ r.list = list /\ r.owner = Nobody
        /\ r.attempt = task[u].attempt
        /\ r.handlerFailureCount = task[u].handlerFailureCount
        /\ r.stalledAttemptCount = task[u].stalledAttemptCount + 1
    BY <1>5, <2>2
  <2> QED
    BY <2>1, <2>3
<1>7. task'[u] = r
  BY <1>1, <1>6
<1>8. Charged(u)'
  <2>1. /\ task[u].handlerFailureCount <= MaxRetries
        /\ task[u].stalledAttemptCount <= MaxStalledCount
        /\ task[u].attempt <= task[u].handlerFailureCount + task[u].stalledAttemptCount + 1
    BY <1>1 DEF Charged
  <2>2. CASE list = "wait"
    <3>1. task[u].stalledAttemptCount + 1 <= MaxStalledCount
      BY <1>3, <2>2
    <3>2. r.attempt <= r.handlerFailureCount + r.stalledAttemptCount
      BY <1>4, <1>6, <2>1
    <3> QED
      BY <1>6, <1>7, <2>1, <2>2, <3>1, <3>2 DEF Charged
  <2>3. CASE list = "settled"
    BY <1>4, <1>6, <1>7, <2>1, <2>3 DEF Charged
  <2> QED
    BY <2>2, <2>3
<1>9. ASSUME NEW q \in Slots, prompt, AtWork(q)
      PROVE  slot[q].task # u
  <2>1. /\ Leased(q) /\ slot[q].timer \in Nat
        /\ slot[q].tries \in 0..HeartbeatRetries
    BY <1>1, RetriesFit DEF Inv, TypeOK, Slot
  <2>2. Room(slot[q].tries) \in Nat
    BY <2>1, RoomFacts
  <2>3. task[slot[q].task].lock >= slot[q].timer + Room(slot[q].tries)
    BY <1>9, <2>1 DEF Leased
  <2> QED
    BY <1>1, <2>1, <2>2, <2>3 DEF Gone
<1> QED
  BY <1>2, <1>6, <1>8, <1>9, SweepStep

\* The promotion of a delayed task keeps it.
LEMMA PromoteStep ==
    ASSUME Inv, NEW u \in Tasks, Promote(u)
    PROVE  Inv'
<1>1. /\ task \in [Tasks -> Task] /\ task[u] \in Task
      /\ Charged(u) /\ task[u].list = "scheduled" /\ task[u].owner = Nobody
  BY DEF Inv, TypeOK, Promote, Charged
<1>2. Rest /\ slot' = slot
  BY RestFacts DEF Promote
<1>3. PICK r \in Task :
        /\ task' = [task EXCEPT ![u] = r]
        /\ r.list = "wait" /\ r.owner = Nobody
        /\ r.attempt = task[u].attempt
        /\ r.handlerFailureCount = task[u].handlerFailureCount
        /\ r.stalledAttemptCount = task[u].stalledAttemptCount
  <2> DEFINE r == [task[u] EXCEPT !.list = "wait"]
  <2>1. task' = [task EXCEPT ![u] = r]
    BY DEF Promote
  <2>2. /\ r \in Task /\ r.list = "wait" /\ r.owner = Nobody
        /\ r.attempt = task[u].attempt
        /\ r.handlerFailureCount = task[u].handlerFailureCount
        /\ r.stalledAttemptCount = task[u].stalledAttemptCount
    BY <1>1 DEF Task
  <2> QED
    BY <2>1, <2>2
<1>4. task'[u] = r
  BY <1>1, <1>3
<1>5. Charged(u)'
  BY <1>1, <1>3, <1>4 DEF Charged
<1>6. ASSUME NEW q \in Slots, prompt, AtWork(q)
      PROVE  slot[q].task # u
  BY <1>1, <1>6 DEF Inv, Leased, Holds
<1> QED
  BY <1>2, <1>3, <1>5, <1>6, SweepStep

-----------------------------------------------------------------------------
(* The process. *)

\* Nothing but the process changes.
LEMMA ProcessStep ==
    ASSUME Inv, Rest, task' = task, slot' = slot
    PROVE  Inv'
<1>1. TypeOK'
  BY DEF Inv, TypeOK, Rest, HeartbeatRetries
<1>2. ASSUME NEW s \in Slots
      PROVE  Coherent(s)' /\ Leased(s)' /\ Snapshot(s)'
  <2>1. Coherent(s) /\ Leased(s) /\ Snapshot(s)
    BY DEF Inv
  <2>2. Room(slot[s].tries)' = Room(slot[s].tries)
    BY DEF Room, HeartbeatRetries
  <2>3. Coherent(s)'
    BY <2>1 DEF Coherent
  <2>4. Leased(s)'
    BY <2>1, <2>2 DEF Leased, AtWork, Holds, Rest
  <2>5. Snapshot(s)'
    BY <2>1 DEF Snapshot, AtWork
  <2> QED
    BY <2>3, <2>4, <2>5
<1>3. ASSUME NEW t \in Tasks
      PROVE  Charged(t)'
  BY DEF Inv, Charged
<1> QED
  BY <1>1, <1>2, <1>3 DEF Inv

\* Shutdown keeps it.
LEMMA ShutdownStep ==
    ASSUME Inv, Stop \/ Drained
    PROVE  Inv'
<1>1. worker \in Worker /\ prompt \in BOOLEAN /\ mishap \in BOOLEAN
  BY DEF Inv, TypeOK
<1>2. 0 \in 0..DrainTimeout /\ DrainTimeout \in 0..DrainTimeout
  BY OptionsAssumption DEF ValidOptions
<1>3. worker' \in Worker
  BY <1>1, <1>2 DEF Stop, Drained, Worker
<1>4. Rest /\ task' = task /\ slot' = slot
  BY <1>1, <1>3 DEF Stop, Drained, Rest
<1> QED
  BY <1>4, ProcessStep

\* A slot that is interrupted is no longer at work, but what it sent is on its way.
LEMMA InterruptStep ==
    ASSUME Inv, Interrupt
    PROVE  Inv'
<1>1. /\ slot \in [Slots -> Slot] /\ task \in [Tasks -> Task] /\ worker \in Worker
      /\ \A s \in Slots : slot[s].tries <= HeartbeatRetries
      /\ {prompt, mishap} \subseteq BOOLEAN
  BY DEF Inv, TypeOK
<1>2. worker' \in Worker /\ task' = task /\ prompt' = prompt /\ mishap' = mishap
  BY <1>1 DEF Interrupt, Worker
<1>3. 0 \in 0..(LockTimeout + RetryDelay + PollInterval)
  BY OptionsAssumption DEF ValidOptions
<1>4. ASSUME NEW s \in Slots
      PROVE  /\ slot'[s] \in Slot /\ slot'[s].tries <= HeartbeatRetries
             /\ Coherent(s)' /\ Leased(s)' /\ Snapshot(s)'
  <2>1. Coherent(s) /\ Leased(s) /\ Snapshot(s) /\ slot[s] \in Slot
    BY <1>1 DEF Inv
  <2>2. CASE Ended(s)
    <3>1. slot'[s] = slot[s] /\ slot[s].pc \notin {"take", "handle"}
      BY <1>1, <2>2 DEF Interrupt, Ended
    <3>2. Coherent(s)'
      BY <2>1, <3>1 DEF Coherent
    <3>3. Leased(s)'
      BY <3>1 DEF Leased, AtWork
    <3>4. Snapshot(s)'
      BY <1>2, <2>1, <3>1 DEF Snapshot, AtWork
    <3> QED
      BY <1>1, <2>1, <3>1, <3>2, <3>3, <3>4
  <2>3. CASE ~Ended(s)
    <3> DEFINE to == [slot[s] EXCEPT !.pc = "interrupted", !.timer = 0,
                                     !.reply = "none", !.tries = 0]
    <3>1. slot'[s] = to
      BY <2>3 DEF Interrupt
    <3>2. to \in Slot /\ to.tries = 0
      BY <1>3, <2>1 DEF Slot
    <3>3. /\ slot'[s].pc = "interrupted" /\ slot'[s].reply = "none"
          /\ slot'[s].asks = slot[s].asks /\ slot'[s].task = slot[s].task
          /\ slot'[s].report = slot[s].report
      BY <2>1, <3>1 DEF Slot
    <3>4. Coherent(s)'
      BY <2>1, <3>3 DEF Coherent
    <3>5. Leased(s)'
      BY <3>3 DEF Leased, AtWork
    <3>6. Snapshot(s)'
      BY <1>2, <2>1, <3>3 DEF Snapshot, AtWork
    <3> QED
      BY <3>1, <3>2, <3>4, <3>5, <3>6, NoRetriesFit
  <2> QED
    BY <2>2, <2>3
<1>5. slot' \in [Slots -> Slot]
  <2>1. slot' = [s \in Slots |-> slot'[s]]
    BY DEF Interrupt
  <2> QED
    BY <1>4, <2>1
<1>6. HeartbeatRetries' = HeartbeatRetries
  BY DEF HeartbeatRetries
<1>7. TypeOK'
  BY <1>1, <1>2, <1>4, <1>5, <1>6 DEF TypeOK
<1>8. ASSUME NEW t \in Tasks
      PROVE  Charged(t)'
  BY <1>2 DEF Inv, Charged
<1> QED
  BY <1>4, <1>7, <1>8 DEF Inv

-----------------------------------------------------------------------------
(* Time. *)

\* A prompt slot at work has something left on its timer when time passes, so
\* the lease and the timer shrink together.
LEMMA TickStep ==
    ASSUME Inv, Tick
    PROVE  Inv'
<1>1. /\ slot \in [Slots -> Slot] /\ task \in [Tasks -> Task] /\ worker \in Worker
      /\ \A s \in Slots : slot[s].tries <= HeartbeatRetries
      /\ {prompt, mishap} \subseteq BOOLEAN
  BY DEF Inv, TypeOK
<1>2. ASSUME NEW n \in Int, NEW floor \in Int, n >= floor
      PROVE  /\ Down(n, floor) \in Int /\ Down(n, floor) >= floor /\ Down(n, floor) <= n
             /\ n > floor => Down(n, floor) = n - 1
             /\ n = floor => Down(n, floor) = n
  BY <1>2 DEF Down
<1>3. worker' \in Worker /\ prompt' = prompt /\ mishap' = mishap
  <2>1. worker.timer \in 0..DrainTimeout /\ DrainTimeout \in Nat
    BY <1>1, OptionsAssumption DEF ValidOptions, Worker
  <2>2. Down(worker.timer, 0) \in 0..DrainTimeout
    BY <1>2, <2>1
  <2>3. worker' = [worker EXCEPT !.timer = Down(worker.timer, 0)]
    BY DEF Tick
  <2> QED
    BY <1>1, <2>2, <2>3 DEF Worker, Tick
<1>4. ASSUME NEW t \in Tasks
      PROVE  /\ task'[t] \in Task /\ task'[t].lock = Down(task[t].lock, Gone)
             /\ task'[t].list = task[t].list /\ task'[t].owner = task[t].owner
             /\ task'[t].attempt = task[t].attempt
             /\ task'[t].handlerFailureCount = task[t].handlerFailureCount
             /\ task'[t].stalledAttemptCount = task[t].stalledAttemptCount
             /\ task[t].lock \in Int /\ task[t].lock >= Gone
  <2>1. task[t] \in Task /\ task[t].lock \in Gone..LockTimeout /\ LockTimeout \in Nat
    BY <1>1, OptionsAssumption DEF ValidOptions, Task
  <2>2. task[t].lock \in Int /\ task[t].lock >= Gone /\ Gone \in Int
    BY <2>1 DEF Gone
  <2>3. Down(task[t].lock, Gone) \in Gone..LockTimeout
    BY <1>2, <2>1, <2>2
  <2>4. task'[t] = [task[t] EXCEPT !.lock = Down(task[t].lock, Gone)]
    BY DEF Tick
  <2> QED
    BY <2>1, <2>2, <2>3, <2>4 DEF Task
<1>5. ASSUME NEW s \in Slots
      PROVE  /\ slot'[s] \in Slot /\ slot'[s].timer = Down(slot[s].timer, 0)
             /\ slot'[s].pc = slot[s].pc /\ slot'[s].task = slot[s].task
             /\ slot'[s].failures = slot[s].failures /\ slot'[s].asks = slot[s].asks
             /\ slot'[s].reply = slot[s].reply /\ slot'[s].report = slot[s].report
             /\ slot'[s].tries = slot[s].tries
             /\ slot[s].timer \in Nat
  <2> DEFINE n == LockTimeout + RetryDelay + PollInterval
  <2>1. slot[s] \in Slot /\ slot[s].timer \in 0..n /\ n \in Nat
    BY <1>1, OptionsAssumption DEF ValidOptions, Slot
  <2>2. Down(slot[s].timer, 0) \in 0..n
    BY <1>2, <2>1
  <2>3. slot'[s] = [slot[s] EXCEPT !.timer = Down(slot[s].timer, 0)]
    BY DEF Tick
  <2> QED
    BY <2>1, <2>2, <2>3 DEF Slot
<1>6. ASSUME NEW s \in Slots
      PROVE  Coherent(s)' /\ Leased(s)' /\ Snapshot(s)'
  <2>1. Coherent(s) /\ Leased(s) /\ Snapshot(s)
    BY DEF Inv
  <2>2. slot[s].timer = 0 => slot'[s].timer = 0
    BY <1>2, <1>5
  <2>3. Coherent(s)'
    BY <1>5, <2>1, <2>2 DEF Coherent
  <2>4. AtWork(s)' <=> AtWork(s)
    BY <1>5 DEF AtWork
  <2>5. AtWork(s) => slot[s].task \in Tasks
    BY <2>1 DEF AtWork, Coherent
  <2>6. ASSUME prompt, AtWork(s)
        PROVE  slot[s].pc = "handle" /\ slot[s].reply = "none" /\ slot[s].timer > 0
    <3>1. ~Busy(s)
      BY <2>6 DEF Tick
    <3> QED
      BY <1>5, <2>1, <2>6, <3>1 DEF Busy, AtWork, Coherent
  <2>7. Leased(s)'
    <3>1. SUFFICES ASSUME prompt, AtWork(s)
                   PROVE  /\ Holds(s)'
                          /\ task'[slot[s].task].lock
                                 >= slot'[s].timer + Room(slot[s].tries)
                          /\ slot'[s].reply = "none"
      <4>1. Room(slot[s].tries)' = Room(slot[s].tries)
        BY <1>5 DEF Room, HeartbeatRetries
      <4> QED
        BY <1>3, <1>5, <2>4, <4>1 DEF Leased
    <3>2. PICK u \in Tasks : u = slot[s].task
      BY <2>5, <3>1
    <3>3. /\ task[u].owner = s /\ task[u].list = "active"
          /\ task[u].lock >= slot[s].timer + Room(slot[s].tries)
      BY <2>1, <3>1, <3>2 DEF Leased, Holds
    <3>4. Holds(s)'
      BY <1>4, <1>5, <3>2, <3>3 DEF Holds
    <3>5. Room(slot[s].tries) \in Nat
      <4>1. slot[s].tries \in 0..HeartbeatRetries
        BY <1>1, RetriesFit DEF Slot
      <4> QED
        BY <4>1, RoomFacts
    <3>6. slot[s].timer > 0 /\ slot[s].timer \in Nat
      BY <1>5, <2>6, <3>1
    <3>7. slot'[s].timer = slot[s].timer - 1
      BY <1>2, <1>5, <3>6
    <3>8. task'[u].lock = task[u].lock - 1
      <4>1. task[u].lock \in Int /\ task[u].lock > Gone /\ Gone \in Int
        BY <1>4, <3>3, <3>5, <3>6 DEF Gone
      <4> QED
        BY <1>2, <1>4, <4>1
    <3>9. task[u].lock \in Int
      BY <1>4
    <3>10. task'[u].lock >= slot'[s].timer + Room(slot[s].tries)
      BY <3>3, <3>5, <3>6, <3>7, <3>8, <3>9
    <3> QED
      BY <1>5, <2>6, <3>1, <3>2, <3>4, <3>10
  <2>8. Snapshot(s)'
    <3>1. slot[s].asks = "report" => slot[s].task \in Tasks
      BY <2>1 DEF Coherent
    <3> QED
      BY <1>4, <1>5, <2>1, <2>4, <2>5, <3>1 DEF Snapshot
  <2> QED
    BY <2>3, <2>7, <2>8
<1>7. ASSUME NEW t \in Tasks
      PROVE  Charged(t)'
  BY <1>4, <1>7 DEF Inv, Charged
<1>8. task' \in [Tasks -> Task] /\ slot' \in [Slots -> Slot]
  <2>1. task' = [t \in Tasks |-> task'[t]] /\ slot' = [s \in Slots |-> slot'[s]]
    BY DEF Tick
  <2> QED
    BY <1>4, <1>5, <2>1
<1>9. TypeOK'
  BY <1>1, <1>3, <1>5, <1>8 DEF TypeOK, HeartbeatRetries
<1> QED
  BY <1>6, <1>7, <1>9 DEF Inv

-----------------------------------------------------------------------------
(* The theorems. *)

\* At the beginning nobody owns anything.
LEMMA InvInit == Init => Inv
<1> SUFFICES ASSUME Init PROVE Inv
  OBVIOUS
<1>1. Fresh \in Slot /\ 0 <= HeartbeatRetries
  BY FreshTyped, NoRetriesFit
<1>2. /\ Gone \in Gone..LockTimeout /\ 0 \in 0..DrainTimeout
      /\ MaxRetries \in Nat /\ MaxStalledCount \in Nat
  BY OptionsAssumption DEF ValidOptions, Gone
<1>3. task \in [Tasks -> Task]
  BY <1>2 DEF Init, Task
<1>4. slot \in [Slots -> Slot] /\ \A s \in Slots : slot[s] = Fresh
  BY <1>1 DEF Init
<1>5. Fresh.tries = 0 /\ Fresh.pc = "idle" /\ Fresh.asks = "nothing" /\ Fresh.reply = "none"
  BY DEF Fresh
<1>6. worker \in Worker /\ {prompt, mishap} \subseteq BOOLEAN
  BY <1>2 DEF Init, Worker
<1>7. TypeOK
  BY <1>1, <1>3, <1>4, <1>5, <1>6 DEF TypeOK
<1>8. ASSUME NEW s \in Slots
      PROVE  Coherent(s) /\ Leased(s) /\ Snapshot(s)
  BY <1>4, <1>5 DEF Coherent, Leased, Snapshot, AtWork
<1>9. ASSUME NEW t \in Tasks
      PROVE  Charged(t)
  BY <1>2 DEF Init, Charged
<1> QED
  BY <1>7, <1>8, <1>9 DEF Inv

\* Every step keeps the invariant.
LEMMA InvNext == Inv /\ [Next]_vars => Inv'
<1> SUFFICES ASSUME Inv, [Next]_vars PROVE Inv'
  OBVIOUS
<1>1. ASSUME NEW s \in Slots, Redis(s)
      PROVE  Inv'
  BY <1>1, TakeTaskStep, TakeNothingStep, ExtendLockStep, WriteStep DEF Redis
<1>2. ASSUME NEW s \in Slots, Heartbeat(s) \/ Handler(s) \/ Loop(s) \/ Lose(s)
      PROVE  Inv'
  BY <1>2, HeartbeatStep, HandlerStep, LoopStep, LoseStep
<1>3. ASSUME NEW t \in Tasks, Stall(t) \/ Promote(t)
      PROVE  Inv'
  BY <1>3, StallStep, PromoteStep
<1>4. CASE Stop \/ Drained \/ Interrupt \/ Tick
  BY <1>4, ShutdownStep, InterruptStep, TickStep
<1>5. CASE UNCHANGED vars
  <2>1. Rest /\ task' = task /\ slot' = slot
    BY <1>5, RestFacts DEF vars
  <2> QED
    BY <2>1, ProcessStep
<1> QED
  BY <1>1, <1>2, <1>3, <1>4, <1>5 DEF Next

\* What the slots and Redis hold stays coherent, for any slots, tasks, durations
\* and budgets that resolveWorkerOptions accepts.
THEOREM Invariance == Spec => []Inv
  BY InvInit, InvNext, PTL DEF Spec

\* Each part of the state stays in its domain, and no renewal is retried more
\* often than fits into a lease (resolveProcessingOptions).
THEOREM TypeCorrect == Spec => []TypeOK
<1>1. Inv => TypeOK
  BY DEF Inv
<1> QED
  BY <1>1, Invariance, PTL

\* While requests are answered at once, a handler whose heartbeat has not given up
\* owns its task, however many renewals were lost (processAttempt).
THEOREM HeartbeatKeepsLease == Spec => []BeatingMeansOwned
<1>1. ASSUME Inv, prompt, NEW s \in Slots, slot[s].pc = "handle"
      PROVE  Owns(s, slot[s].task)
  <2>1. /\ Leased(s) /\ Coherent(s) /\ slot[s].timer \in Nat
        /\ slot[s].tries \in 0..HeartbeatRetries
    BY <1>1, RetriesFit DEF Inv, TypeOK, Slot
  <2>2. Room(slot[s].tries) \in Nat
    BY <2>1, RoomFacts
  <2>3. slot[s].task \in Tasks
    BY <1>1, <2>1 DEF Coherent
  <2>4. /\ task[slot[s].task].owner = s
        /\ task[slot[s].task].lock >= slot[s].timer + Room(slot[s].tries)
    BY <1>1, <2>1 DEF Leased, AtWork, Holds
  <2> QED
    BY <2>1, <2>2, <2>3, <2>4 DEF Owns, Gone
<1>2. Inv => BeatingMeansOwned
  BY <1>1 DEF BeatingMeansOwned
<1> QED
  BY <1>2, Invariance, PTL

\* However attempts end, a task is not attempted more often than its retries and
\* its stalls allow (fail, syncLocks).
THEOREM AttemptsWithinBudgets == Spec => []AttemptsBounded
<1>1. ASSUME Inv, NEW t \in Tasks
      PROVE  task[t].attempt <= MaxRetries + MaxStalledCount + 1
  <2>1. Charged(t) /\ task[t] \in Task
    BY <1>1 DEF Inv, TypeOK
  <2>2. /\ task[t].handlerFailureCount \in Nat /\ task[t].stalledAttemptCount \in Nat
        /\ task[t].attempt \in Nat /\ MaxRetries \in Nat /\ MaxStalledCount \in Nat
        /\ task[t].list \in {"wait", "scheduled", "active", "settled"}
    BY <2>1, OptionsAssumption DEF ValidOptions, Task
  <2> QED
    BY <2>1, <2>2 DEF Charged
<1>2. Inv => AttemptsBounded
  BY <1>1 DEF AttemptsBounded
<1> QED
  BY <1>2, Invariance, PTL

-----------------------------------------------------------------------------
(* A clean drain.  Unless something happens to a request or to a result, and *)
(* unless the drain is cut short, every live lease has a slot that sees to   *)
(* it: one that was just given the task, that handles it and has not been    *)
(* told that the lease is lost, or whose report is on its way.               *)

Live(t) == task[t].list = "active" /\ task[t].lock # Gone
Calm == ~mishap /\ ~worker.forced

\* The slot whose record is k sees to t.
SeesTo(k, t) ==
    /\ k.task = t
    /\ \/ k.pc = "take" /\ k.reply = "done"
       \/ k.pc = "handle" /\ k.reply # "refused"
       \/ k.pc = "report" /\ k.asks = "report"

Attended ==
    Calm =>
        /\ \A s \in Slots : /\ slot[s].pc \notin {"died", "interrupted"}
                            /\ slot[s].reply # "failed"
        /\ worker.phase = "closed" => Empty
        /\ \A t \in Tasks : Live(t) =>
               \E s \in Slots : task[t].owner = s /\ SeesTo(slot[s], t)

\* A step of one slot: what is live afterwards is its own task, or another's as before.
LEMMA SlotAttends ==
    ASSUME Inv, Attended, UNCHANGED <<worker, mishap>>,
           NEW s \in Slots, NEW to, slot' = [slot EXCEPT ![s] = to],
           Ended(s) => to.pc = slot[s].pc,
           Calm => /\ to.pc \notin {"died", "interrupted"} /\ to.reply # "failed"
                   /\ \A t \in Tasks : Live(t)' =>
                         \/ /\ Live(t) /\ task[t].owner # s
                            /\ task'[t].owner = task[t].owner
                         \/ task'[t].owner = s /\ SeesTo(to, t)
    PROVE  Attended'
<1>1. /\ slot \in [Slots -> Slot] /\ slot'[s] = to
      /\ \A r \in Slots : r # s => slot'[r] = slot[r]
  BY DEF Inv, TypeOK
<1>2. SUFFICES ASSUME Calm
               PROVE  /\ \A r \in Slots : /\ slot'[r].pc \notin {"died", "interrupted"}
                                          /\ slot'[r].reply # "failed"
                      /\ worker.phase = "closed" => Empty'
                      /\ \A t \in Tasks : Live(t)' =>
                             \E r \in Slots : task'[t].owner = r /\ SeesTo(slot'[r], t)
  BY DEF Attended, Calm
<1>3. \A r \in Slots : slot'[r].pc \notin {"died", "interrupted"} /\ slot'[r].reply # "failed"
  BY <1>1, <1>2 DEF Attended
<1>4. worker.phase = "closed" => Empty'
  BY <1>1, <1>2 DEF Attended, Empty, Ended
<1>5. ASSUME NEW t \in Tasks, Live(t)'
      PROVE  \E r \in Slots : task'[t].owner = r /\ SeesTo(slot'[r], t)
  <2>1. CASE Live(t) /\ task[t].owner # s /\ task'[t].owner = task[t].owner
    BY <1>1, <1>2, <2>1 DEF Attended
  <2>2. CASE task'[t].owner = s /\ SeesTo(to, t)
    BY <1>1, <2>2
  <2> QED
    BY <1>2, <1>5, <2>1, <2>2
<1> QED
  BY <1>3, <1>4, <1>5

\* A slot that goes on alone must go on to see to what it saw to.
LEMMA AloneAttends ==
    ASSUME Inv, Attended, UNCHANGED <<task, worker, mishap>>,
           NEW s \in Slots, NEW to, slot' = [slot EXCEPT ![s] = to],
           Ended(s) => to.pc = slot[s].pc,
           Calm => /\ to.pc \notin {"died", "interrupted"} /\ to.reply # "failed"
                   /\ \A t \in Tasks : SeesTo(slot[s], t) => SeesTo(to, t)
    PROVE  Attended'
<1>1. Calm => \A t \in Tasks : Live(t)' =>
         \/ Live(t) /\ task[t].owner # s /\ task'[t].owner = task[t].owner
         \/ task'[t].owner = s /\ SeesTo(to, t)
  BY DEF Attended, Live
<1> QED
  BY <1>1, SlotAttends

\* A slot that sees to nothing owns no live lease.
LEMMA IdleOwnsNothing ==
    ASSUME Attended, Calm, NEW s \in Slots, \A t \in Tasks : ~SeesTo(slot[s], t),
           NEW t \in Tasks, Live(t)
    PROVE  task[t].owner # s
BY DEF Attended

\* The places of a slot at rest: nothing is asked, and no answer is left to be looked at.
LEMMA RestingRecords ==
    /\ Fresh.pc = "idle" /\ Fresh.reply = "none" /\ Fresh.asks = "nothing"
    /\ Unprocessed.pc = "sleep" /\ Unprocessed.reply = "none"
    /\ Unprocessed.asks = "nothing"
    /\ Unprocessed = [Fresh EXCEPT !.pc = "sleep", !.timer = PollInterval]
BY DEF Fresh, Unprocessed, SleepFor

\* The loop of a slot leaves no lease unattended.
LEMMA LoopAttends ==
    ASSUME Inv, Attended, NEW s \in Slots, Loop(s)
    PROVE  Attended'
<1>1. Coherent(s) /\ slot[s] \in Slot
  BY DEF Inv, TypeOK
<1>2. CASE Iterate(s)
  <2> DEFINE to == IF Accepting THEN [Fresh EXCEPT !.pc = "take", !.asks = "take"]
                   ELSE [Fresh EXCEPT !.pc = "stopped"]
  <2>1. to.pc \in {"take", "stopped"} /\ to.reply = "none"
    BY DEF Fresh
  <2>2. slot' = [slot EXCEPT ![s] = to] /\ UNCHANGED <<task, worker, mishap>>
        /\ slot[s].pc = "idle"
    BY <1>2 DEF Iterate, Goes
  <2> HIDE DEF to
  <2> QED
    BY <2>1, <2>2, AloneAttends DEF Ended, SeesTo
<1>3. CASE Taken(s)
  <2>1. slot[s].pc = "take" /\ slot[s].reply # "none" /\ UNCHANGED <<task, worker, mishap>>
    BY <1>3 DEF Taken
  <2>2. CASE slot[s].reply = "done"
    <3> DEFINE to == [slot[s] EXCEPT !.pc = "handle", !.reply = "none", !.asks = "renew"]
    <3>1. slot' = [slot EXCEPT ![s] = to]
      BY <1>3, <2>2 DEF Taken, Goes
    <3>2. to.pc = "handle" /\ to.reply = "none" /\ to.task = slot[s].task
      BY <1>1 DEF Slot
    <3> HIDE DEF to
    <3> QED
      BY <2>1, <3>1, <3>2, AloneAttends DEF Ended, SeesTo
  <2>3. CASE slot[s].reply # "done"
    <3>1. slot' = [slot EXCEPT ![s] = Unprocessed]
      BY <1>3, <2>3 DEF Taken, Goes
    <3> QED
      BY <2>1, <2>3, <3>1, RestingRecords, AloneAttends DEF Ended, SeesTo
  <2> QED
    BY <2>2, <2>3
<1>4. CASE Reported(s)
  <2>1. /\ slot[s].pc = "report" /\ slot[s].asks = "nothing"
        /\ UNCHANGED <<task, worker, mishap>>
    BY <1>1, <1>4 DEF Reported, Coherent, Slot
  <2>2. slot' = [slot EXCEPT ![s] = Fresh] \/ slot' = [slot EXCEPT ![s] = Unprocessed]
    BY <1>4 DEF Reported, Goes
  <2>3. \A t \in Tasks : ~SeesTo(slot[s], t)
    BY <2>1 DEF SeesTo
  <2>4. CASE slot' = [slot EXCEPT ![s] = Fresh]
    BY <2>1, <2>3, <2>4, RestingRecords, AloneAttends DEF Ended
  <2>5. CASE slot' = [slot EXCEPT ![s] = Unprocessed]
    BY <2>1, <2>3, <2>5, RestingRecords, AloneAttends DEF Ended
  <2> QED
    BY <2>2, <2>4, <2>5
<1>5. CASE Wake(s)
  <2>1. slot[s].pc = "sleep" /\ slot' = [slot EXCEPT ![s] = Fresh]
        /\ UNCHANGED <<task, worker, mishap>>
    BY <1>5 DEF Wake, Goes
  <2> QED
    BY <2>1, RestingRecords, AloneAttends DEF Ended, SeesTo
<1> QED
  BY <1>2, <1>3, <1>4, <1>5 DEF Loop

\* A heartbeat gives up its task only when Redis has refused it.
LEMMA HeartbeatAttends ==
    ASSUME Inv, Attended, NEW s \in Slots, Heartbeat(s)
    PROVE  Attended'
<1>1. slot[s] \in Slot
  BY DEF Inv, TypeOK
<1>2. slot[s].pc = "handle" /\ UNCHANGED <<task, worker, mishap>> /\ ~Ended(s)
  BY DEF Heartbeat, Beat, Renewed, RenewFailed, HeartbeatFails, Ended
<1>3. ASSUME NEW to, slot' = [slot EXCEPT ![s] = to],
             to.pc = "handle", to.task = slot[s].task, to.reply = "none"
      PROVE  Attended'
  <2>1. \A t \in Tasks : SeesTo(slot[s], t) => SeesTo(to, t)
    BY <1>2, <1>3 DEF SeesTo
  <2> QED
    BY <1>2, <1>3, <2>1, AloneAttends
<1>4. CASE Beat(s)
  <2> DEFINE to == [slot[s] EXCEPT !.asks = "renew"]
  <2>1. slot' = [slot EXCEPT ![s] = to]
    BY <1>1, <1>4 DEF Beat
  <2>2. to.pc = "handle" /\ to.task = slot[s].task /\ to.reply = "none"
    BY <1>1, <1>4 DEF Beat, Slot
  <2> HIDE DEF to
  <2> QED
    BY <1>3, <2>1, <2>2
<1>5. CASE Renewed(s)
  <2>1. slot' = [slot EXCEPT ![s] = Spaced(s)]
    BY <1>5 DEF Renewed, Goes
  <2>2. Spaced(s).pc = "handle" /\ Spaced(s).task = slot[s].task /\ Spaced(s).reply = "none"
    BY <1>1, <1>2 DEF Spaced, Slot
  <2> QED
    BY <1>3, <2>1, <2>2
<1>6. CASE RenewFailed(s)
  <2> DEFINE to == [slot[s] EXCEPT !.reply = "none", !.timer = RetryDelay, !.tries = @ + 1]
  <2>1. slot' = [slot EXCEPT ![s] = to]
    BY <1>6 DEF RenewFailed, Goes
  <2>2. to.pc = "handle" /\ to.task = slot[s].task /\ to.reply = "none"
    BY <1>1, <1>2 DEF Slot
  <2> HIDE DEF to
  <2> QED
    BY <1>3, <2>1, <2>2
<1>7. CASE HeartbeatFails(s)
  <2>1. slot' = [slot EXCEPT ![s] = Unprocessed]
    BY <1>7 DEF HeartbeatFails, GiveUp, Goes
  <2>2. Calm => slot[s].reply = "refused"
    BY <1>7 DEF HeartbeatFails, Attended
  <2>3. Calm => \A t \in Tasks : ~SeesTo(slot[s], t)
    BY <1>2, <2>2 DEF SeesTo
  <2> QED
    BY <1>2, <2>1, <2>3, RestingRecords, AloneAttends
<1> QED
  BY <1>4, <1>5, <1>6, <1>7 DEF Heartbeat

\* What a renewal on its way does to the leases: nothing to their owners, and
\* none comes to life that was not.
LEMMA ExtendedLive ==
    ASSUME Inv, NEW s \in Slots, slot[s].asks = "renew" \/ slot[s].pc = "handle",
           task' = Extended(s), NEW t \in Tasks
    PROVE  task'[t].owner = task[t].owner /\ (Live(t)' => Live(t))
<1> DEFINE u == slot[s].task
           k == [task[u] EXCEPT !.lock = LockTimeout]
<1>1. u \in Tasks /\ task \in [Tasks -> Task] /\ task[u] \in Task
  BY DEF Inv, Coherent, TypeOK
<1>2. /\ Owns(s, u) => Extended(s) = [task EXCEPT ![u] = k]
      /\ ~Owns(s, u) => Extended(s) = task
  BY <1>1, ExtendedFacts
<1>3. CASE ~Owns(s, u)
  BY <1>2, <1>3 DEF Live
<1>4. CASE Owns(s, u)
  <2>1. task' = [task EXCEPT ![u] = k]
    BY <1>2, <1>4
  <2>2. k.owner = task[u].owner /\ k.list = task[u].list
    BY <1>1 DEF Task
  <2> HIDE DEF k, u
  <2>3. task'[t] = IF t = u THEN k ELSE task[t]
    BY <1>1, <2>1
  <2> QED
    BY <1>4, <2>2, <2>3 DEF Live, Owns
<1> QED
  BY <1>3, <1>4

\* A handler that has ended goes on to its report.
LEMMA HandlerAttends ==
    ASSUME Inv, Attended, NEW s \in Slots, Handler(s)
    PROVE  Attended'
<1>1. CASE Unreported(s) \/ Dies(s)
  <2>1. mishap'
    BY <1>1 DEF Unreported, Dies
  <2> QED
    BY <2>1 DEF Attended, Calm
<1>2. CASE Succeeds(s) \/ Fails(s)
  <2>1. PICK what \in {"success", "retry", "failure"} :
          HandlerEnds(s, Reports(s, what)) /\ UNCHANGED mishap
    BY <1>2 DEF Succeeds, Fails
  <2> DEFINE to == Reports(s, what)
  <2>2. slot[s].pc = "handle" /\ slot' = [slot EXCEPT ![s] = to] /\ UNCHANGED worker
        /\ (UNCHANGED task \/ task' = Extended(s))
    BY <2>1 DEF HandlerEnds, Goes
  <2>3. to.pc = "report" /\ to.asks = "report" /\ to.task = slot[s].task /\ to.reply = "none"
    BY DEF Reports, Fresh
  <2> HIDE DEF to
  <2>4. ASSUME NEW t \in Tasks, Live(t)'
        PROVE  Live(t) /\ task'[t].owner = task[t].owner
    BY <2>2, <2>4, ExtendedLive DEF Live
  <2>5. \A t \in Tasks : SeesTo(slot[s], t) => SeesTo(to, t)
    BY <2>3 DEF SeesTo
  <2>6. Calm => \A t \in Tasks : Live(t)' =>
                   \/ Live(t) /\ task[t].owner # s /\ task'[t].owner = task[t].owner
                   \/ task'[t].owner = s /\ SeesTo(to, t)
    BY <2>4, <2>5 DEF Attended
  <2>7. ~Ended(s)
    BY <2>2 DEF Ended
  <2> QED
    BY <2>1, <2>2, <2>3, <2>6, <2>7, SlotAttends
<1> QED
  BY <1>1, <1>2 DEF Handler

\* An answer changes nothing of a slot but its request and its reply.
LEMMA ToldRecord ==
    ASSUME Inv, NEW s \in Slots, NEW reply \in {"none", "done", "empty", "refused", "failed"}
    PROVE  /\ Told(s, reply).pc = slot[s].pc /\ Told(s, reply).task = slot[s].task
           /\ Told(s, reply).asks = "nothing"
           /\ Told(s, reply).reply = IF Ended(s) THEN "none" ELSE reply
           /\ Told(s, reply) \in Slot
<1> DEFINE r == IF Ended(s) THEN "none" ELSE reply
<1>1. slot[s] \in Slot
  BY DEF Inv, TypeOK
<1>2. Told(s, reply) \in Slot
      /\ Told(s, reply) = [slot[s] EXCEPT !.asks = "nothing", !.reply = r]
  BY <1>1, ToldTyped
<1> HIDE DEF r
<1>3. /\ Told(s, reply).pc = slot[s].pc /\ Told(s, reply).task = slot[s].task
      /\ Told(s, reply).asks = "nothing" /\ Told(s, reply).reply = r
  BY <1>1, <1>2 DEF Slot
<1> QED
  BY <1>2, <1>3 DEF r

\* What runs in Redis gives a task to a slot that looks after it, or takes it away.
LEMMA RedisAttends ==
    ASSUME Inv, Attended, NEW s \in Slots, Redis(s)
    PROVE  Attended'
<1>1. Coherent(s) /\ slot[s] \in Slot /\ task \in [Tasks -> Task]
      /\ UNCHANGED <<worker, mishap>>
  BY DEF Inv, TypeOK, Redis, TakeTask, TakeNothing, ExtendLock, Write
<1>3. CASE TakeTask(s)
  <2>1. PICK t \in Tasks :
          /\ task' = [task EXCEPT ![t] = [task[t] EXCEPT
                !.list = "active", !.owner = s, !.lock = LockTimeout, !.attempt = @ + 1]]
          /\ slot' = [slot EXCEPT ![s] = [Told(s, "done") EXCEPT
                !.task = t, !.failures = task[t].handlerFailureCount]]
    BY <1>3 DEF TakeTask
  <2> DEFINE to == [Told(s, "done") EXCEPT
                      !.task = t, !.failures = task[t].handlerFailureCount]
             k == [task[t] EXCEPT
                !.list = "active", !.owner = s, !.lock = LockTimeout, !.attempt = @ + 1]
  <2>2. slot[s].asks = "take" /\ slot[s].reply = "none"
        /\ slot[s].pc \in {"take", "interrupted"}
    BY <1>1, <1>3 DEF TakeTask, Coherent
  <2>3. to.pc = slot[s].pc /\ to.task = t
        /\ to.reply = IF Ended(s) THEN "none" ELSE "done"
    <3>1. Told(s, "done") \in Slot /\ Told(s, "done").pc = slot[s].pc
          /\ Told(s, "done").reply = IF Ended(s) THEN "none" ELSE "done"
      BY ToldRecord
    <3> QED
      BY <3>1 DEF Slot
  <2>4. k.owner = s
    BY <1>1 DEF Task
  <2> HIDE DEF to, k
  <2>5. task'[t] = k /\ \A u \in Tasks : u # t => task'[u] = task[u]
    BY <1>1, <2>1 DEF k
  <2>6. \A u \in Tasks : ~SeesTo(slot[s], u)
    BY <2>2 DEF SeesTo
  <2>7. ASSUME Calm
        PROVE  /\ to.pc \notin {"died", "interrupted"} /\ to.reply # "failed"
               /\ \A u \in Tasks : Live(u)' =>
                     \/ /\ Live(u) /\ task[u].owner # s
                        /\ task'[u].owner = task[u].owner
                     \/ task'[u].owner = s /\ SeesTo(to, u)
    <3>1. slot[s].pc = "take" /\ to.reply = "done" /\ to.pc = "take"
      BY <2>2, <2>3, <2>7 DEF Attended, Ended
    <3>2. ASSUME NEW u \in Tasks, Live(u)'
          PROVE  \/ Live(u) /\ task[u].owner # s /\ task'[u].owner = task[u].owner
                 \/ task'[u].owner = s /\ SeesTo(to, u)
      <4>1. CASE u = t
        BY <2>3, <2>4, <2>5, <3>1, <4>1 DEF SeesTo
      <4>2. CASE u # t
        <5>1. task'[u] = task[u] /\ Live(u)
          BY <2>5, <3>2, <4>2 DEF Live
        <5> QED
          BY <2>6, <2>7, <5>1, IdleOwnsNothing
      <4> QED
        BY <4>1, <4>2
    <3> QED
      BY <3>1, <3>2
  <2>8. slot' = [slot EXCEPT ![s] = to]
    BY <2>1 DEF to
  <2> QED
    BY <1>1, <2>3, <2>7, <2>8, SlotAttends
<1>4. CASE TakeNothing(s)
  <2> DEFINE to == Told(s, "empty")
  <2>1. slot' = [slot EXCEPT ![s] = to] /\ UNCHANGED task /\ slot[s].asks = "take"
    BY <1>4 DEF TakeNothing, Answered
  <2>2. slot[s].pc \in {"take", "interrupted"} /\ slot[s].reply = "none"
    BY <1>1, <2>1 DEF Coherent
  <2>3. to.pc = slot[s].pc /\ to.reply # "failed"
    BY ToldRecord
  <2> HIDE DEF to
  <2>4. \A t \in Tasks : ~SeesTo(slot[s], t)
    BY <2>1, <2>2 DEF SeesTo
  <2> QED
    BY <1>1, <2>1, <2>3, <2>4, AloneAttends DEF Attended
<1>5. CASE ExtendLock(s)
  <2> DEFINE u == slot[s].task
             reply == IF Owns(s, u) THEN "done" ELSE "refused"
             to == Told(s, reply)
  <2>1. slot' = [slot EXCEPT ![s] = to] /\ task' = Extended(s) /\ slot[s].asks = "renew"
    BY <1>5 DEF ExtendLock, Answered
  <2>2. slot[s].pc \in {"handle", "interrupted"} /\ u \in Tasks
    BY <1>1, <2>1 DEF Coherent
  <2>3. to.pc = slot[s].pc /\ to.task = u /\ to.reply \in {"none", reply}
    BY ToldRecord
  <2>4. reply \in {"done", "refused"} /\ (reply = "refused" <=> ~Owns(s, u))
    OBVIOUS
  <2> HIDE DEF to, u, reply
  <2>5. ASSUME Calm, NEW t \in Tasks, Live(t)'
        PROVE  \/ Live(t) /\ task[t].owner # s /\ task'[t].owner = task[t].owner
               \/ task'[t].owner = s /\ SeesTo(to, t)
    <3>1. Live(t) /\ task'[t].owner = task[t].owner
      BY <2>1, <2>5, ExtendedLive
    <3>2. CASE task[t].owner = s
      <4>1. SeesTo(slot[s], t)
        BY <2>5, <3>1, <3>2 DEF Attended
      <4>2. t = u /\ Owns(s, u) /\ slot[s].pc = "handle"
        BY <2>2, <2>5, <3>1, <3>2, <4>1 DEF SeesTo, Owns, Live, u, Attended
      <4> QED
        BY <2>3, <2>4, <3>1, <3>2, <4>2 DEF SeesTo
    <3> QED
      BY <3>1, <3>2
  <2>6. Calm => to.pc \notin {"died", "interrupted"} /\ to.reply # "failed"
    BY <2>3, <2>4 DEF Attended
  <2> QED
    BY <1>1, <2>1, <2>3, <2>5, <2>6, SlotAttends
<1>6. CASE Write(s)
  <2> DEFINE u == slot[s].task
  <2>1. slot[s].asks = "report" /\ u \in Tasks /\ slot[s].pc \in {"report", "interrupted"}
    BY <1>1, <1>6 DEF Write, Coherent
  <2>2. PICK reply \in {"done", "refused"} :
          /\ slot' = [slot EXCEPT ![s] = Told(s, reply)]
          /\ \/ Owns(s, u) /\ \E r \in Outcome(s, u) : task' = [task EXCEPT ![u] = r]
             \/ ~Owns(s, u) /\ UNCHANGED task
    BY <1>6, Zenon DEF Write, Answered
  <2> DEFINE to == Told(s, reply)
  <2>3. to.pc = slot[s].pc /\ to.reply # "failed"
    BY ToldRecord
  <2> HIDE DEF to, u
  <2>4. ASSUME Calm, NEW t \in Tasks, Live(t)'
        PROVE  Live(t) /\ task[t].owner # s /\ task'[t].owner = task[t].owner
    <3>1. CASE Owns(s, u)
      <4>1. PICK r \in Outcome(s, u) : task' = [task EXCEPT ![u] = r]
        BY <2>2, <3>1
      <4>2. r.list # "active"
        BY <1>1, <2>1, <4>1 DEF Outcome, Unowned, Task
      <4>3. t # u /\ task'[t] = task[t]
        BY <1>1, <2>1, <2>4, <4>1, <4>2 DEF Live
      <4>4. Live(t)
        BY <2>4, <4>3 DEF Live
      <4>5. ~SeesTo(slot[s], t)
        BY <4>3 DEF SeesTo, u
      <4> QED
        BY <2>4, <4>3, <4>4, <4>5 DEF Attended
    <3>2. CASE ~Owns(s, u)
      <4>1. UNCHANGED task /\ Live(t)
        BY <2>2, <2>4, <3>2 DEF Live
      <4>2. task[t].owner # s
        BY <2>4, <3>2, <4>1 DEF Attended, SeesTo, Owns, Live, u
      <4> QED
        BY <4>1, <4>2
    <3> QED
      BY <3>1, <3>2
  <2>5. slot' = [slot EXCEPT ![s] = to]
    BY <2>2 DEF to
  <2> QED
    BY <1>1, <2>3, <2>4, <2>5, SlotAttends DEF Attended
<1> QED
  BY <1>3, <1>4, <1>5, <1>6 DEF Redis

\* A step that leaves the slots alone, and brings no lease to life.
LEMMA OthersAttend ==
    ASSUME Attended, UNCHANGED slot, mishap' = mishap, worker'.forced = worker.forced,
           worker'.phase = "closed" => worker.phase = "closed" \/ Empty,
           \A t \in Tasks : Live(t)' => Live(t) /\ task'[t].owner = task[t].owner
    PROVE  Attended'
<1>1. Empty' <=> Empty
  BY DEF Empty, Ended
<1> QED
  BY <1>1 DEF Attended, Calm

\* Sweeps give no task to anybody.
LEMMA SweepAttends ==
    ASSUME Inv, Attended, NEW t \in Tasks, Stall(t) \/ Promote(t)
    PROVE  Attended'
<1>1. task \in [Tasks -> Task] /\ task[t] \in Task
  BY DEF Inv, TypeOK
<1>2. UNCHANGED <<slot, worker, mishap>> /\ ~Live(t)
  BY DEF Stall, Promote, Live
<1>3. PICK k : task' = [task EXCEPT ![t] = k] /\ (k.list # "active" \/ k.lock = Gone)
  <2>1. CASE Stall(t)
    <3> DEFINE list == IF task[t].stalledAttemptCount + 1 <= MaxStalledCount
                       THEN "wait" ELSE "settled"
               k == [Unowned(t, list) EXCEPT !.stalledAttemptCount = @ + 1]
    <3>1. task' = [task EXCEPT ![t] = k]
      BY <2>1 DEF Stall
    <3>2. k.list = list
      BY <1>1 DEF Unowned, Task
    <3> HIDE DEF k
    <3> QED
      BY <3>1, <3>2
  <2>2. CASE Promote(t)
    <3> DEFINE k == [task[t] EXCEPT !.list = "wait"]
    <3>1. task' = [task EXCEPT ![t] = k] /\ k.list = "wait"
      BY <1>1, <2>2 DEF Promote, Task
    <3> HIDE DEF k
    <3> QED
      BY <3>1
  <2> QED
    BY <2>1, <2>2
<1>4. task'[t] = k /\ \A u \in Tasks : u # t => task'[u] = task[u]
  BY <1>1, <1>3
<1>5. \A u \in Tasks : Live(u)' => Live(u) /\ task'[u].owner = task[u].owner
  BY <1>3, <1>4 DEF Live
<1> QED
  BY <1>2, <1>5, OthersAttend

\* Time gives no task to anybody.
LEMMA TickAttends ==
    ASSUME Inv, Attended, Tick
    PROVE  Attended'
<1>1. /\ slot \in [Slots -> Slot] /\ task \in [Tasks -> Task] /\ worker \in Worker
  BY DEF Inv, TypeOK
<1>2. worker'.forced = worker.forced /\ worker'.phase = worker.phase /\ mishap' = mishap
  BY <1>1 DEF Tick, Worker
<1>3. ASSUME NEW t \in Tasks, Live(t)'
      PROVE  Live(t) /\ task'[t].owner = task[t].owner
  <2> DEFINE n == Down(task[t].lock, Gone)
  <2>1. task'[t] = [task[t] EXCEPT !.lock = n]
    BY DEF Tick
  <2> HIDE DEF n
  <2>2. task'[t].owner = task[t].owner /\ task'[t].list = task[t].list /\ task'[t].lock = n
    BY <1>1, <2>1 DEF Task
  <2>3. task[t].lock = Gone => n = Gone
    BY DEF n, Down, Gone
  <2> QED
    BY <1>3, <2>2, <2>3 DEF Live
<1>4. ASSUME NEW s \in Slots
      PROVE  /\ slot'[s].pc = slot[s].pc /\ slot'[s].task = slot[s].task
             /\ slot'[s].reply = slot[s].reply /\ slot'[s].asks = slot[s].asks
  <2> DEFINE n == Down(slot[s].timer, 0)
  <2>1. slot'[s] = [slot[s] EXCEPT !.timer = n]
    BY DEF Tick
  <2> HIDE DEF n
  <2> QED
    BY <1>1, <2>1 DEF Slot
<1>5. Empty' <=> Empty
  BY <1>4 DEF Empty, Ended
<1>6. \A s \in Slots, t \in Tasks : SeesTo(slot[s], t) => SeesTo(slot'[s], t)
  BY <1>4 DEF SeesTo
<1>7. SUFFICES ASSUME Calm
               PROVE  /\ \A s \in Slots : /\ slot'[s].pc \notin {"died", "interrupted"}
                                          /\ slot'[s].reply # "failed"
                      /\ worker.phase = "closed" => Empty'
                      /\ \A t \in Tasks : Live(t)' =>
                             \E s \in Slots : task'[t].owner = s /\ SeesTo(slot'[s], t)
  BY <1>2 DEF Attended, Calm
<1>8. ASSUME NEW t \in Tasks, Live(t)'
      PROVE  \E s \in Slots : task'[t].owner = s /\ SeesTo(slot'[s], t)
  BY <1>3, <1>6, <1>7, <1>8 DEF Attended
<1> QED
  BY <1>4, <1>5, <1>7, <1>8 DEF Attended

\* A shutdown leaves a task behind only by a mishap.
LEMMA ProcessAttends ==
    ASSUME Inv, Attended, Stop \/ Drained \/ Interrupt
    PROVE  Attended'
<1>1. worker \in Worker
  BY DEF Inv, TypeOK
<1>2. CASE Stop
  <2>1. worker'.forced = worker.forced /\ worker'.phase = "draining"
        /\ UNCHANGED <<task, slot, mishap>>
    BY <1>1, <1>2 DEF Stop, Worker
  <2> QED
    BY <2>1, OthersAttend DEF Live
<1>3. CASE Drained
  <2>1. worker'.forced = worker.forced /\ Empty /\ UNCHANGED <<task, slot, mishap>>
    BY <1>1, <1>3 DEF Drained, Worker
  <2> QED
    BY <2>1, OthersAttend DEF Live
<1>4. CASE Interrupt
  <2>1. worker'.forced
    BY <1>1, <1>4 DEF Interrupt, Worker
  <2> QED
    BY <2>1 DEF Attended, Calm
<1> QED
  BY <1>2, <1>3, <1>4

\* At the beginning there is nothing to attend to.
LEMMA InitAttended == Init => Attended
<1> SUFFICES ASSUME Init PROVE Attended
  OBVIOUS
<1>1. \A s \in Slots : slot[s] = Fresh
  BY DEF Init
<1>2. \A t \in Tasks : ~Live(t)
  BY DEF Init, Live
<1>3. worker.phase = "running"
  BY DEF Init
<1> QED
  BY <1>1, <1>2, <1>3, RestingRecords DEF Attended

\* Every step leaves every lease attended.
LEMMA NextAttended == Inv /\ Attended /\ [Next]_vars => Attended'
<1> SUFFICES ASSUME Inv, Attended, [Next]_vars PROVE Attended'
  OBVIOUS
<1>1. ASSUME NEW s \in Slots, Redis(s) \/ Heartbeat(s) \/ Handler(s) \/ Loop(s)
      PROVE  Attended'
  BY <1>1, RedisAttends, HeartbeatAttends, HandlerAttends, LoopAttends
<1>2. ASSUME NEW s \in Slots, Lose(s)
      PROVE  Attended'
  <2>1. mishap'
    BY <1>2 DEF Lose
  <2> QED
    BY <2>1 DEF Attended, Calm
<1>3. ASSUME NEW t \in Tasks, Stall(t) \/ Promote(t)
      PROVE  Attended'
  BY <1>3, SweepAttends
<1>4. CASE Stop \/ Drained \/ Interrupt \/ Tick
  BY <1>4, ProcessAttends, TickAttends
<1>5. CASE UNCHANGED vars
  BY <1>5, OthersAttend DEF vars, Live
<1> QED
  BY <1>1, <1>2, <1>3, <1>4, <1>5 DEF Next

\* Unless something happens to a request or to a result, and unless the drain is
\* cut short, every live lease has a slot that sees to it, whenever the worker is
\* stopped and whatever its slots were about to do (Worker.ts run, completeOne).
THEOREM LeasesAreAttended == Spec => []Attended
<1>1. Inv /\ Attended /\ [Next]_vars => (Inv /\ Attended)'
  BY InvNext, NextAttended
<1>2. Init => Inv /\ Attended
  BY InvInit, InitAttended
<1> QED
  BY <1>1, <1>2, PTL DEF Spec

\* A worker that drained in time leaves no live lease behind (run's finalizer).
THEOREM DrainIsClean == Spec => []CleanDrain
<1>1. Attended => CleanDrain
  <2> SUFFICES ASSUME Attended, worker.phase = "closed", ~worker.forced, ~mishap,
                      NEW t \in Tasks, Live(t)
               PROVE  FALSE
    BY DEF CleanDrain, Live
  <2>1. PICK s \in Slots : SeesTo(slot[s], t)
    BY DEF Attended, Calm
  <2>2. Ended(s)
    BY DEF Attended, Calm, Empty
  <2> QED
    BY <2>1, <2>2 DEF SeesTo, Ended
<1> QED
  BY <1>1, LeasesAreAttended, PTL
================================================================================
