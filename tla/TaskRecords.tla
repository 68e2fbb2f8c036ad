---------------------------- MODULE TaskRecords ----------------------------
(***************************************************************************)
(* What the TypeScript side writes into a task record and makes of it when *)
(* it reads it back: definitions and their validation (Task.ts,            *)
(* TaskInvariant.ts), the options and layers an offer passes (TaskQueue.ts,*)
(* TaskEngine.ts, taskEngine.lua, EngineRecord.ts), decoding for a handler *)
(* (TaskRecord.ts) and the retry decision, which is replayed from the      *)
(* errors the record has kept (TaskQueue.ts, RetrySchedule.ts).  Workers   *)
(* of several deployments of the same task share its queue, and any of     *)
(* them may read the events that are published on its stream.              *)
(*                                                                         *)
(* One task, one generation.  Time is left out: leases lapse, and retries  *)
(* become due, at any moment.                                              *)
(***************************************************************************)
EXTENDS Integers, SequencesExt, StorageProtocol

CONSTANTS
    Workers,
    Deployed,             \* [Workers -> configurations], what each one runs
    Offers,               \* offers: a configuration given to Task.make, options and a payload
    Failures,             \* leaf kinds that a handler fails with
    Results,              \* values that a handler succeeds with
    DefaultMaxRetries,    \* DEFAULT_MAX_RETRIES, 5 in the code
    DefaultErrorEntries,  \* defaultStorageLimits.maxErrorEntries, 100 in the code
    MaxAttempts           \* bound: attempts taken

VARIABLES
    offer,     \* the offer made, with what became of it
    record,    \* the task's hash in Redis
    running,   \* the attempt each worker's handler runs, as decoded for it
    event,     \* the newest event of the stream that carries values
    history,   \* every failure the record was charged with (for the properties)
    reported   \* the last report applied, as it was meant (for the properties)

vars == <<offer, record, running, event, history, reported>>

-----------------------------------------------------------------------------
\* JavaScript numbers, by what the checks tell apart.

Whole(i) == [is |-> "integer", at |-> i]
Half == [is |-> "fraction", at |-> 0]
NaN == [is |-> "nan", at |-> 0]
Unsafe == [is |-> "unsafe", at |-> 10]
Infinite == [is |-> "infinite", at |-> 10]
Unset == [is |-> "unset", at |-> 0]

Safe(x) == x.is \in {"integer", "fraction"}
Below(x, least) == x.is # "nan" /\ x.at < least

\* The number fields of a record; "retention" stands for each of the five
\* retentions and maxRelationships, which have the same checks.
Fields == {"delay", "maxRetries", "maxStalledCount", "maxErrorEntries", "maxEventEntries",
           "maxHistoryEntries", "retention"}
Limits == {"maxErrorEntries", "maxEventEntries", "maxHistoryEntries", "retention"}

-----------------------------------------------------------------------------
\* Task.make: a configuration becomes a definition.

NoRetry == [delays |-> <<>>, stops |-> {}, dies |-> {}, times |-> -1]

DefaultLimits == [maxErrorEntries |-> Whole(DefaultErrorEntries), maxEventEntries |-> Whole(2),
                  maxHistoryEntries |-> Unset, retention |-> Whole(1)]

Make(c) ==
    [schemaId |-> c.schemaId,
     retry |-> c.retry,
     maxRetries |-> CASE c.maxRetries = Unset -> Whole(DefaultMaxRetries)
                      [] c.maxRetries.is = "null" -> Infinite
                      [] OTHER -> c.maxRetries,
     limits |-> [f \in Limits |-> IF f \in DOMAIN c.limits THEN c.limits[f] ELSE DefaultLimits[f]]]

\* TaskInvariant.validate, at the first use of a definition.
DefinitionValid(d) ==
    /\ d.maxRetries # Infinite => d.maxRetries.is = "integer" /\ ~Below(d.maxRetries, 0)
    /\ \A f \in Limits :
         \/ f = "maxHistoryEntries" /\ d.limits[f] = Unset
         \/ /\ d.limits[f].is = "integer"
            /\ ~Below(d.limits[f], IF f \in {"maxEventEntries", "maxHistoryEntries"} THEN 1 ELSE 0)

(***************************************************************************)
(* buildFromOptions and the steps of the schedule it builds: the base      *)
(* schedule is asked first, then the while and until predicates (which may *)
(* throw), then the number of times.                                       *)
(***************************************************************************)
Step(retry, i, failure) ==
    IF i > Len(retry.delays) THEN "done"
    ELSE IF failure \in retry.dies THEN "dies"
    ELSE IF failure \in retry.stops \/ i > retry.times THEN "done"
    ELSE retry.delays[i]

\* nextRunAt: the schedule is stepped through all failures; a time that is
\* no safe number ends it as a schedule that is done does.
NextRunAt(retry, failures) ==
    LET ends == {i \in DOMAIN failures : Step(retry, i, failures[i]) # "later"}
    IN  IF ends = {} THEN "retry"
        ELSE IF Step(retry, Min(ends), failures[Min(ends)]) = "dies" THEN "dies" ELSE "undefined"

-----------------------------------------------------------------------------
\* The layers an offer passes.

OptionsValid(o) ==
    /\ Safe(o.delay) /\ ~Below(o.delay, 0)
    /\ \A x \in {o.maxRetries, o.maxStalledCount} : x # Unset => x.is = "integer" /\ ~Below(x, 0)

Given(d, o) ==
    [f \in Fields |->
        CASE f \in Limits -> d.limits[f]
          [] f = "delay" -> o.delay
          [] f = "maxRetries" -> IF o.maxRetries = Unset THEN Whole(-1) ELSE o.maxRetries
          [] OTHER -> IF o.maxStalledCount = Unset THEN Whole(1) ELSE o.maxStalledCount]

LeastValue(f) == CASE f = "maxRetries" -> -1 [] f = "maxEventEntries" -> 1 [] OTHER -> 0

\* offerTask of the engine client; no history limit is sent as 0.
EngineAccepts(numbers) ==
    /\ numbers.maxHistoryEntries # Unset =>
         numbers.maxHistoryEntries.is = "integer" /\ ~Below(numbers.maxHistoryEntries, 1)
    /\ \A f \in Fields \ {"maxHistoryEntries"} :
         /\ Safe(numbers[f]) /\ ~Below(numbers[f], LeastValue(f))
         /\ f # "delay" => numbers[f].is = "integer"

Sent(numbers) == [numbers EXCEPT !.maxHistoryEntries = IF @ = Unset THEN Whole(0) ELSE @]

\* effectmq_createTask
ScriptAccepts(numbers) ==
    /\ Safe(numbers.delay) /\ ~Below(numbers.delay, 0)
    /\ \A f \in Fields \ {"delay"} : numbers[f].is = "integer" /\ ~Below(numbers[f], LeastValue(f))

\* mutant: the record schema reads every number as an integer
Readable_WholeDelay(numbers) == \A f \in Fields : numbers[f].is = "integer"

\* EngineTaskSchema: parseTask can read the record back.
Readable(numbers) ==
    /\ Safe(numbers.delay)
    /\ \A f \in Fields \ {"delay"} : numbers[f].is = "integer"

NoEvent == [tag |-> "none"]
NoRecord == [state |-> "none"]

NewRecord(d, numbers, payload) ==
    [state |-> "waiting", schemaId |-> d.schemaId, payload |-> payload, numbers |-> numbers,
     errors |-> <<>>, handlerFailureCount |-> 0, stalledAttemptCount |-> 0, attempt |-> 0,
     success |-> Unset]

\* offer: the task is created, or the first layer to object names the error.
Offered(d, o, v) ==
    LET payload == Encode(d.schemaId, "payload", v)
        numbers == Given(d, o)
    IN  CASE ~DefinitionValid(d) -> [result |-> "dies", record |-> NoRecord]
          [] ~OptionsValid(o) -> [result |-> "TaskOptionsError", record |-> NoRecord]
          [] Failed(payload) -> [result |-> payload.error, record |-> NoRecord]
          [] ~EngineAccepts(numbers) -> [result |-> "InvalidInput", record |-> NoRecord]
          [] ~ScriptAccepts(Sent(numbers)) -> [result |-> "ScriptFailure", record |-> NoRecord]
          [] OTHER -> [result |-> "created", record |-> NewRecord(d, Sent(numbers), payload)]

Offer(o) ==
    /\ offer = [result |-> "none"]
    /\ LET offered == Offered(Make(o.by), o.options, o.value)
       IN  /\ offer' = [result |-> offered.result, given |-> o]
           /\ record' = offered.record
           /\ event' = IF offered.result = "created"
                       THEN [tag |-> "task.created", value |-> offered.record] ELSE NoEvent
    /\ UNCHANGED <<running, history, reported>>

-----------------------------------------------------------------------------
\* Attempts.

Idle == [attempt |-> 0]
Definition(w) == Make(Deployed[w])

Stalled == [kind |-> "stalled"]

\* The tags of StorageProtocol.builtInErrorTags; an envelope has none of them.
HasBuiltInErrorTag(e) == e.kind \in BuiltIn \cup {"stalled"}

\* decodeTask: built-in errors are passed through, all others are envelopes.
DecodedError(schemaId, e) == IF HasBuiltInErrorTag(e) THEN e ELSE Decode(e, schemaId, "failure")
DecodedErrors(schemaId, errors) == [i \in DOMAIN errors |-> DecodedError(schemaId, errors[i])]

Decodable(d, r) ==
    /\ Readable(r.numbers)
    /\ r.schemaId = d.schemaId
    /\ \A i \in DOMAIN r.errors : ~Failed(DecodedErrors(d.schemaId, r.errors)[i])
    /\ ~Failed(Decode(r.payload, d.schemaId, "payload"))

Decoded(d, r) ==
    [attempt |-> r.attempt, payload |-> Decode(r.payload, d.schemaId, "payload"),
     errors |-> DecodedErrors(d.schemaId, r.errors), maxRetries |-> r.numbers.maxRetries,
     handlerFailureCount |-> r.handlerFailureCount, seen |-> Len(history)]

\* takeAvailable: the lease is taken before the record is decoded.  A worker
\* that cannot decode it fails without a handler or a report.
Take(w) ==
    /\ running[w] = Idle /\ record.state = "waiting" /\ record.attempt < MaxAttempts
    /\ record' = [record EXCEPT !.state = "leased", !.attempt = @ + 1]
    /\ running' = [running EXCEPT ![w] =
                     IF Decodable(Definition(w), record') THEN Decoded(Definition(w), record') ELSE Idle]
    /\ UNCHANGED <<offer, event, history, reported>>

(***************************************************************************)
(* streamEffect: what a reader with definition d makes of an event.  The   *)
(* record of task.created is decoded like a worker's, and task.updated is  *)
(* the same with two records; a value that cannot be decoded ends the      *)
(* stream.                                                                 *)
(***************************************************************************)
DecodedEvent(d, e) ==
    CASE e.tag = "task.created" -> IF Decodable(d, e.value) THEN Decoded(d, e.value) ELSE Mismatch
      [] e.tag = "task.failed" -> DecodedError(d.schemaId, e.value)
      [] e.tag = "task.completed" -> Decode(e.value, d.schemaId, "success")

\* appendTaskError: the oldest entries make room for the new one.
Appended_NewestOut(errors, room, x) ==
    IF room = 0 THEN <<>> ELSE Append(SubSeq(errors, 1, Min({Len(errors), room - 1})), x)

Appended(errors, room, x) ==
    IF room = 0 THEN <<>>
    ELSE Append(SubSeq(errors, Max({1, Len(errors) - room + 2}), Len(errors)), x)

Charged(x, counter, state) ==
    /\ record' = [record EXCEPT ![counter] = @ + 1, !.state = state,
                    !.errors = Appended(@, record.numbers.maxErrorEntries.at, x)]
    /\ event' = [tag |-> "task.failed", value |-> x]
    /\ history' = Append(history, x)

\* syncLocks and failTask: the lease has lapsed.
Stall ==
    /\ record.state = "leased"
    /\ Charged(Stalled, "stalledAttemptCount",
               IF record.stalledAttemptCount + 1 > record.numbers.maxStalledCount.at
               THEN "failed" ELSE "waiting")
    /\ UNCHANGED <<offer, running, reported>>

Owns(w) == record.state = "leased" /\ record.attempt = running[w].attempt

\* The worker dies, or is interrupted, with its handler.
Die(w) ==
    /\ running[w] # Idle
    /\ running' = [running EXCEPT ![w] = Idle]
    /\ UNCHANGED <<offer, record, event, history, reported>>

\* succeed: a value that cannot be stored, or a lease that is lost, is not reported.
Succeed(w, v) ==
    /\ running[w] # Idle
    /\ running' = [running EXCEPT ![w] = Idle]
    /\ LET success == Encode(Definition(w).schemaId, "success", v)
       IN  IF Failed(success) \/ ~Owns(w) THEN UNCHANGED <<record, event, reported>>
           ELSE /\ record' = [record EXCEPT !.state = "succeeded", !.success = success]
                /\ event' = [tag |-> "task.completed", value |-> success]
                /\ reported' = [as |-> "success", value |-> v]
    /\ UNCHANGED <<offer, history>>

HandlerErrors(task) == SelectSeq(task.errors, LAMBDA e : ~HasBuiltInErrorTag(e))

CanRetry(d, task, e) ==
    /\ d.retry # NoRetry
    /\ task.handlerFailureCount <
         (IF task.maxRetries # Whole(-1) THEN task.maxRetries ELSE d.maxRetries).at
    /\ ~HasBuiltInErrorTag([kind |-> e])

\* mutant: the replay trusts whatever errors the record has kept
Truncated_Never(task) == FALSE

Truncated(task) == Len(HandlerErrors(task)) < task.handlerFailureCount

\* fail: a retry policy that cannot be evaluated ends the task.
RetryDecision(d, task, e) ==
    IF ~CanRetry(d, task, e) THEN "undefined"
    ELSE IF Truncated(task) THEN "RetryPolicyError"
    ELSE LET kept == HandlerErrors(task)
         IN  NextRunAt(d.retry, Append([i \in DOMAIN kept |-> kept[i].kind], e))

Fail(w, e) ==
    /\ running[w] # Idle
    /\ running' = [running EXCEPT ![w] = Idle]
    /\ LET d == Definition(w)
           failure == Encode(d.schemaId, "failure", Leaf(e))
           retried == RetryDecision(d, running[w], e) = "retry"
       IN  IF Failed(failure) \/ ~Owns(w) THEN UNCHANGED <<record, event, history, reported>>
           ELSE /\ Charged(failure, "handlerFailureCount", IF retried THEN "waiting" ELSE "failed")
                /\ reported' = [as |-> "failure", by |-> w, error |-> e, retried |-> retried]
    /\ UNCHANGED offer

-----------------------------------------------------------------------------
Init ==
    /\ offer = [result |-> "none"]
    /\ record = NoRecord
    /\ running = [w \in Workers |-> Idle]
    /\ event = NoEvent
    /\ history = <<>>
    /\ reported = [as |-> "nothing"]

Next ==
    \/ \E o \in Offers : Offer(o)
    \/ \E w \in Workers : Take(w) \/ Die(w)
    \/ \E w \in Workers, v \in Results : Succeed(w, v)
    \/ \E w \in Workers, e \in Failures : Fail(w, e)
    \/ Stall

Spec == Init /\ [][Next]_vars

-----------------------------------------------------------------------------
\* Properties.

\* Numbers that a task can be run with.
Usable(f, x) ==
    \/ f = "delay" /\ x = Half
    \/ x.is = "integer" /\ x.at >= IF f = "maxEventEntries" THEN 1 ELSE 0

(***************************************************************************)
(* An offer is created exactly when its payload is storable and fits, and  *)
(* what is created can be read: no layer refuses what an earlier one let   *)
(* through (the task would be a poison record, taken and never run), every *)
(* number was usable, and payload and success come back as they were given *)
(* under their own schema and kind, and under no other.                    *)
(***************************************************************************)
OffersRoundTrip ==
    offer.result # "none" =>
      /\ offer.result \notin {"InvalidInput", "ScriptFailure"}
      /\ offer.result = "created" <=> record # NoRecord
      /\ offer.result \notin {"dies", "TaskOptionsError"} =>
           (offer.result = "created" <=>
              /\ Storable(offer.given.value, "payload")
              /\ Size(Meaning(offer.given.value, 1)) <= MaxValueBytes)
      /\ offer.result = "created" =>
           /\ Readable(record.numbers)
           /\ \A f \in Fields \ {"maxRetries", "maxHistoryEntries"} : Usable(f, record.numbers[f])
           /\ \A s \in {record.schemaId, "another"}, k \in Kinds :
                Decode(record.payload, s, k) =
                  IF s # record.schemaId THEN Mismatch
                  ELSE IF k # "payload" THEN Corrupt
                  ELSE Meaning(offer.given.value, 1)
      /\ reported.as = "success" =>
           Decode(record.success, record.schemaId, "success") = Meaning(reported.value, 1)

Newest(s, n) == SubSeq(s, Max({1, Len(s) - n + 1}), Len(s))

\* What a failure charged to the record means to a handler.
Charge(x) == IF x = Stalled THEN Stalled ELSE Normalized(x.value)

\* What an event is about, as those who caused it meant it.
Told ==
    CASE event.tag = "task.created" -> Meaning(offer.given.value, 1)
      [] event.tag = "task.failed" -> Charge(Last(history))
      [] event.tag = "task.completed" -> Meaning(reported.value, 1)

(***************************************************************************)
(* A handler runs only for a worker whose definition has the record's      *)
(* schema, with the payload that was offered, and the errors it is shown   *)
(* are the newest the record was ever charged with, oldest first, stalls   *)
(* included, however they were appended, capped and decoded in between.    *)
(* A reader of the stream with the record's schema can decode every event  *)
(* and learns what happened; one with another schema is stopped by every   *)
(* event but a stall, and never shown a foreign value as its own.          *)
(***************************************************************************)
HandlerSeesHistory ==
    /\ \A w \in Workers : running[w] # Idle =>
         LET task == running[w]
             past == SubSeq(history, 1, task.seen)
             shown == Newest(past, record.numbers.maxErrorEntries.at)
         IN  /\ Definition(w).schemaId = record.schemaId
             /\ task.payload = Meaning(offer.given.value, 1)
             /\ task.errors = [i \in DOMAIN shown |-> Charge(shown[i])]
             /\ task.handlerFailureCount = Len(SelectSeq(past, LAMBDA x : x # Stalled))
    /\ event # NoEvent => \A w \in Workers :
         LET decoded == DecodedEvent(Definition(w), event)
         IN  IF Definition(w).schemaId # record.schemaId
             THEN decoded = IF event.value = Stalled THEN Stalled ELSE Mismatch
             ELSE (IF event.tag = "task.created" THEN decoded.payload ELSE decoded) = Told

\* The handler failures the record was ever charged with.
AllFailures ==
    LET failures == SelectSeq(history, LAMBDA x : x # Stalled)
    IN  [i \in DOMAIN failures |-> failures[i].value.kind]

(***************************************************************************)
(* A failed attempt is retried exactly when the schedule of the worker     *)
(* that reports it says so of all the failures there ever were, and only   *)
(* within the cap on retries; the one exception is a task that has had     *)
(* more errors, stalls among them, than it may keep: it ends.              *)
(***************************************************************************)
RetryAsIfComplete ==
    reported.as = "failure" /\ record.state \in {"waiting", "failed"} /\ Last(history) # Stalled =>
      LET d == Definition(reported.by)
          cap == IF record.numbers.maxRetries # Whole(-1) THEN record.numbers.maxRetries
                 ELSE d.maxRetries
          due == /\ d.retry # NoRetry
                 /\ Len(AllFailures) <= cap.at
                 /\ reported.error \notin BuiltIn
                 /\ NextRunAt(d.retry, AllFailures) = "retry"
      IN  /\ reported.retried => due
          /\ due /\ ~reported.retried => Len(history) - 1 > record.numbers.maxErrorEntries.at
          /\ reported.retried <=> record.state = "waiting"

=============================================================================
