------------------------------- MODULE TaskWait -------------------------------
(***************************************************************************)
(* Waiting for a task: the durable state of one task id, the queue's event *)
(* stream that taskEngine.lua trims as it publishes, the stream reader of  *)
(* src/TaskEngine.ts and the wait operation of src/TaskQueue.ts.           *)
(*                                                                         *)
(* wait makes several calls: it reads the durable state, starts a fiber    *)
(* that reads the stream from the handle's cursor, reads the state again   *)
(* and then joins the fiber.  Between any two calls the task may settle,   *)
(* expire, be removed or replaced, and other tasks publish and trim.       *)
(*                                                                         *)
(* Of the task itself only what a waiting client can observe is kept       *)
(* (TaskEngine has the rest).                                              *)
(***************************************************************************)
EXTENDS Integers, Sequences, FiniteSets

CONSTANTS
    Waiters,        \* callers of wait
    Impatient,      \* those that gave a timeout
    Kept,           \* events that a trim never drops, counted from the newest
    MaxGen,         \* bound: generations of the id
    MaxEvents       \* bound: events of the queue

ASSUME WaitersAssumption == Impatient \subseteq Waiters
ASSUME BoundsAssumption == Kept \in Nat \ {0} /\ MaxGen \in Nat /\ MaxEvents \in Nat

VARIABLES
    given,      \* the hash of generations: the newest generation
    record,     \* the task record: generation (0 when absent) and outcome
    results,    \* the stored terminal results, <<generation, outcome>>
    events,     \* every event ever published; its stream id is its position
    trimmed,    \* the events up to this position are no longer in the stream
    waiter      \* where each wait is

vars == <<given, record, results, events, trimmed, waiter>>

-----------------------------------------------------------------------------
(* The durable state and the stream. *)

Outcomes == {"success", "failure"}
Absent == [generation |-> 0, outcome |-> "open"]

\* An event of this id's generation, or of another task (generation 0).
Event == [generation : Nat, tag : {"other", "failed", "settled"},
          outcome : Outcomes \cup {"open"}]
NewEvent(g, tag, outcome) == [generation |-> g, tag |-> tag, outcome |-> outcome]

\* publishEvent: XADD with MAXLEN ~ and XTRIM MINID ~ drop old events, but Redis
\* decides how many of those that it may drop.
MayTrim(n) == n <= Len(events) + 1 - Kept
Publish(e) ==
    /\ Len(events) < MaxEvents
    /\ events' = Append(events, e)
    /\ \E n \in trimmed..MaxEvents :
           /\ n = trimmed \/ MayTrim(n)
           /\ trimmed' = n

\* createTask of a free id, or of one whose generation is settled.  Consecutive
\* events of one script that no waiter looks for are one here.
OfferTask ==
    /\ given < MaxGen
    /\ record = Absent \/ record.outcome # "open"
    /\ given' = given + 1
    /\ record' = [generation |-> given + 1, outcome |-> "open"]
    /\ Publish(NewEvent(given + 1, "other", "open"))
    /\ UNCHANGED <<results, waiter>>

\* A failure that will be retried, and any other step of the task's life.
Proceed ==
    /\ record # Absent /\ record.outcome = "open"
    /\ \E e \in {NewEvent(record.generation, "failed", "failure"),
                NewEvent(record.generation, "other", "open")} : Publish(e)
    /\ UNCHANGED <<given, record, results, waiter>>

\* settleTask: the result is stored, the record is kept or deleted, the terminal
\* event is published, all in one run of the script.
SettleTask ==
    /\ record # Absent /\ record.outcome = "open"
    /\ \E o \in Outcomes :
        /\ results' = results \cup {<<record.generation, o>>}
        /\ record' \in {Absent, [record EXCEPT !.outcome = o]}
        /\ Publish(NewEvent(record.generation, "settled", o))
    /\ UNCHANGED <<given, waiter>>

\* deleteTask, by removeTask (which keeps a result) or forceRemoveTask.
RemoveTask ==
    /\ record # Absent
    /\ record' = Absent
    /\ results' \in {results, {r \in results : r[1] # record.generation}}
    /\ Publish(NewEvent(record.generation, "other", "open"))
    /\ UNCHANGED <<given, waiter>>

SyncTaskExpiry ==
    /\ record.outcome # "open"
    /\ record' = Absent
    /\ UNCHANGED <<given, results, events, trimmed, waiter>>

SyncResultExpiry ==
    /\ \E r \in results : results' = results \ {r}
    /\ UNCHANGED <<given, record, events, trimmed, waiter>>

\* Events of the queue's other tasks.
Others ==
    /\ Publish(NewEvent(0, "other", "open"))
    /\ UNCHANGED <<given, record, results, waiter>>

-----------------------------------------------------------------------------
(* A stream reader: the check of its first cursor, then XREAD after XREAD. *)

\* "off", "checking" (eventCursors), "reading", "delivered", "expired".
NoReader == [step |-> "off", cursor |-> 0, outcome |-> "open", missed |-> {}]

CursorExpired(cursor) == trimmed > 0 /\ cursor < trimmed + 1

\* The events a wait is for.
Matches(e, g) == e.generation = g /\ e.tag = "settled"

\* Reading starts from the cursor of the wait's handle.
FirstCursor_Latest(w) == Len(events)
FirstCursor(w) == waiter[w].cursor

CheckCursors(w) ==
    LET from == FirstCursor(w)
    IN /\ waiter[w].reader.step = "checking"
       /\ waiter' = [waiter EXCEPT ![w].reader =
              IF CursorExpired(from) THEN [@ EXCEPT !.step = "expired"]
              ELSE [@ EXCEPT !.step = "reading", !.cursor = from]]
       /\ UNCHANGED <<given, record, results, events, trimmed>>

\* A blocking XREAD answers when there is something after the cursor: everything
\* of that which is still there.
ReadEvents(w) ==
    LET f == waiter[w].reader
        from == IF f.cursor < trimmed THEN trimmed ELSE f.cursor
        found == {n \in (from + 1)..Len(events) : Matches(events[n], waiter[w].generation)}
        first == CHOOSE n \in found : \A m \in found : n <= m
    IN /\ f.step = "reading"
       /\ Len(events) > from
       /\ waiter' = [waiter EXCEPT ![w].reader =
            IF found # {}
            THEN [f EXCEPT !.step = "delivered", !.outcome = events[first].outcome,
                           !.missed = @ \cup (f.cursor + 1)..from]
            ELSE [f EXCEPT !.cursor = Len(events),
                           !.missed = @ \cup (f.cursor + 1)..from]]
       /\ UNCHANGED <<given, record, results, events, trimmed>>

-----------------------------------------------------------------------------
(* wait *)

\* step: "idle", the calls of readDurable ("record", "result", "generation"),
\* "join" or "answered"; recheck: whether it is the second readDurable.
NoWait == [step |-> "idle", generation |-> 0, cursor |-> 0, recheck |-> FALSE,
           reader |-> NoReader, answer |-> "none"]

\* What a handle says of the task: its generation, and where in the stream it was offered.
Handle == [generation |-> record.generation, cursor |-> Len(events)]

\* execute: an offer, new or of an existing task, returns a handle, and wait begins.
Begin(w) ==
    /\ waiter[w].step = "idle"
    /\ record # Absent
    /\ waiter' = [waiter EXCEPT ![w] =
           [NoWait EXCEPT !.step = "record", !.generation = Handle.generation,
                          !.cursor = Handle.cursor]]
    /\ UNCHANGED <<given, record, results, events, trimmed>>

\* What wait fails with, besides the task's own failure.
Refusals == {"result-expired", "not-found", "cursor-expired", "timeout"}

\* Answering ends the wait; a fiber it has started is interrupted.
Answer(w, a) ==
    waiter' = [waiter EXCEPT ![w].step = "answered", ![w].answer = a,
                             ![w].reader = NoReader]

\* The task has no outcome: start the fiber, or join it.
Pending(w) ==
    waiter' = [waiter EXCEPT ![w] =
        IF @.recheck THEN [@ EXCEPT !.step = "join"]
        ELSE [@ EXCEPT !.recheck = TRUE,
                       !.reader = [NoReader EXCEPT !.step = "checking"]]]

\* getTask: the record of this generation answers, any other leads to the result.
ReadRecord(w) ==
    /\ waiter[w].step = "record"
    /\ \/ /\ record.generation # waiter[w].generation
          /\ waiter' = [waiter EXCEPT ![w].step = "result"]
       \/ /\ record.generation = waiter[w].generation
          /\ IF record.outcome = "open" THEN Pending(w) ELSE Answer(w, record.outcome)
    /\ UNCHANGED <<given, record, results, events, trimmed>>

\* getResult.
StoredResult_Newest(w) == {r \in results : r[1] = given}
StoredResult(w) == {r \in results : r[1] = waiter[w].generation}
ReadResult(w) ==
    /\ waiter[w].step = "result"
    /\ \/ \E r \in StoredResult(w) : Answer(w, r[2])
       \/ /\ StoredResult(w) = {}
          /\ waiter' = [waiter EXCEPT ![w].step = "generation"]
    /\ UNCHANGED <<given, record, results, events, trimmed>>

\* getGeneration (after a record of another generation its number is at hand).
ReadGeneration(w) ==
    /\ waiter[w].step = "generation"
    /\ Answer(w, IF given = 0 THEN "not-found" ELSE "result-expired")
    /\ UNCHANGED <<given, record, results, events, trimmed>>

Join(w) ==
    LET f == waiter[w].reader
    IN /\ waiter[w].step = "join"
       /\ f.step \in {"delivered", "expired"}
       /\ Answer(w, IF f.step = "delivered" THEN f.outcome ELSE "cursor-expired")
       /\ UNCHANGED <<given, record, results, events, trimmed>>

CallerTimeout(w) ==
    /\ w \in Impatient
    /\ waiter[w].step \notin {"idle", "answered"}
    /\ Answer(w, "timeout")
    /\ UNCHANGED <<given, record, results, events, trimmed>>

-----------------------------------------------------------------------------

Init ==
    /\ given = 0
    /\ record = Absent
    /\ results = {}
    /\ events = <<>>
    /\ trimmed = 0
    /\ waiter = [w \in Waiters |-> NoWait]

Operation ==
    \/ OfferTask \/ Proceed \/ SettleTask \/ RemoveTask \/ Others
    \/ SyncTaskExpiry \/ SyncResultExpiry
Wait(w) == ReadRecord(w) \/ ReadResult(w) \/ ReadGeneration(w) \/ Join(w)
Reader(w) == CheckCursors(w) \/ ReadEvents(w)

Next ==
    \/ Operation
    \/ \E w \in Waiters : Begin(w) \/ Wait(w) \/ Reader(w) \/ CallerTimeout(w)

Spec == Init /\ [][Next]_vars

\* The runtime keeps both fibers of a wait going; nobody has to settle a task.
FairSpec == Spec /\ \A w \in Waiters : WF_vars(Wait(w)) /\ WF_vars(Reader(w))

-----------------------------------------------------------------------------
(* Properties. *)

\* The stream never loses its newest entries, and every position is one in it.
TypeOK ==
    /\ given \in 0..MaxGen
    /\ record \in [generation : 0..given, outcome : Outcomes \cup {"open"}]
    /\ results \subseteq (1..given) \X Outcomes
    /\ events \in Seq(Event)
    /\ trimmed \in 0..Len(events) /\ (trimmed > 0 => Len(events) - trimmed >= Kept)
    /\ waiter \in [Waiters ->
           [step : {"idle", "record", "result", "generation", "join", "answered"},
            generation : 0..MaxGen, cursor : 0..MaxEvents, recheck : BOOLEAN,
            reader : [step : {"off", "checking", "reading", "delivered", "expired"},
                      cursor : 0..MaxEvents, outcome : Outcomes \cup {"open"},
                      missed : SUBSET (1..MaxEvents)],
            answer : Outcomes \cup Refusals \cup {"none"}]]
    /\ \A w \in Waiters : waiter[w].cursor <= Len(events)

Settled(g) == {n \in DOMAIN events : Matches(events[n], g)}

\* A wait that returns a value or a failure returns the outcome of the generation
\* that its handle names: not that of a successor with the same id, and not a
\* failure that was retried.
WaitTruthful ==
    \A w \in Waiters : waiter[w].answer \in Outcomes =>
        \E n \in DOMAIN events : events[n] =
            NewEvent(waiter[w].generation, "settled", waiter[w].answer)

\* The negative answers are true as well: a result reported as expired cannot be
\* read any more, in the record or beside it; an expired cursor lies in front of
\* what the stream still has; and a handle's task is never unknown.  wait takes
\* these from several reads, between which the state changes.
RefusalTruthful ==
    \A w \in Waiters :
        LET g == waiter[w].generation
        IN /\ waiter[w].answer = "result-expired" =>
                  /\ ~\E r \in results : r[1] = g
                  /\ record.generation # g
           /\ waiter[w].answer = "cursor-expired" => waiter[w].cursor <= trimmed
           /\ waiter[w].answer # "not-found"

\* Whatever wait answers is true.
AnswersTruthful == TypeOK /\ WaitTruthful /\ RefusalTruthful

\* The terminal event was dropped while the fiber was at an earlier position.
Outrun(w) ==
    /\ waiter[w].reader.step = "reading"
    /\ \A n \in Settled(waiter[w].generation) : n <= trimmed

\* A wait whose task settles is answered, however the settlement falls between
\* its reads, unless the stream is trimmed faster than its fiber reads it.
WaitEnds ==
    \A w \in Waiters :
        (waiter[w].step # "idle" /\ Settled(waiter[w].generation) # {})
            ~> (waiter[w].step = "answered" \/ Outrun(w))

\* "A cursor into a trimmed interval fails with CursorExpired": a reader that goes
\* on was given every event after its first cursor.
NoSilentGap == \A w \in Waiters : waiter[w].reader.missed = {}
===============================================================================
